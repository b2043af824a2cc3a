------------------------- MODULE UrlCanonicalization -------------------------
(***************************************************************************)
(* When two URLs name the same agent: canonicalize_url and urls_equivalent *)
(* (src/protocol/url_canon.py), by which an agent is looked up in the      *)
(* authorized_agents of a publisher.                                       *)
(*                                                                         *)
(* A URL is a sequence of symbols.  A symbol stands for a character that   *)
(* the algorithm looks at, for a percent-encoded one, or for a longer text *)
(* that it takes as a whole.  The URL under study is written symbol by     *)
(* symbol, so that every one up to a length is met.                        *)
(***************************************************************************)
EXTENDS Naturals, Sequences, SequencesExt

CONSTANTS
  Families   \* what is written: starts, symbols to go on with, and how many

Letters == {"a", "h", "H", "http", "https", "HTTPS"}
Digits == {"80", "443", "8443"}
Addresses == {"::1", "::a", "::A"}   \* of IPv6
Encoded == {"%2e", "%2E", "%61", "%2f", "%2F", "%25"}

Symbols ==
  Letters \cup Digits \cup Addresses \cup Encoded
  \cup {".", "/", ":", "?", "#", "@", "[", "]"}

ASSUME FamiliesAssumption ==
  Families \subseteq [starts : SUBSET Seq(Symbols), symbols : SUBSET Symbols, length : Nat]

VARIABLES url, family

vars == <<url, family>>

Init == family \in Families /\ url \in family.starts

Write(symbol) ==
  /\ Len(url) < family.length
  /\ symbol \in family.symbols
  /\ url' = Append(url, symbol)
  /\ UNCHANGED family

Next == \E symbol \in family.symbols : Write(symbol)

Spec == Init /\ [][Next]_vars

-----------------------------------------------------------------------------
(* Symbols in texts *)

Lower(symbol) ==
  CASE symbol = "H" -> "h" [] symbol = "HTTPS" -> "https" [] symbol = "::A" -> "::a"
    [] OTHER -> symbol

\* Unreserved characters are decoded, the hex digits of others put in capitals.
Decode(symbol) ==
  CASE symbol \in {"%2e", "%2E"} -> "." [] symbol = "%61" -> "a"
    [] symbol = "%2f" -> "%2F" [] OTHER -> symbol

Each(Op(_), text) == [i \in DOMAIN text |-> Op(text[i])]

\* The position of the first of some symbols, or one past the end.
First(text, symbols) ==
  Min({i \in DOMAIN text : text[i] \in symbols} \cup {Len(text) + 1})

Until(text, symbols) == SubSeq(text, 1, First(text, symbols) - 1)
From(text, symbols) == SubSeq(text, First(text, symbols), Len(text))
Drop(text, n) == SubSeq(text, n + 1, Len(text))

\* What cannot be canonicalized is.  No canonical text is empty.
Malformed == <<>>

-----------------------------------------------------------------------------
(* Paths *)

NormalizePercent(text) == Each(Decode, text)

Pop_Keeps(output) == output

\* The last segment that was put out begins at the last slash.
Pop(output) ==
  SubSeq(output, 1, Max({i \in DOMAIN output : output[i] = "/"} \cup {1}) - 1)

Up == <<".", ".">>

\* A turn of the loop in remove_dot_segments, with what is left of the path
\* and the text of the segments put out.
Turn(walk) ==
  LET data == walk.data
      starts(text) == IsPrefix(text, data)
      cut == First(Drop(data, 1), {"/"})
      To(rest, output) == [data |-> rest, output |-> output]
  IN CASE data = <<>> -> walk
       [] starts(Up \o <<"/">>) -> To(Drop(data, 3), walk.output)
       [] starts(<<".", "/">>) -> To(Drop(data, 2), walk.output)
       [] starts(<<"/", ".", "/">>) -> To(Drop(data, 2), walk.output)
       [] data = <<"/", ".">> -> To(<<"/">>, walk.output)
       [] starts(<<"/">> \o Up \o <<"/">>) -> To(Drop(data, 3), Pop(walk.output))
       [] data = <<"/">> \o Up -> To(<<"/">>, Pop(walk.output))
       [] data \in {<<".">>, Up} -> To(<<>>, walk.output)
       [] OTHER -> To(Drop(data, cut), walk.output \o SubSeq(data, 1, cut))

\* The loop ends when nothing is left; each turn takes one symbol at least.
RemoveDotSegments(path) ==
  LET walk[n \in Nat] == IF n = 0 THEN [data |-> path, output |-> <<>>]
                         ELSE Turn(walk[n - 1])
  IN walk[Len(path)].output

CanonicalPath_DotsFirst(path) ==
  LET resolved == NormalizePercent(RemoveDotSegments(path))
  IN IF resolved = <<>> THEN <<"/">> ELSE resolved

CanonicalPath(path) ==
  LET resolved == RemoveDotSegments(NormalizePercent(path))
  IN IF resolved = <<>> THEN <<"/">> ELSE resolved

-----------------------------------------------------------------------------
(* Authorities *)

CanonicalIpv6(host) ==
  IF Len(host) = 3 /\ host[2] \in Addresses THEN Each(Lower, host) ELSE Malformed

Labelled(host) ==
  /\ \A i \in DOMAIN host : host[i] \in Letters \cup Digits \cup {"."}
  /\ \A i \in DOMAIN host : host[i] = "." => i > 1 /\ host[i - 1] # "."

Trimmed_Kept(host) == host

\* One root dot goes.
Trimmed(host) == IF host # <<>> /\ Last(host) = "." THEN Front(host) ELSE host

CanonicalDnsHost(host) ==
  IF host # <<>> /\ Labelled(host) THEN Each(Lower, Trimmed(host)) ELSE Malformed

\* Userinfo goes.
HostPort(authority) ==
  Drop(authority, Max({i \in DOMAIN authority : authority[i] = "@"} \cup {0}))

\* parse_host_port: the host, with its brackets, and what follows it.
Host(hostport) ==
  IF IsPrefix(<<"[">>, hostport)
  THEN SubSeq(hostport, 1, Min({First(hostport, {"]"}), Len(hostport)}))
  ELSE Until(hostport, {":"})

PortPart(hostport) == Drop(hostport, Len(Host(hostport)))

CanonicalHost(hostport) ==
  IF ~IsPrefix(<<"[">>, hostport) THEN CanonicalDnsHost(Host(hostport))
  ELSE IF Last(Host(hostport)) = "]" THEN CanonicalIpv6(Host(hostport)) ELSE Malformed

ValidPort(part) ==
  part # <<>> => part[1] = ":" /\ \A i \in 2 .. Len(part) : part[i] \in Digits

\* No port is given, or the one of the scheme.
IsDefault(scheme, part) ==
  \/ part \in {<<>>, <<":">>}
  \/ <<scheme, part>> \in {<<<<"https">>, <<":", "443">>>>, <<<<"http">>, <<":", "80">>>>}

-----------------------------------------------------------------------------
(* URLs *)

Scheme(text) == Until(text, {":"})

HasScheme(text) ==
  /\ First(text, {":"}) <= Len(text)
  /\ Scheme(text) # <<>> /\ text[1] \in Letters
  /\ \A i \in DOMAIN Scheme(text) : text[i] \in Letters \cup Digits \cup {"."}

AfterScheme(text) == Drop(From(text, {":"}), 1)

\* split_authority
Authority(text) == Until(Drop(AfterScheme(text), 2), {"/", "?", "#"})
Remainder(text) == From(Drop(AfterScheme(text), 2), {"/", "?", "#"})

\* Fragments go.
Path(text) == Until(Remainder(text), {"?", "#"})
Query(text) == From(Until(Remainder(text), {"#"}), {"?"})

CanonicalScheme_Raw(text) == Scheme(text)

CanonicalScheme(text) == Each(Lower, Scheme(text))

CanonicalAuthority(text) ==
  LET hostport == HostPort(Authority(text))
      host == CanonicalHost(hostport)
      port == PortPart(hostport)
  IN IF host = Malformed \/ ~ValidPort(port) THEN Malformed
     ELSE host \o
          (IF IsDefault(CanonicalScheme(text), port) THEN <<>> ELSE port)

CanonicalizeUrl(text) ==
  LET authority == CanonicalAuthority(text) IN
  IF HasScheme(text) /\ IsPrefix(<<"/", "/">>, AfterScheme(text)) /\ authority # Malformed
  THEN CanonicalScheme(text) \o <<":", "/", "/">> \o authority
       \o CanonicalPath(Path(text)) \o NormalizePercent(Query(text))
  ELSE Malformed

UrlsEquivalent(left, right) ==
  /\ CanonicalizeUrl(left) # Malformed
  /\ CanonicalizeUrl(left) = CanonicalizeUrl(right)

-----------------------------------------------------------------------------
(* Properties *)

\* An agent's URL that was canonicalized is its own canonical form: it does not
\* matter whether a publisher lists one or the other.
Idempotent ==
  LET canonical == CanonicalizeUrl(url)
  IN canonical # Malformed => CanonicalizeUrl(canonical) = canonical

\* The segment that begins at a slash.
Segment(path, i) == Until(Drop(path, i), {"/"})

Text(segments) ==
  LET text[n \in 0 .. Len(segments)] ==
        IF n = 0 THEN <<>> ELSE text[n - 1] \o (<<"/">> \o segments[n])
  IN text[Len(segments)]

\* What is left of the segments when one more is read: a ".." takes back one
\* that is left, an empty one like any other.
Read(stack, segment) ==
  IF segment = <<".">> THEN stack
  ELSE IF segment # Up THEN Append(stack, segment)
  ELSE IF stack = <<>> THEN <<>> ELSE Front(stack)

\* What the segments of a path up to a position resolve to.
Stack(path) ==
  LET stack[n \in 0 .. Len(path)] ==
        IF n = 0 THEN <<>>
        ELSE IF path[n] = "/" THEN Read(stack[n - 1], Segment(path, n))
        ELSE stack[n - 1]
  IN stack

EndsInDots(path) ==
  \E i \in DOMAIN path : path[i] = "/" /\ Drop(path, i) \in {<<".">>, Up}

\* A path that ends in a dot segment is a directory.
Resolved(path) ==
  LET kept == Stack(path)[Len(path)]
  IN Text(IF EndsInDots(path) THEN Append(kept, <<>>) ELSE kept)

\* The loop over the text of a path resolves it as its segments tell, doubled
\* slashes and encoded dots included.
ResolvesSegments ==
  LET canonical == CanonicalizeUrl(url)
      path == Path(url)
  IN canonical # Malformed /\ path # <<>> =>
       Path(canonical) = Resolved(NormalizePercent(path))

\* The spellings of the symbol at a position, which mean the same there.
Spellings(i) ==
  LET same == IF i <= Len(Scheme(url)) THEN {{"https", "HTTPS"}, {"h", "H"}}
              ELSE IF i <= Len(url) - Len(Remainder(url))
              THEN {{"h", "H"}, {"::a", "::A"}}
              ELSE {{".", "%2e", "%2E"}, {"a", "%61"}, {"%2f", "%2F"}}
  IN UNION {s \in same : url[i] \in s}

\* However its parts are spelled, a URL names the same agent.
SpellingIndifferent ==
  CanonicalizeUrl(url) # Malformed =>
    \A i \in DOMAIN url : \A symbol \in Spellings(i) \ {url[i]} :
      UrlsEquivalent([url EXCEPT ![i] = symbol], url)

\* A canonical URL has no userinfo, no default or empty port, no root dot and no
\* fragment: nothing of these can tell an agent from itself.
Bare ==
  LET canonical == CanonicalizeUrl(url)
      authority == Authority(canonical)
      port == PortPart(authority)
  IN canonical # Malformed =>
       /\ \A i \in DOMAIN authority : authority[i] # "@"
       /\ Last(Host(authority)) # "."
       /\ port # <<>> => ~IsDefault(Scheme(canonical), port)
       /\ \A i \in DOMAIN canonical : canonical[i] # "#"

=============================================================================
