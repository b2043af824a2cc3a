------------------------ MODULE MCUrlCanonicalization ------------------------
(***************************************************************************)
(* UrlCanonicalization with three kinds of URLs: ones whose authority      *)
(* varies, ones on a fixed host whose path and query do, and texts that    *)
(* need not have a scheme and an authority.                                *)
(***************************************************************************)
EXTENDS UrlCanonicalization

CONSTANTS AuthorityLength, PathLength, AnyLength

MCFamilies ==
  {[starts |-> {<<s, ":", "/", "/">> : s \in {"http", "HTTPS"}},
    symbols |-> {"@", ":", "[", "]", "H", ".", "::A", "%25", "80", "443"},
    length |-> AuthorityLength],
   [starts |-> {<<"https", ":", "/", "/", "h">>},
    symbols |-> {"/", ".", "a", "%2e", "%61", "%2f", "?", "#"},
    length |-> PathLength],
   [starts |-> {<<>>},
    symbols |-> {"h", "80", ":", "/", "?"},
    length |-> AnyLength]}

=============================================================================
