----------------------------- MODULE BuyJournal -----------------------------
(***************************************************************************)
(* What the buying agent promises of its purchases, to someone who reads   *)
(* its database, its API and the seller's books (README.md, "Store before  *)
(* sending" in Design notes): an operation is stored before the seller is  *)
(* asked, is never forgotten, and is reported completed only when the      *)
(* seller completed it.                                                    *)
(***************************************************************************)
CONSTANT Ops

VARIABLES
  stored,   \* operations in the database
  asked,    \* operations a seller was asked to buy
  bought,   \* operations the seller completed
  reported  \* operations this agent reports as completed

journalVars == <<stored, asked, bought, reported>>

Init == stored = {} /\ asked = {} /\ bought = {} /\ reported = {}

Store(o) ==
  /\ stored' = stored \cup {o}
  /\ UNCHANGED <<asked, bought, reported>>

Ask(o) ==
  /\ o \in stored
  /\ asked' = asked \cup {o}
  /\ UNCHANGED <<stored, bought, reported>>

Complete(o) ==
  /\ o \in asked
  /\ bought' = bought \cup {o}
  /\ UNCHANGED <<stored, asked, reported>>

\* Reports come and go: a crash silences the agent, late answers confuse it.
Report ==
  /\ reported' \in SUBSET bought
  /\ UNCHANGED <<stored, asked, bought>>

Next ==
  \/ \E o \in Ops : Store(o) \/ Ask(o) \/ Complete(o)
  \/ Report

Spec == Init /\ [][Next]_journalVars

=============================================================================
