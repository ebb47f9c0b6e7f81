---------------------------- MODULE CallContract ----------------------------
(***************************************************************************)
(* What a generated client and the server promise about calls over one     *)
(* socket, whatever the ids, timers, pending entries and frames underneath:*)
(*   - a call is handled at most once, and only after it was made;         *)
(*   - a call is settled once, by an answer or by a failure;               *)
(*   - its answer is the one to this call, given after it was handled;     *)
(*   - a failed call may have been handled, or be handled later.           *)
(***************************************************************************)
EXTENDS Naturals

CONSTANT Calls

VARIABLES
  outcome,      (* "unmade", "open", "answered" or "failed"                 *)
  answer,       (* the call whose answer it was given, as a set             *)
  handled       (* the calls the server has handled                         *)

contractVars == <<outcome, answer, handled>>

ContractInit ==
  /\ outcome = [c \in Calls |-> "unmade"]
  /\ answer = [c \in Calls |-> {}]
  /\ handled = {}

(* A call may fail as it is made, when it cannot be written.               *)
Make(c) ==
  /\ outcome[c] = "unmade"
  /\ \E o \in {"open", "failed"} : outcome' = [outcome EXCEPT ![c] = o]
  /\ UNCHANGED <<answer, handled>>

Handle(c) ==
  /\ outcome[c] # "unmade" /\ c \notin handled
  /\ handled' = handled \cup {c}
  /\ UNCHANGED <<outcome, answer>>

Answer(c) ==
  /\ outcome[c] = "open" /\ c \in handled
  /\ outcome' = [outcome EXCEPT ![c] = "answered"]
  /\ answer' = [answer EXCEPT ![c] = {c}]
  /\ UNCHANGED handled

(* Any number of calls fail together when the socket fails.                *)
Fail(C) ==
  /\ \A c \in C : outcome[c] = "open"
  /\ outcome' = [c \in Calls |-> IF c \in C THEN "failed" ELSE outcome[c]]
  /\ UNCHANGED <<answer, handled>>

ContractNext ==
  \/ \E c \in Calls : Make(c) \/ Handle(c) \/ Answer(c)
  \/ \E C \in SUBSET Calls : Fail(C)

ContractSpec == ContractInit /\ [][ContractNext]_contractVars
=============================================================================
