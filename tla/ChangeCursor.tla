---------------------------- MODULE ChangeCursor ----------------------------
(***************************************************************************)
(* What the pair (rotate_token, pending_rotate_token) promises of a drive  *)
(* whose change log only grows.  A token is staged while a build runs and  *)
(* becomes the cursor when the build commits; whoever reads changes from   *)
(* the cursor never reads from a position already passed, unless the       *)
(* cursor was cleared, and never skips ahead of the log.                   *)
(***************************************************************************)
EXTENDS Naturals

CONSTANT Drives

VARIABLES
    head,       \* the last position of each drive's change log
    cursor,     \* the position each drive is indexed up to, 0 for none
    staged      \* the position a running build will commit, 0 for none

vars == <<head, cursor, staged>>

Init ==
    /\ head \in [Drives -> Nat \ {0}]
    /\ cursor = [d \in Drives |-> 0]
    /\ staged = [d \in Drives |-> 0]

Grow(d) ==
    /\ head' = [head EXCEPT ![d] = @ + 1]
    /\ UNCHANGED <<cursor, staged>>

\* A build starts with a token at or after everything committed or staged.
Stage(d) ==
    /\ \E t \in 1 .. head[d] :
          /\ t >= cursor[d] /\ t >= staged[d]
          /\ staged' = [staged EXCEPT ![d] = t]
    /\ UNCHANGED <<head, cursor>>

Commit(d) ==
    /\ staged[d] # 0
    /\ cursor' = [cursor EXCEPT ![d] = staged[d]]
    /\ staged' = [staged EXCEPT ![d] = 0]
    /\ UNCHANGED head

Discard(d) ==
    /\ staged' = [staged EXCEPT ![d] = 0]
    /\ UNCHANGED <<head, cursor>>

\* A rebuild clears the cursor; removing the drive also drops the staged token.
Clear(d) ==
    /\ cursor' = [cursor EXCEPT ![d] = 0]
    /\ staged' \in {staged, [staged EXCEPT ![d] = 0]}
    /\ UNCHANGED head

Next == \E d \in Drives : Grow(d) \/ Stage(d) \/ Commit(d) \/ Discard(d) \/ Clear(d)

Spec == Init /\ [][Next]_vars

=============================================================================
