---------------------------- MODULE StepSequence ----------------------------
(***************************************************************************)
(* What a resumable run promises, without processes, containers or saved   *)
(* states: its steps are done one after another, work is only ever put     *)
(* into the first step that is not done, perhaps more than once, and what  *)
(* is done stays done and is not worked on again.                          *)
(***************************************************************************)
EXTENDS Naturals

CONSTANT N          \* the number of steps

VARIABLES
    done,           \* how many steps are done
    started         \* per step, how often it was started

Init == done = 0 /\ started = [s \in 1..N |-> 0]

Work ==
    /\ done < N
    /\ started' = [started EXCEPT ![done + 1] = @ + 1]
    /\ UNCHANGED done

Complete ==
    /\ done < N /\ started[done + 1] > 0
    /\ done' = done + 1
    /\ UNCHANGED started

Next == Work \/ Complete
Spec == Init /\ [][Next]_<<done, started>>
=============================================================================
