------------------------------- MODULE OamLink ------------------------------
(***************************************************************************)
(* The TCP connections between the management agents and the road-side     *)
(* unit: one per agent process, which connects once (cv_oam_init) and      *)
(* never again.                                                            *)
(*                                                                         *)
(* A frame is [id, from]: the request's number in its process and the      *)
(* caller whose data it carries.  An answer is the request sent back.      *)
(*                                                                         *)
(* Both sides take what one recv returns for one frame: when several have  *)
(* arrived, all but the first are lost.  A recv that ends within a frame   *)
(* (more than 1200 bytes have arrived) is left out.                        *)
(***************************************************************************)
EXTENDS Naturals, Sequences

CONSTANTS Procs   \* agent processes

VARIABLES
  link,   \* a process's end: "off", "on", "reset" by the server, "shut", "gone"
  up,     \* requests that have arrived at the server and are not received yet
  down    \* answers that have arrived at the process

linkVars == <<link, up, down>>

LinkInit == /\ link = [p \in Procs |-> "off"]
            /\ up = [p \in Procs |-> <<>>] /\ down = [p \in Procs |-> <<>>]

\* recv returns the first k frames
After(s, k) == SubSeq(s, k + 1, Len(s))

\* send by the process p; after a reset the frame is lost
SendUp(p, f) == up' = IF link[p] = "on" THEN [up EXCEPT ![p] = Append(@, f)] ELSE up
=============================================================================
