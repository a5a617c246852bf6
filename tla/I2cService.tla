----------------------------- MODULE I2cService -----------------------------
(***************************************************************************)
(* What drivers/i2c promises the callers of i2c_transfer: requests are     *)
(* served one at a time, message after message; bytes cross the wire only  *)
(* for the request being served; a message is left behind, and a request   *)
(* reported successful, only when no byte of the message remains.          *)
(***************************************************************************)
EXTENDS Naturals

CONSTANTS Threads

VARIABLES
  stage,    (* [Threads -> {"idle", "waiting", "serving"}]                 *)
  left,     (* bytes of the message that have not crossed the wire         *)
  result    (* outcome of the last request, "pending" during one           *)

serviceVars == <<stage, left, result>>

Init ==
  /\ stage = [t \in Threads |-> "idle"]
  /\ left = [t \in Threads |-> 0]
  /\ result = [t \in Threads |-> "none"]

Request(t) ==
  /\ stage[t] = "idle"
  /\ stage' = [stage EXCEPT ![t] = "waiting"]
  /\ left'[t] \in Nat
  /\ left' = [left EXCEPT ![t] = left'[t]]
  /\ result' = [result EXCEPT ![t] = "pending"]

Grant(t) ==
  /\ stage[t] = "waiting"
  /\ \A u \in Threads : stage[u] # "serving"
  /\ stage' = [stage EXCEPT ![t] = "serving"]
  /\ UNCHANGED <<left, result>>

Move(t) ==
  /\ stage[t] = "serving"
  /\ left[t] > 0
  /\ left' = [left EXCEPT ![t] = @ - 1]
  /\ UNCHANGED <<stage, result>>

NextMessage(t) ==
  /\ stage[t] = "serving"
  /\ left[t] = 0
  /\ left'[t] \in Nat
  /\ left' = [left EXCEPT ![t] = left'[t]]
  /\ UNCHANGED <<stage, result>>

Finish(t) ==
  /\ stage[t] = "serving"
  /\ stage' = [stage EXCEPT ![t] = "idle"]
  /\ \/ left[t] = 0 /\ result' = [result EXCEPT ![t] = "ok"]
     \/ result' = [result EXCEPT ![t] = "eio"]
  /\ left' = [left EXCEPT ![t] = 0]

Next ==
  \E t \in Threads :
    Request(t) \/ Grant(t) \/ Move(t) \/ NextMessage(t) \/ Finish(t)

ServiceSpec == Init /\ [][Next]_serviceVars

=============================================================================
