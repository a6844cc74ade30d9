-------------------------- MODULE RunScriptProofs ---------------------------
(***************************************************************************)
(* Proofs about the scripts, for any number of signals, whichever of their *)
(* commands fail.                                                          *)
(***************************************************************************)
EXTENDS RunScript, TLAPS

\* What the clean-up has undone, or failed to undo, by the time it comes to
\* each command.
Progress ==
  /\ pc \in {"mon_down", "mon_del", "start_nm", "main_up"} =>
       (held # "none" => "rmmod" \in failed)
  /\ pc \in {"start_nm", "main_up"} => (mon # "absent" => "mon_del" \in failed)
  /\ pc = "main_up" => (~nm => "start_nm" \in failed)

RunInv ==
  /\ known \in BOOLEAN /\ nm \in BOOLEAN /\ main \in BOOLEAN
  /\ mon \in {"absent", "down", "up"}
  /\ held \in {"none", "mon0", "gone"}
  /\ ModuleHasDevice
  /\ Progress
  /\ CleanedUp

\* The commands up to the end of the user program.
LEMMA StartingKeepsInv ==
  ASSUME RunInv,
         \/ Run \/ StopNetworkManager \/ MainDown \/ MonAdd \/ MonUp \/ Insmod
         \/ Sleep \/ UserOpens \/ UserEnds \/ SetTrap
  PROVE  RunInv'
<1> USE DEF RunInv, Progress, ModuleHasDevice, CleanedUp, Undone, Step, history
<1>1. CASE Run
    BY <1>1 DEF Run
<1>2. CASE StopNetworkManager
    BY <1>2 DEF StopNetworkManager
<1>3. CASE MainDown
  <2>1. main' \in BOOLEAN
      BY <1>3 DEF MainDown
  <2> QED
      BY <1>3, <2>1 DEF MainDown
<1>4. CASE MonAdd
    BY <1>4 DEF MonAdd
<1>5. CASE MonUp
    BY <1>5 DEF MonUp
<1>6. CASE Insmod
    BY <1>6 DEF Insmod
<1>7. CASE Sleep \/ UserOpens \/ UserEnds \/ SetTrap
    BY <1>7 DEF Sleep, UserOpens, UserEnds, SetTrap, machine
<1> QED
    BY <1>1, <1>2, <1>3, <1>4, <1>5, <1>6, <1>7

\* The commands of the clean-up, each of which undoes its part or fails.
LEMMA CleaningKeepsInv ==
  ASSUME RunInv,
         Rmmod \/ MonDown \/ MonDel \/ StartNetworkManager \/ MainUp
  PROVE  RunInv'
<1> USE DEF RunInv, Progress, ModuleHasDevice, CleanedUp, Undone, Step,
            Succeeds, Fails, history
<1>1. CASE Rmmod
    BY <1>1 DEF Rmmod
<1>2. CASE MonDown
    BY <1>2 DEF MonDown
<1>3. CASE MonDel
    BY <1>3 DEF MonDel
<1>4. CASE StartNetworkManager
    BY <1>4 DEF StartNetworkManager
<1>5. CASE MainUp
    BY <1>5 DEF MainUp
<1> QED
    BY <1>1, <1>2, <1>3, <1>4, <1>5

\* A signal changes nothing on the machine; it ends the run for good, starts
\* the clean-up from its beginning, or leaves pc where it is.
LEMMA SignalsKeepInv ==
  ASSUME RunInv, Interrupt \/ Terminate \/ HangUp
  PROVE  RunInv'
<1> USE DEF RunInv, Progress, ModuleHasDevice, CleanedUp, Undone, Signal, Abort,
            RunAgain, machine
<1>1. CASE Interrupt
    BY <1>1 DEF Interrupt, Cleaning
<1>2. CASE Terminate
    BY <1>2 DEF Terminate, Cleaning
<1>3. CASE HangUp
    BY <1>3 DEF HangUp
<1> QED
    BY <1>1, <1>2, <1>3

\* The invariant holds throughout.
LEMMA RunAlways ==
  RunSpec => []RunInv
<1>1. RunInit => RunInv
    BY DEF RunInit, RunInv, ModuleHasDevice, Progress, CleanedUp, Undone
<1>2. RunInv /\ [RunNext]_runVars => RunInv'
  <2>1. ASSUME RunInv, RunNext
        PROVE  RunInv'
      BY <2>1, StartingKeepsInv, CleaningKeepsInv, SignalsKeepInv DEF RunNext, Scripts
  <2>2. ASSUME RunInv, UNCHANGED runVars
        PROVE  RunInv'
      BY <2>2 DEF runVars, machine, history, RunInv, ModuleHasDevice, Progress,
                  CleanedUp, Undone
  <2> QED
      BY <2>1, <2>2
<1> QED
    BY <1>1, <1>2, PTL DEF RunSpec

\* Every run of run.sh that is not ended by a signal leaves behind nothing but
\* what its clean-up has tried and failed to undo, whichever commands fail and
\* however many interrupts hit the clean-up.
THEOREM RunsCleanUp ==
  RunSpec => []CleanedUp
<1>1. RunInv => CleanedUp
    BY DEF RunInv
<1> QED
    BY <1>1, RunAlways, PTL

\* mon0 is deleted under the module only if rmmod has failed before.
THEOREM DeviceOutlivesModule ==
  RunSpec => []ModuleHasDevice
<1>1. RunInv => ModuleHasDevice
    BY DEF RunInv
<1> QED
    BY <1>1, RunAlways, PTL
=============================================================================
