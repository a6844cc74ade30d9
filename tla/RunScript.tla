----------------------------- MODULE RunScript ------------------------------
(***************************************************************************)
(* run.sh with kern/sniffer_start.sh and kern/sniffer_stop.sh: what they   *)
(* do to the machine, command by command, and the signals that may hit     *)
(* them.  pc names the command about to run:                               *)
(*                                                                         *)
(*   "off"                                        run.sh does not run      *)
(*   "stop_nm" "main_down" "mon_add" "mon_up" "insmod"   sniffer_start.sh  *)
(*   "sleep" "opening"         up to the start of the user program         *)
(*   "open"                    the user program has taken over the screen  *)
(*   "trap"                    it is over; the trap is not yet set         *)
(*   "rmmod" "mon_down" "mon_del" "start_nm" "main_up"   sniffer_stop.sh,  *)
(*                             run by the trap                             *)
(*   "mon_wait"                iw has deleted mon0 and waits for the       *)
(*                             module's reference to it                    *)
(*                                                                         *)
(* Any command may fail, for whatever reason, and no failure stops the     *)
(* scripts.  That the kernel lets iw wait for the last reference to the    *)
(* interface it deletes is external, and so is how bash and ncurses treat  *)
(* signals: a signal without a trap ends run.sh; Ctrl-C goes to the        *)
(* running command too; ncurses turns it into an ordinary exit of the user *)
(* program, after which bash goes on.                                      *)
(***************************************************************************)
EXTENDS Naturals

CONSTANT MaxSignals   \* model bound: how many signals there are in all

VARIABLES
  pc,
  known,    \* main_interface: there was a default route, through it
  nm,       \* NetworkManager runs
  main,     \* the main interface is up
  mon,      \* mon0: "absent", "down" or "up"
  held,     \* what the module holds a reference to: "none" (it is not loaded),
            \* "mon0", or "gone", an interface deleted under it
  again,    \* the clean-up is to be run once more
  failed,   \* auxiliary: the clean-up's commands that failed when last tried
  opened,   \* auxiliary: the user program was opened in this run
  aborted,  \* auxiliary: a signal has ended this run before its time
  signals   \* signals so far

machine == <<known, nm, main, mon, held>>
history == <<failed, opened, aborted, signals>>
runVars == <<pc, machine, again, history>>

RunInit ==
  /\ pc = "off"
  /\ known = FALSE
  /\ nm = TRUE /\ main = TRUE /\ mon = "absent" /\ held = "none"
  /\ again = FALSE
  /\ failed = {} /\ opened = FALSE /\ aborted = FALSE /\ signals = 0

Cleaning == pc \in {"rmmod", "mon_down", "mon_del", "mon_wait", "start_nm", "main_up"}

\* The next command of a script: from p to q.
Step(p, q) == pc = p /\ pc' = q

-----------------------------------------------------------------------------
(* sniffer_start.sh and the user program.                                  *)

\* Without a default route main_interface is empty, and the commands that
\* name it fail.
Run ==
  /\ Step("off", "stop_nm")
  /\ known' \in {FALSE, main}
  /\ opened' = FALSE /\ aborted' = FALSE
  /\ UNCHANGED <<nm, main, mon, held, again, failed, signals>>

\* wpa_supplicant, killed as well, is NetworkManager's to start again.
StopNetworkManager ==
  /\ Step("stop_nm", "main_down")
  /\ nm' \in {FALSE, nm}
  /\ UNCHANGED <<known, main, mon, held, again, history>>

MainDown ==
  /\ Step("main_down", "mon_add")
  /\ main' \in {main, main /\ ~known}
  /\ UNCHANGED <<known, nm, mon, held, again, history>>

\* iw fails if mon0 is there already, or without phy0.
MonAdd ==
  /\ Step("mon_add", "mon_up")
  /\ mon' \in IF mon = "absent" THEN {"absent", "down"} ELSE {mon}
  /\ UNCHANGED <<known, nm, main, held, again, history>>

MonUp ==
  /\ Step("mon_up", "insmod")
  /\ mon' \in IF mon = "absent" THEN {"absent"} ELSE {mon, "up"}
  /\ UNCHANGED <<known, nm, main, held, again, history>>

\* sniffer_init fails without mon0, and may fail with it; a module that is
\* loaded stays as it is.
Insmod ==
  /\ Step("insmod", "sleep")
  /\ held' \in IF held = "none" /\ mon # "absent" THEN {"none", "mon0"} ELSE {held}
  /\ UNCHANGED <<known, nm, main, mon, again, history>>

Sleep ==
  /\ Step("sleep", "opening")
  /\ UNCHANGED <<machine, again, history>>

UserOpens ==
  /\ Step("opening", "open")
  /\ opened' = TRUE
  /\ UNCHANGED <<machine, again, failed, aborted, signals>>

\* The user program ends, by a key, by Ctrl-C or by a crash.
UserEnds ==
  /\ Step("open", "trap")
  /\ UNCHANGED <<machine, again, history>>

\* Mutant: the clean-up starts with the interface and forgets the module.
MutSetTrap ==
  /\ Step("trap", "mon_down")
  /\ UNCHANGED <<machine, again, history>>

\* The trap is set, and run.sh is at its end.
SetTrap ==
  /\ Step("trap", "rmmod")
  /\ UNCHANGED <<machine, again, history>>

-----------------------------------------------------------------------------
(* sniffer_stop.sh.                                                        *)

Succeeds(c) == failed' = failed \ {c}
Fails(c)    == failed' = failed \cup {c}

Rmmod ==
  /\ Step("rmmod", "mon_down")
  /\ \/ Succeeds("rmmod") /\ held # "none" /\ held' = "none"
     \/ Fails("rmmod") /\ UNCHANGED held
  /\ UNCHANGED <<known, nm, main, mon, again, opened, aborted, signals>>

MonDown ==
  /\ Step("mon_down", "mon_del")
  /\ mon' \in IF mon = "up" THEN {"up", "down"} ELSE {mon}
  /\ UNCHANGED <<known, nm, main, held, again, history>>

\* Mutant: an interface that is down is left alone.
MutMonDel ==
  /\ Step("mon_del", "start_nm")
  /\ \/ Succeeds("mon_del") /\ mon' = IF mon = "up" THEN "absent" ELSE mon
     \/ Fails("mon_del") /\ UNCHANGED mon
  /\ UNCHANGED <<known, nm, main, held, again, opened, aborted, signals>>

\* mon0 is deleted whatever became of rmmod.  Under a module that holds it,
\* iw does not return.
MonDel ==
  /\ \/ /\ Step("mon_del", IF held = "mon0" THEN "mon_wait" ELSE "start_nm")
        /\ Succeeds("mon_del")
        /\ mon # "absent" /\ mon' = "absent"
        /\ held' = IF held = "mon0" THEN "gone" ELSE held
     \/ /\ Step("mon_del", "start_nm")
        /\ Fails("mon_del")
        /\ UNCHANGED <<mon, held>>
  /\ UNCHANGED <<known, nm, main, again, opened, aborted, signals>>

StartNetworkManager ==
  /\ Step("start_nm", "main_up")
  /\ \/ Succeeds("start_nm") /\ nm' = TRUE
     \/ Fails("start_nm") /\ UNCHANGED nm
  /\ UNCHANGED <<known, main, mon, held, again, opened, aborted, signals>>

\* Mutant: a request to run the clean-up again is never forgotten.
MutMainUp ==
  /\ Step("main_up", IF again THEN "rmmod" ELSE "off")
  /\ \/ Succeeds("main_up") /\ known /\ main' = TRUE
     \/ Fails("main_up") /\ UNCHANGED main
  /\ UNCHANGED <<known, nm, mon, held, again, opened, aborted, signals>>

\* The end of sniffer_stop.sh, which is run again if run.sh was told to end
\* meanwhile.
MainUp ==
  /\ Step("main_up", IF again THEN "rmmod" ELSE "off")
  /\ \/ Succeeds("main_up") /\ known /\ main' = TRUE
     \/ Fails("main_up") /\ UNCHANGED main
  /\ again' = FALSE
  /\ UNCHANGED <<known, nm, mon, held, opened, aborted, signals>>

-----------------------------------------------------------------------------
(* Signals.                                                                *)

Signal ==
  /\ pc # "off" /\ signals < MaxSignals
  /\ signals' = signals + 1
  /\ UNCHANGED <<machine, failed, opened>>

Abort == pc' = "off" /\ again' = FALSE /\ aborted' = TRUE

\* What a trapped signal does while a command runs that is not to be killed.
RunAgain == again' = TRUE /\ UNCHANGED <<pc, aborted>>

\* Ctrl-C: kills the command and run.sh, unless the trap is set, which then
\* starts the clean-up afresh, or the user program catches it.  An iw that
\* waits in the kernel is not killed.
Interrupt ==
  /\ Signal
  /\ \/ /\ Cleaning /\ pc # "mon_wait"
        /\ pc' = "rmmod"
        /\ UNCHANGED <<again, aborted>>
     \/ /\ pc = "mon_wait"
        /\ RunAgain
     \/ /\ pc = "open"
        /\ pc' = "trap"
        /\ UNCHANGED <<again, aborted>>
     \/ /\ ~Cleaning /\ pc # "open"
        /\ Abort

\* SIGTERM to run.sh: the trap, if set, runs once the command has ended.
Terminate ==
  /\ Signal
  /\ \/ Cleaning /\ RunAgain
     \/ ~Cleaning /\ Abort

\* The terminal is closed; nobody traps SIGHUP.
HangUp == Signal /\ Abort

-----------------------------------------------------------------------------

Scripts ==
  \/ StopNetworkManager \/ MainDown \/ MonAdd \/ MonUp \/ Insmod \/ Sleep
  \/ UserOpens \/ SetTrap
  \/ Rmmod \/ MonDown \/ MonDel \/ StartNetworkManager \/ MainUp

RunNext == Run \/ Scripts \/ UserEnds \/ Interrupt \/ Terminate \/ HangUp

\* Every command comes to its end; the user need not.
RunSpec == RunInit /\ [][RunNext]_runVars /\ WF_runVars(Scripts)

-----------------------------------------------------------------------------
(* Properties.                                                             *)

\* What is not as before the first start (no module, no monitor interface,
\* NetworkManager and the main interface up) is what a command of the clean-up
\* failed to undo when it was last tried.
Undone ==
  /\ held # "none" => "rmmod" \in failed
  /\ mon # "absent" => "mon_del" \in failed
  /\ ~nm => "start_nm" \in failed
  /\ ~main => "main_up" \in failed

\* A run that reaches its own end leaves nothing behind but what its clean-up
\* tried and failed to undo, although any command before may have failed, an
\* earlier run may have been cut off, and Ctrl-C or SIGTERM may have hit the
\* clean-up half-way.  In particular the machine is back to normal if no
\* command of the clean-up has failed.
CleanedUp == pc = "off" /\ ~aborted => Undone

\* sniffer_stop.sh deletes mon0 under the module, which holds a reference to
\* it, only if rmmod has failed before, in whatever order signals restart the
\* clean-up; an iw that waits has done just that.
ModuleHasDevice ==
  /\ held = "gone" => "rmmod" \in failed
  /\ held = "mon0" => mon # "absent"
  /\ pc = "mon_wait" => held = "gone"

\* Once the user program is over, the clean-up comes to its end, unless the
\* run is ended by a signal first or rmmod has failed and lets iw wait for the
\* module.
ClosingRestores ==
  pc = "trap" ~> \/ pc = "off" /\ (Undone \/ aborted)
                 \/ pc = "mon_wait" /\ "rmmod" \in failed

\* README: "When you close the userspace program, it automatically unloads the
\* kernel module and brings your system back to normal"; run.sh traps "EXIT
\* INT TERM" to that end.  Whenever run.sh is over and had opened the user
\* program, the module is unloaded, if no command of the clean-up has failed.
ClosedMeansUnloaded == pc = "off" /\ opened /\ failed = {} => held = "none"
=============================================================================
