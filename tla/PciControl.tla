----------------------------- MODULE PciControl -----------------------------
(***************************************************************************)
(* The PCI configuration owner (hardware-backends/src/pci_control.rs) and  *)
(* the activation of a VFIO PCI function around it (linux_vfio.rs,         *)
(* initialize_pci_controlled and initialize_pci_coherent).                 *)
(*                                                                         *)
(* A configuration access may fail, a failed write may or may not have     *)
(* reached the function, and a write may lose bits (but sets none that was *)
(* neither on nor asked for).                                              *)
(***************************************************************************)
EXTENDS FiniteSets

VARIABLES
    command,  \* the function's Command register: the set of bits that are on
    power,    \* "D0" or "D3"
    phase,    \* "closed", "bound", "open" or "failed"
    call,     \* the operation running or last run, and its local variables
    pc        \* where update_command is: "idle" between operations

configVars == <<command, power, phase, call, pc>>

Bits == {"memory", "master", "intx_disable"}
Commands == SUBSET Bits

Call(op, bit, on, rollback) ==
    [op |-> op, bit |-> bit, on |-> on, rollback |-> rollback,
     at |-> command, saved |-> {}, result |-> "running"]

Finished(op, r) == [Call(op, "master", FALSE, FALSE) EXCEPT !.result = r]

ConfigInit ==
    /\ command \in Commands /\ power \in {"D0", "D3"}
    /\ phase = "closed" /\ pc = "idle" /\ call = Finished("none", "none")
-----------------------------------------------------------------------------
(* verify_dma_disabled: D0, memory decoding on, bus mastering off. *)
DmaDisabled ==
    "memory" \in command /\ "master" \notin command /\ power = "D0"

(* verify_bus_master_disabled. *)
BusMasterDisabled_Unread == TRUE

BusMasterDisabled == "master" \notin command

(* The first gate, then binding, the address space and the attach: the     *)
(* kernel resumes the function and turns memory decoding on; what else it  *)
(* does to Command is not this code's to know.                             *)
Bind ==
    /\ phase = "closed"
    /\ \/ /\ BusMasterDisabled
          /\ power' = "D0" /\ phase' = "bound"
          /\ command' \in {command \cup {"memory"}, command \cup {"memory", "master"}}
          /\ call' = Finished("bind", "ok")
       \/ /\ phase' = "failed" /\ call' = Finished("bind", "error")
          /\ UNCHANGED <<command, power>>
    /\ UNCHANGED pc

(* Reset support and an MSI-X or MSI index are found, then the second gate. *)
Expose ==
    /\ phase = "bound"
    /\ \/ phase' = "open" /\ DmaDisabled /\ call' = Finished("expose", "ok")
       \/ phase' = "failed" /\ call' = Finished("expose", "error")
    /\ UNCHANGED <<command, power, pc>>
-----------------------------------------------------------------------------

(* The operations that go through update_command. *)
Start(c) ==
    /\ phase = "open" /\ pc = "idle" /\ pc' = "read" /\ call' = c
    /\ UNCHANGED <<command, power, phase>>

DisableIntx == Start(Call("disable_intx", "intx_disable", TRUE, TRUE))

EnableBusMaster ==
    IF DmaDisabled THEN Start(Call("enable", "master", TRUE, TRUE))
    ELSE /\ phase = "open" /\ pc = "idle" /\ call' = Finished("enable", "unsafe")
         /\ UNCHANGED <<command, power, phase, pc>>

DisableBusMaster_RollingBack == Start(Call("disable", "master", FALSE, TRUE))

(* "Failure never reasserts BME": no rollback. *)
DisableBusMaster == Start(Call("disable", "master", FALSE, FALSE))

VerifyEnabled ==
    /\ phase = "open" /\ pc = "idle"
    /\ call' = Finished("verify", IF "master" \in command THEN "ok" ELSE "did_not_latch")
    /\ UNCHANGED <<command, power, phase, pc>>
-----------------------------------------------------------------------------
(* update_command, one configuration access a step. *)
Return(r) == pc' = "idle" /\ call' = [call EXCEPT !.result = r]

Requested(saved) == IF call.on THEN saved \cup {call.bit} ELSE saved \ {call.bit}

Latches(value) == SUBSET (command \cup value)

ReadSaved ==
    /\ pc = "read"
    /\ \/ pc' = "write" /\ call' = [call EXCEPT !.saved = command]
       \/ Return("io")
    /\ UNCHANGED <<command, power, phase>>

WriteRequested ==
    /\ pc = "write"
    /\ command' \in Latches(Requested(call.saved))
    /\ \/ pc' = "readback" /\ UNCHANGED call
       \/ Return("io")
    /\ UNCHANGED <<power, phase>>

ReadBack ==
    /\ pc = "readback"
    /\ \/ Return("io")
       \/ command = Requested(call.saved) /\ Return("ok")
       \/ /\ command # Requested(call.saved)
          /\ IF call.rollback THEN pc' = "restore" /\ UNCHANGED call
             ELSE Return("did_not_latch")
    /\ UNCHANGED <<command, power, phase>>

Restore ==
    /\ pc = "restore"
    /\ command' \in Latches(call.saved)
    /\ \/ pc' = "verify" /\ UNCHANGED call
       \/ Return("rollback_failed")
    /\ UNCHANGED <<power, phase>>

VerifyRestored ==
    /\ pc = "verify"
    /\ \/ command = call.saved /\ Return("did_not_latch")
       \/ Return("rollback_failed")
    /\ UNCHANGED <<command, power, phase>>

ConfigNext ==
    \/ Bind \/ Expose \/ VerifyEnabled
    \/ DisableIntx \/ EnableBusMaster \/ DisableBusMaster
    \/ ReadSaved \/ WriteRequested \/ ReadBack \/ Restore \/ VerifyRestored

ConfigSpec == ConfigInit /\ [][ConfigNext]_configVars
-----------------------------------------------------------------------------
Results == {"none", "running", "ok", "error", "unsafe", "io", "did_not_latch",
            "rollback_failed"}

(* Types of the configuration owner. *)
ConfigTypeOK ==
    /\ command \in Commands /\ power \in {"D0", "D3"}
    /\ phase \in {"closed", "bound", "open", "failed"}
    /\ call.bit \in Bits /\ call.at \in Commands /\ call.saved \in Commands
    /\ call.result \in Results /\ (call.result = "running" <=> pc # "idle")
    /\ (pc # "idle" => phase = "open")
    /\ pc \in {"idle", "read", "write", "readback", "restore", "verify"}

(* The two gates of initialize_pci_controlled: an address space is only    *)
(* attached to a function whose bus mastering was off, and the backend is  *)
(* handed out with DMA off even if binding had turned it on.               *)
ActivatedWithDmaOff ==
    /\ call.op = "bind" /\ call.result = "ok" => "master" \notin call.at
    /\ call.op = "expose" /\ call.result = "ok" =>
        "master" \notin command /\ "memory" \in command /\ power = "D0"

(* An operation that returned is believed by its caller: Ok means that the *)
(* bit is as asked and that no other bit of Command was disturbed, and     *)
(* CommandDidNotLatch of an operation with a rollback that Command is what *)
(* it was when the operation began.                                        *)
ReportsCommand ==
    pc = "idle" /\ call.op \in {"disable_intx", "enable", "disable"} =>
        /\ call.result = "ok" => command = Requested(call.at)
        /\ call.result = "did_not_latch" /\ call.op # "disable" => command = call.at

(* What the configuration owner promises: the backend is handed out with   *)
(* DMA off, even if binding the function had turned it on                  *)
(* (initialize_pci_controlled), and what update_command returns is what    *)
(* the Command register holds.                                             *)
ConfigHonest == ConfigTypeOK /\ ActivatedWithDmaOff /\ ReportsCommand

(* "Failure never reasserts BME": no write of disable_bus_master, on any   *)
(* path, turns bus mastering on; an enable does so only on a function with *)
(* DMA off, and INTx masking only restores what it found.                  *)
OnlyEnableStartsDma ==
    [][phase = "open" /\ "master" \in command' \ command =>
        \/ call.op = "enable" /\ "memory" \in call.at /\ "master" \notin call.at
        \/ call.op = "disable_intx" /\ "master" \in call.at]_configVars

(* "A failed enable is rolled back": an enable that returned an error other *)
(* than CommandRollbackFailed leaves bus mastering off.                    *)
FailedEnableRolledBack ==
    pc = "idle" /\ call.op = "enable"
        /\ call.result \in {"io", "did_not_latch"} => "master" \notin command
=============================================================================
