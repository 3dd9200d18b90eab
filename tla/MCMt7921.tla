------------------------------ MODULE MCMt7921 ------------------------------
(***************************************************************************)
(* Model of the MT7921 core: the client that owns what the firmware holds  *)
(* of an association, the authority to transmit actively, the register     *)
(* programs that set up and tear down the rings, firmware ownership of the *)
(* chip, the command mailbox and the firmware loader. One behaviour        *)
(* exercises one of them ("part").                                         *)
(***************************************************************************)
EXTENDS Mt7921Rings, Mt7921Client, Mt7921Ownership, ActiveAuthority

VARIABLES
    part, mech, call, contained, tx, sc, dev, rx, rxdma, rxcpu, irq, masked,
    owed, answered, issued, extra, done, entry, image, loader_dev, run

(* A peer with QoS and management frame protection, and one with neither. *)
OnePeerOfEach == {<<TRUE, TRUE>>, <<FALSE, FALSE>>}

(* The client in full, but with no protected frame received (part          *)
(* "client"); with frames on two traffic identifiers (part "replay") it has *)
(* one channel lease, nothing in flight and no unrecorded effect, none of   *)
(* which reception reads.                                                  *)
Silent == INSTANCE Mt7921Client WITH MaxPn <- 0

Receiving ==
    /\ ClientNext
    /\ lease' = lease /\ hidden' = {} /\ st'.tx = {}
    /\ st'.assoc \in {NoPeer, Peer(TRUE, TRUE)}

Mailbox == INSTANCE Mt7921Mailbox WITH
    TxCount <- 2, RxCount <- 3, SeqCount <- 2, MaxCommands <- 3, MaxExtra <- 1

Loader == INSTANCE Mt7921Loader WITH
    PatchSections <- 2, SectionChunks <- 2, ClcCommands <- 2, dev <- loader_dev

mailboxVars ==
    <<mech, call, contained, tx, sc, dev, rx, rxdma, rxcpu, irq, masked, owed,
      answered, issued, extra, done>>
loaderVars == <<entry, image, loader_dev, run>>
every == <<part, vars, clientVars, authorityVars, ownershipVars, mailboxVars,
    loaderVars>>

(* A part that is not the one under study rests: the client, the authority *)
(* and the ownership register in an initial state, the others with their   *)
(* variables "off".                                                        *)
ModelInit ==
    /\ part \in {"rings", "client", "replay", "authority", "ownership",
                  "mailbox", "loader"}
    /\ IF part = "rings" THEN Init
       ELSE proc = "off" /\ args = "off" /\ seg = "off" /\ pc = "off" /\
            regs = "off" /\ stuck = "off" /\ start = "off" /\ saved = "off" /\
            res = "off"
    /\ ClientInit
    /\ AuthorityInit
    /\ OwnershipInit
    /\ part # "ownership" => user = "round_trip" /\ sync /\ ~odd
    /\ IF part = "mailbox" THEN Mailbox!Init
       ELSE mech = "off" /\ call = "off" /\ contained = "off" /\ tx = "off" /\
            sc = "off" /\ dev = "off" /\ rx = "off" /\ rxdma = "off" /\
            rxcpu = "off" /\ irq = "off" /\ masked = "off" /\ owed = "off" /\
            answered = "off" /\ issued = "off" /\ extra = "off" /\ done = "off"
    /\ IF part = "loader" THEN Loader!Init
       ELSE entry = "off" /\ image = "off" /\ loader_dev = "off" /\ run = "off"

ModelNext ==
    /\ UNCHANGED part
    /\ \/ /\ part = "rings" /\ Next
          /\ UNCHANGED <<clientVars, authorityVars, ownershipVars, mailboxVars, loaderVars>>
       \/ /\ \/ part = "client" /\ Silent!ClientNext
             \/ part = "replay" /\ Receiving
          /\ UNCHANGED <<vars, authorityVars, ownershipVars, mailboxVars, loaderVars>>
       \/ /\ part = "authority" /\ AuthorityNext
          /\ UNCHANGED <<vars, clientVars, ownershipVars, mailboxVars, loaderVars>>
       \/ /\ part = "ownership" /\ OwnershipNext
          /\ UNCHANGED <<vars, clientVars, authorityVars, mailboxVars, loaderVars>>
       \/ /\ part = "mailbox" /\ Mailbox!Next
          /\ UNCHANGED <<vars, clientVars, authorityVars, ownershipVars, loaderVars>>
       \/ /\ part = "loader" /\ Loader!Next
          /\ UNCHANGED <<vars, clientVars, authorityVars, ownershipVars, mailboxVars>>

ModelSpec == ModelInit /\ [][ModelNext]_every
-----------------------------------------------------------------------------
(* Mt7921Rings and Mt7921Loader: a failed register transaction puts back   *)
(* what it changed, a refused one writes nothing, a ring counts as owned   *)
(* only after it was read back, and every program ends contained; the      *)
(* patch semaphore is given back on every path, firmware runs only         *)
(* complete, and success is reported only for a device that is.            *)
BringupSafe ==
    /\ part = "rings" =>
          /\ RingsTypeOK
          /\ TransactionRestores
          /\ RefusalWritesNothing
          /\ RingsOwned
          /\ EndsContained
          /\ DmaLayoutSound
    /\ part = "loader" =>
          /\ Loader!LoaderTypeOK
          /\ Loader!StartedComplete
          /\ Loader!SemaphoreGivenBack
          /\ Loader!SuccessIsComplete

(* Mt7921Mailbox: a command the device may have seen keeps its buffer, an  *)
(* answer is taken only for the command it belongs to, a drained ring is   *)
(* reposted whole, no completion is left without a wakeup, and idle        *)
(* cursors agree with the device.                                          *)
MailboxSafe ==
    /\ part = "mailbox" =>
          /\ Mailbox!MailboxTypeOK
          /\ Mailbox!OwnershipRetained
          /\ Mailbox!RxRingShape
          /\ Mailbox!AnswerIsOwn
          /\ Mailbox!NoLostWakeup
          /\ Mailbox!IdleCursorsAgree

(* Ownership commands are spaced by the poll interval, and a command       *)
(* completes only after its descriptor was reclaimed.                      *)
RadioSteps ==
    /\ CommandsSpaced
    /\ Mailbox!CompleteMeansReclaimed
=============================================================================
