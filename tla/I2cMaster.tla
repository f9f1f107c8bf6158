------------------------------ MODULE I2cMaster ------------------------------
(***************************************************************************)
(* One transaction of the control bus after the other, from the function   *)
(* of the interface that asks for it down to the bytes on the wires.  Two  *)
(* actors run side by side: the program, which polls and writes the        *)
(* registers of the I2C core, and the core, which sends the commands it    *)
(* finds in its queue.  The slave (the camera, or the codec) may refuse    *)
(* any byte, and may have used a byte that it refused.  A refusal stops    *)
(* the transfer; the program learns of it from a flag that it may look at  *)
(* before the refused byte is even sent, or long after.                    *)
(*                                                                         *)
(* The program ends every wait after some ten thousand polls.  Such a wait *)
(* is far longer than a transfer, so it runs out only when the core can do *)
(* nothing more that would end it.                                         *)
(***************************************************************************)
EXTENDS Integers, Sequences

CONSTANTS
  Registers,    \* the addresses in the slave that calls name
  Bytes,        \* the values that a register can have
  HalRetries,   \* how often the HAL tries a transfer: retry in alt_avalon_i2c_master_tx
  SccbRetries,  \* how often the interface calls the HAL: SCCB_RETRY_COUNT
  MaxCalls      \* how many calls are made, the bound of the model

ASSUME RetriesAssumption == HalRetries \in Nat \ {0} /\ SccbRetries \in Nat \ {0}

VARIABLES
  calls,   \* the number of calls made
  call,    \* the call being made, or the last one
  kind,    \* the function of the HAL it is in: "write", "tx_rx", "tx", "rx"
  at,      \* its next access: "enable", "clear", "send", "check", "fetch", "drain", "return"
  todo,    \* the commands not yet written to the core
  reading, \* whether these belong to the half that receives
  tries,   \* the tries of the HAL that are used up
  rounds,  \* the rounds of the interface that are used up
  status,  \* "success", "nack", "busy" or "timeout"
  result,  \* what the call reported, "none" while it runs
  answer,  \* the byte that it read
  core,    \* the I2C core: enabled, state, its queues of commands and of data, nack
  regs,    \* the registers of the slave
  pointer, \* the register that it takes the next byte for, or gives the next byte from
  refused  \* the number of bytes that it has refused during this call

program == <<calls, call, kind, at, todo, reading, tries, rounds, status, result, answer>>
vars == <<program, core, regs, pointer, refused>>

(***************************************************************************)
(* Commands: a byte to send with its conditions on the bus.                *)
(***************************************************************************)
Command(restart, stop, what, byte) ==
  [restart |-> restart, stop |-> stop, what |-> what, byte |-> byte]

\* alt_avalon_i2c_master_transmit: the address, the register and, for a write, its value.
Transmit(c, k) ==
  LET address  == Command(FALSE, FALSE, "to", {})
      register == Command(FALSE, k = "tx", "register", c.name)
  IN  IF k = "write" THEN <<address, register, Command(FALSE, TRUE, "value", c.value)>>
                     ELSE <<address, register>>

\* alt_avalon_i2c_master_receive: the address, and one byte to be read.
Receive(restart) ==
  <<Command(restart, FALSE, "from", {}), Command(FALSE, TRUE, "read", {})>>

Commands(c, k) == IF k = "rx" THEN Receive(FALSE) ELSE Transmit(c, k)

(***************************************************************************)
(* The calls of the interface: ov2640_interface_sccb_read and _write, and  *)
(* wm8731_write_reg, which is like the latter.                             *)
(***************************************************************************)
Init ==
  /\ calls = 0
  /\ call = [op |-> "effect", name |-> "none", value |-> {}]
  /\ kind = "write" /\ at = "return" /\ todo = <<>> /\ reading = FALSE
  /\ tries = 0 /\ rounds = 0 /\ status = "success" /\ result = "ok" /\ answer = {}
  /\ core = [enabled |-> FALSE, state |-> "idle", commands |-> <<>>, data |-> <<>>, nack |-> FALSE]
  /\ regs \in [Registers -> Bytes]
  /\ pointer \in Registers
  /\ refused = 0

\* A function of the HAL starts its next try.
Try(c, k) ==
  /\ kind' = k /\ at' = "enable" /\ todo' = Commands(c, k) /\ reading' = (k = "rx")

Begin ==
  /\ result # "none" /\ calls < MaxCalls
  /\ calls' = calls + 1
  /\ call' \in [op : {"set"}, name : Registers, value : Bytes]
               \cup [op : {"get"}, name : Registers, value : {{}}]
  /\ Try(call', IF call'.op = "set" THEN "write" ELSE "tx_rx")
  /\ tries' = 0 /\ rounds' = 0 /\ refused' = 0
  /\ result' = "none" /\ answer' = {}
  /\ UNCHANGED <<status, core, regs, pointer>>

(***************************************************************************)
(* A try of the HAL, one access to the core at a time.                     *)
(***************************************************************************)
Goto(place) == at' = place /\ UNCHANGED <<calls, call, kind, tries, rounds, result, refused>>

\* The core leaves its idle state when it is enabled.
Enable ==
  /\ at = "enable" /\ result = "none"
  /\ IF core.enabled
       THEN status' = "busy" /\ Goto("return") /\ UNCHANGED core
       ELSE /\ core' = [core EXCEPT !.enabled = TRUE, !.state = "started"]
            /\ Goto("clear") /\ UNCHANGED status
  /\ UNCHANGED <<todo, reading, answer, regs, pointer>>

ClearInterrupts ==
  /\ at = "clear"
  /\ core' = [core EXCEPT !.nack = FALSE]
  /\ Goto("send")
  /\ UNCHANGED <<todo, reading, status, answer, regs, pointer>>

\* A queue is held empty as long as the refusal is not cleared.
SendCommand ==
  /\ at = "send"
  /\ core' = IF core.nack THEN core ELSE [core EXCEPT !.commands = Append(@, Head(todo))]
  /\ todo' = Tail(todo)
  /\ Goto("check")
  /\ UNCHANGED <<reading, status, answer, regs, pointer>>

\* A definition whose name starts with Bug_ is a wrong form of the one after it, with
\* which a property must fail; it is no part of the specification.
Bug_CheckNackReturns ==
  /\ at = "check"
  /\ IF core.nack
       THEN status' = "nack" /\ Goto("return") /\ UNCHANGED <<todo, reading>>
       ELSE /\ status' = "success"
            /\ CASE todo # <<>> -> Goto("send") /\ UNCHANGED <<todo, reading>>
                 [] todo = <<>> /\ reading -> Goto("fetch") /\ UNCHANGED <<todo, reading>>
                 [] todo = <<>> /\ ~ reading /\ kind = "tx_rx" ->
                      Goto("send") /\ todo' = Receive(TRUE) /\ reading' = TRUE
                 [] OTHER -> Goto("drain") /\ UNCHANGED <<todo, reading>>
  /\ UNCHANGED <<answer, core, regs, pointer>>

\* The end of cmd_write, and what follows it.  A transmission without a stop has
\* succeeded when its last byte is in the queue, and the reception goes on from there.
CheckNack ==
  /\ at = "check"
  /\ IF core.nack
       THEN status' = "nack" /\ Goto("drain") /\ UNCHANGED <<todo, reading>>
       ELSE /\ status' = "success"
            /\ CASE todo # <<>> -> Goto("send") /\ UNCHANGED <<todo, reading>>
                 [] todo = <<>> /\ reading -> Goto("fetch") /\ UNCHANGED <<todo, reading>>
                 [] todo = <<>> /\ ~ reading /\ kind = "tx_rx" ->
                      Goto("send") /\ todo' = Receive(TRUE) /\ reading' = TRUE
                 [] OTHER -> Goto("drain") /\ UNCHANGED <<todo, reading>>
  /\ UNCHANGED <<answer, core, regs, pointer>>

\* The core is no longer busy: it has stopped and has no command to start again for.
Quiet == core.state = "stopped" /\ core.commands = <<>>

Bug_FetchForever ==
  /\ at = "fetch" /\ core.data # <<>>
  /\ answer' = Head(core.data) /\ core' = [core EXCEPT !.data = Tail(@)]
  /\ status' = "success"
  /\ Goto("drain")
  /\ UNCHANGED <<todo, reading, regs, pointer>>

\* rx_read waits for a byte; an empty queue gives any byte.
Fetch ==
  /\ at = "fetch"
  /\ \/ /\ core.data # <<>>
        /\ answer' = Head(core.data) /\ core' = [core EXCEPT !.data = Tail(@)]
        /\ status' = "success"
     \/ /\ core.data = <<>> /\ Quiet
        /\ answer' \in Bytes /\ status' = "timeout" /\ UNCHANGED core
  /\ Goto("drain")
  /\ UNCHANGED <<todo, reading, regs, pointer>>

Bug_DrainUnchecked ==
  /\ at = "drain" /\ Quiet
  /\ core' = [core EXCEPT !.enabled = FALSE, !.state = "idle"]
  /\ Goto("return")
  /\ UNCHANGED <<todo, reading, status, answer, regs, pointer>>

\* The end of a try: when the core is no longer busy, look for a refusal and disable it.
Drain ==
  /\ at = "drain" /\ Quiet
  /\ status' = IF core.nack THEN "nack" ELSE status
  /\ core' = [core EXCEPT !.enabled = FALSE, !.state = "idle"]
  /\ Goto("return")
  /\ UNCHANGED <<todo, reading, answer, regs, pointer>>

(***************************************************************************)
(* The loops around it.                                                    *)
(***************************************************************************)
Bug_MayTryAgainIfBusy == status = "busy" /\ tries + 1 < HalRetries

\* alt_avalon_i2c_master_tx, _rx and _tx_rx start over, but not after a timeout.
MayTryAgain == status \in {"nack", "busy"} /\ tries + 1 < HalRetries

TryAgain ==
  /\ at = "return" /\ result = "none" /\ MayTryAgain
  /\ tries' = tries + 1
  /\ Try(call, kind)
  /\ UNCHANGED <<calls, call, rounds, status, result, answer, core, regs, pointer, refused>>

HalDone == at = "return" /\ result = "none" /\ ~ MayTryAgain

Succeed ==
  /\ HalDone /\ status = "success" /\ kind # "tx"
  /\ result' = "ok"
  /\ UNCHANGED <<calls, call, kind, at, todo, reading, tries, rounds, status, answer, core, regs,
                 pointer, refused>>

\* A read that does not succeed in one transfer is tried in two.
ReadInTwo ==
  /\ HalDone
  /\ \/ kind = "tx_rx" /\ status # "success" /\ Try(call, "tx")
     \/ kind = "tx" /\ status = "success" /\ Try(call, "rx")
  /\ tries' = 0
  /\ UNCHANGED <<calls, call, rounds, status, result, answer, core, regs, pointer, refused>>

\* The next round of the interface, or the end of it.
NextRound ==
  /\ HalDone /\ status # "success" /\ kind # "tx_rx"
  /\ rounds' = rounds + 1 /\ tries' = 0
  /\ IF rounds' < SccbRetries
       THEN Try(call, IF call.op = "set" THEN "write" ELSE "tx_rx") /\ UNCHANGED result
       ELSE result' = "failed" /\ UNCHANGED <<kind, at, todo, reading>>
  /\ UNCHANGED <<calls, call, status, answer, core, regs, pointer, refused>>

(***************************************************************************)
(* The core and the slave.                                                 *)
(***************************************************************************)
\* What a byte does in the slave when it is used.
Use(c) ==
  /\ pointer' = IF c.what = "register" THEN c.byte ELSE pointer
  /\ regs' = IF c.what = "value" THEN [regs EXCEPT ![pointer] = c.byte] ELSE regs

\* The core has left its idle state, holds no refusal and has a command.
Active == core.state # "idle" /\ ~ core.nack /\ core.commands # <<>>

Sent(c) == [core EXCEPT !.commands = Tail(@), !.state = IF c.stop THEN "stopped" ELSE "started"]

\* A byte is sent and acknowledged; the core then stops if the command says so, and
\* otherwise holds the bus until there is another one.
SendByte ==
  /\ Active /\ Head(core.commands).what # "read"
  /\ core' = Sent(Head(core.commands))
  /\ Use(Head(core.commands))
  /\ UNCHANGED <<program, refused>>

\* It is sent and refused, be it used or not: the queues are emptied, the core stops.
RefuseByte ==
  /\ Active /\ Head(core.commands).what # "read"
  /\ core' = [core EXCEPT !.state = "stopped", !.commands = <<>>, !.data = <<>>, !.nack = TRUE]
  /\ Use(Head(core.commands)) \/ UNCHANGED <<regs, pointer>>
  /\ refused' = refused + 1
  /\ UNCHANGED program

\* The slave gives the register it points to, and may then point to any other one.
ReadByte ==
  /\ Active /\ Head(core.commands).what = "read"
  /\ core' = [Sent(Head(core.commands)) EXCEPT !.data = Append(@, regs[pointer])]
  /\ pointer' \in Registers
  /\ UNCHANGED <<program, regs, refused>>

Hal == Enable \/ ClearInterrupts \/ SendCommand \/ CheckNack \/ Fetch \/ Drain

Interface == TryAgain \/ Succeed \/ ReadInTwo \/ NextRound

Core == SendByte \/ RefuseByte \/ ReadByte

Next == Begin \/ Hal \/ Interface \/ Core

\* The program and the core go on as long as they can; nobody has to make a call.
Spec == Init /\ [][Next]_vars /\ WF_vars(Hal \/ Interface) /\ WF_vars(Core)
(***************************************************************************)
(* Properties.                                                             *)
(***************************************************************************)
\* What Ov2640Driver relies on: a call changes the register it names only, and only
\* towards its value; it reports success only when the register has the value, or
\* when it has read it.  This holds although a transmission has "succeeded" before
\* its bytes are sent, and although a refused byte may have been used.
AnyByte(n, v) == TRUE

NoRegister(e) == {}

Port == INSTANCE CameraSettings WITH
          Names <- Registers, Accepts <- AnyByte, Touches <- NoRegister, settings <- regs

ImplementsPort == Port!Spec

\* Every try finds the core disabled and its queues empty, whatever became of the one
\* before it: no try is wasted on a busy core, none sends a command or takes a byte
\* that another one left there.
CoreFree ==
  at = "enable" \/ result # "none" =>
    /\ ~ core.enabled /\ core.state = "idle"
    /\ core.commands = <<>> /\ core.data = <<>>

\* A call fails only for its slave's fault: a byte was refused in every try of every
\* round, of both ways to read.  No wait runs out for another reason, which would end
\* the tries of the HAL at once.
FailedForCause ==
  result = "failed" =>
    refused >= SccbRetries * HalRetries * (IF call.op = "get" THEN 2 ELSE 1)

\* Every call returns: no wait for the core is a wait for nothing.
CallsEnd == result = "none" ~> result # "none"
=============================================================================
