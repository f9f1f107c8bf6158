--------------------------- MODULE CameraStartup ---------------------------
(***************************************************************************)
(* The start of the program before its main loop: the codec, then the      *)
(* camera from its pins to the size of the picture.  It is a straight      *)
(* sequence of steps, each of which can fail, and what a failure does      *)
(* depends on how far the sequence is: a codec that fails is ignored; the  *)
(* camera's ov2640_init turns the camera off again; ov2640_basic_init      *)
(* closes it, which needs the bus once more; after that the program just   *)
(* stops.  A step that writes a register stands for all transactions of    *)
(* that access (see Ov2640Driver); one that is reported to have failed may *)
(* or may not have changed the bank and the register.                      *)
(***************************************************************************)
EXTENDS Ov2640Basic, RegisterParts, SequencesExt

CONSTANTS
  Backgrounds  \* the contents that the registers may have after a reset

VARIABLES
  at,    \* the next step
  phase,  \* "starting", "closing", "running" or "stuck" in an endless loop
  pins,  \* on: the camera is powered; run: it is out of reset
  bank,  \* the bank selected in the camera
  regs,  \* its registers
  deinit_failed  \* history: ov2640_deinit was called and could not finish

vars == <<at, phase, pins, bank, regs, deinit_failed>>
camera == <<bank, regs>>

(***************************************************************************)
(* The steps.                                                              *)
(***************************************************************************)
\* wm8731_init writes eleven registers.
CodecSteps == [i \in 1 .. 11 |-> [kind |-> "codec"]]

Pins(on, run) == [kind |-> "pins", to |-> [on |-> on, run |-> run]]

\* A definition whose name starts with Bug_ is a wrong form of the one after it, with
\* which a property must fail; it is no part of the specification.
Bug_InitStepsEarly ==
  <<Pins(FALSE, FALSE), [kind |-> "open"], Pins(TRUE, FALSE), [kind |-> "soft reset"],
    Pins(TRUE, TRUE), [kind |-> "identify"]>>

\* ov2640_init: power_down_init and reset_init, sccb_init, power_down_write(0),
\* reset_write(0), reset_write(1), the soft reset and the two identifiers.
InitSteps ==
  <<Pins(FALSE, FALSE), [kind |-> "open"], Pins(TRUE, FALSE), Pins(TRUE, TRUE),
    [kind |-> "soft reset"], [kind |-> "identify"]>>

Raw(table) == [i \in DOMAIN table |-> [kind |-> "raw", write |-> table[i]]]

\* The writes of the parts of one setting after the other.
Sets(calls) ==
  FlattenSeq([i \in DOMAIN calls |->
    LET parts == Settings[calls[i][1]].parts
    IN  [j \in DOMAIN parts |-> [kind |-> "part", part |-> parts[j], value |-> Bits(calls[i][2])]]])

Defaults == Defaults1 \o Defaults2 \o Defaults3 \o Defaults4 \o Defaults5 \o Defaults6 \o Defaults7

BasicSteps == Raw(InitTable) \o Sets(Defaults)

ModeSteps == Raw(Rgb565Table) \o Sets(QvgaSize)

\* The steps of a stage of the start-up: the handling of a failure depends on it.
Stage(name, steps) == [i \in DOMAIN steps |-> [stage |-> name, do |-> steps[i]]]

Steps ==
  Stage("codec", CodecSteps) \o Stage("init", InitSteps) \o Stage("basic", BasicSteps)
  \o Stage("mode", ModeSteps) \o Stage("loop", <<[kind |-> "enter"]>>)

(***************************************************************************)
(* The program.                                                            *)
(***************************************************************************)
Init ==
  /\ at = 1 /\ phase = "starting"
  /\ pins \in [on : BOOLEAN, run : BOOLEAN]
  /\ bank \in {"dsp", "sensor"}
  /\ regs \in Backgrounds
  /\ deinit_failed = FALSE

\* The step to be taken, if it is of this kind.
Now(kind) == {s \in {Steps[at]} : phase = "starting" /\ s.do.kind = kind}

Proceed == at' = at + 1 /\ UNCHANGED phase

Off == [on |-> FALSE, run |-> FALSE]

Bug_FailedUnclosed(stage) ==
  \/ stage = "codec" /\ at' = Len(CodecSteps) + 1 /\ UNCHANGED <<phase, pins>>
  \/ stage = "init"  /\ phase' = "stuck" /\ pins' = Off /\ UNCHANGED at
  \/ stage = "basic" /\ phase' = "stuck" /\ UNCHANGED <<at, pins>>
  \/ stage = "mode"  /\ phase' = "stuck" /\ UNCHANGED <<at, pins>>

\* What follows a step that failed in this stage: main, ov2640_init or ov2640_basic_init.
Failed(stage) ==
  \/ stage = "codec" /\ at' = Len(CodecSteps) + 1 /\ UNCHANGED <<phase, pins>>
  \/ stage = "init"  /\ phase' = "stuck" /\ pins' = Off /\ UNCHANGED at
  \/ stage = "basic" /\ phase' = "closing" /\ UNCHANGED <<at, pins>>
  \/ stage = "mode"  /\ phase' = "stuck" /\ UNCHANGED <<at, pins>>

\* wm8731_init writes a register.
WriteCodec ==
  \E step \in Now("codec") :
    /\ \/ Proceed /\ UNCHANGED pins
       \/ Failed(step.stage)
    /\ UNCHANGED camera

\* The interface writes its shadow of the two pins to the port.
SetPins ==
  \E step \in Now("pins") :
    /\ pins' = step.do.to /\ Proceed
    /\ UNCHANGED camera

\* sccb_init opens the bus.
Open ==
  \E step \in Now("open") :
    /\ \/ Proceed /\ UNCHANGED pins
       \/ Failed(step.stage)
    /\ UNCHANGED camera

\* After a soft reset the registers have their defaults and any bank is selected.
SoftReset == regs' \in Backgrounds /\ bank' \in {"dsp", "sensor"}

ResetCamera ==
  \E step \in Now("soft reset") :
    \/ SoftReset /\ Proceed /\ UNCHANGED pins
    \/ SoftReset /\ Failed(step.stage)
    \/ bank' \in {bank, "sensor"} /\ UNCHANGED regs /\ Failed(step.stage)

\* The manufacturer and the product are read and compared.
Identify ==
  \E step \in Now("identify") :
    /\ \/ bank' = "sensor" /\ Proceed /\ UNCHANGED pins
       \/ bank' \in {bank, "sensor"} /\ Failed(step.stage)
    /\ UNCHANGED regs

\* A pair of a table goes to the bank that is selected; FF selects one.
Put(write) ==
  IF write[1] = \hFF
    THEN bank' = (IF 0 \in Bits(write[2]) THEN "sensor" ELSE "dsp") /\ UNCHANGED regs
    ELSE regs' = [regs EXCEPT ![<<bank, write[1]>>] = Bits(write[2])] /\ UNCHANGED bank

WriteRaw ==
  \E step \in Now("raw") :
    \/ Put(step.do.write) /\ Proceed /\ UNCHANGED pins
    \/ (Put(step.do.write) \/ UNCHANGED camera) /\ Failed(step.stage)

\* A part of a setting: the bank is selected, then the register is changed.
WritePart ==
  \E step \in Now("part") :
    LET p == step.do.part
        written == [regs EXCEPT ![p.reg] = Merged(p, step.do.value, @)]
    IN  \/ bank' = p.reg[1] /\ regs' = written /\ Proceed /\ UNCHANGED pins
        \/ bank' \in {bank, p.reg[1]} /\ UNCHANGED regs /\ Failed(step.stage)
        \/ bank' = p.reg[1] /\ regs' = written /\ Failed(step.stage)

\* ov2640_deinit: a soft reset, and only when the bus carried it the camera is
\* turned off; it returns at the first failure.  Either way ov2640_basic_init has
\* failed.
Close ==
  /\ phase = "closing"
  /\ phase' = "stuck"
  /\ \/ SoftReset /\ pins' = Off /\ UNCHANGED deinit_failed
     \/ SoftReset /\ deinit_failed' = TRUE /\ UNCHANGED pins
     \/ bank' \in {bank, "sensor"} /\ deinit_failed' = TRUE /\ UNCHANGED <<regs, pins>>
  /\ UNCHANGED at

\* The main loop begins.
Enter ==
  /\ Now("enter") # {}
  /\ phase' = "running"
  /\ UNCHANGED <<at, pins, camera>>

Step == WriteCodec \/ SetPins \/ Open \/ ResetCamera \/ Identify \/ WriteRaw \/ WritePart
        \/ Enter

Next == (Step /\ UNCHANGED deinit_failed) \/ Close

Spec == Init /\ [][Next]_vars

(***************************************************************************)
(* Properties.                                                             *)
(***************************************************************************)
\* The number that a setting was last given.
Wanted(n) ==
  LET calls == SelectSeq(Defaults \o QvgaSize, LAMBDA c : c[1] = n)
  IN  calls[Len(calls)][2]

Configured == {c[1] : c \in ToSet(Defaults \o QvgaSize)}

\* When the main loop runs, every setting still holds what it was given: none of
\* the some three hundred writes that share its registers, and no byte of the
\* second table, has undone it.  No block of the camera is held in reset.
AsConfigured ==
  phase = "running" =>
    /\ \A n \in Configured : Held(Settings[n], regs) = Bits(Wanted(n))
    /\ regs[Dsp.RESET] = {}

\* The camera is only spoken to while it is powered and out of reset.
AwakeWhenUsed ==
  [][(bank' # bank \/ regs' # regs) => pins.on /\ pins.run]_vars

\* The program stops with the camera left on only in two cases: a step after
\* ov2640_basic_init failed, or one of ov2640_basic_init did, and then only if
\* ov2640_deinit was called and failed too.  It never runs with the camera off.
OffUnless ==
  /\ phase = "stuck" /\ pins # Off =>
       \/ Steps[at].stage = "mode"
       \/ Steps[at].stage = "basic" /\ deinit_failed
  /\ phase = "running" => pins = [on |-> TRUE, run |-> TRUE]
=============================================================================
