---------------------------- MODULE Ov2640Driver ----------------------------
(***************************************************************************)
(* One call of the OV2640 library after the other, each a sequence of      *)
(* transactions on the control bus.  The camera has two banks of registers *)
(* behind one set of addresses; before each access to a register the       *)
(* library reads the bank select and changes it when it is the other one.  *)
(* Every transaction may fail.  A write that is reported to have failed    *)
(* may or may not have reached the camera: the interface gives up after    *)
(* its retries, and the answer of the last one can be what was lost.       *)
(***************************************************************************)
EXTENDS RegisterParts, Sequences

CONSTANTS
  Table,        \* the settings: name -> parts, accepted bits, enumerators
  Programs,     \* the effects: name -> the bytes it writes
  Scripts,      \* the sequences of calls that the program may make
  Backgrounds,  \* the contents that the registers may have before them
  Banks         \* the banks that may be selected before them

VARIABLES
  bank,    \* the bank selected in the camera
  regs,    \* the registers of the camera: <<bank, address>> -> set of bits
  script,  \* the calls still to be made
  call,    \* the call being made, or the last one
  part,    \* the part of the setting, or the byte of the effect, it is at
  act,     \* the access it prepares: "read" or "write"
  step,    \* its transaction: "select", "switch", "access"; "idle" between calls
  prev,    \* the byte it has read, prev in the code
  answer,  \* the value it has put together
  result   \* what it reported, "none" while it runs

(***************************************************************************)
(* What the table, the effects, the calls and the contents look like.      *)
(***************************************************************************)
IsSequence(s) == s # <<>> /\ s \in Seq({s[i] : i \in DOMAIN s})

IsRegister(r) == r = <<r[1], r[2]>>

ASSUME TableAssumption ==
  \A n \in DOMAIN Table :
    /\ IsSequence(Table[n].parts)
    /\ \A i \in DOMAIN Table[n].parts :
         IsRegister(Table[n].parts[i].reg) /\ DOMAIN Table[n].parts[i].takes \subseteq Byte

ASSUME ProgramsAssumption ==
  \A e \in DOMAIN Programs :
    /\ IsSequence(Programs[e])
    /\ \A i \in DOMAIN Programs[e] : IsRegister(Programs[e][i].reg)

\* No bit of a register is used twice.
ASSUME DisjointAssumption ==
  \A n, m \in DOMAIN Table : \A i \in DOMAIN Table[n].parts, j \in DOMAIN Table[m].parts :
    Table[n].parts[i].reg = Table[m].parts[j].reg /\ <<n, i>> # <<m, j>> =>
      DOMAIN Table[n].parts[i].takes \cap DOMAIN Table[m].parts[j].takes = {}

\* A Word is checked against the bits it may have; an enumerator is not checked.
Accepts(n, v) == Table[n].codes # {} \/ v \subseteq Table[n].range

\* The bits that the parts of the setting n have a place for.
Covered(n) ==
  UNION {{Table[n].parts[i].takes[b] : b \in DOMAIN Table[n].parts[i].takes} :
           i \in DOMAIN Table[n].parts}

\* A value that the check lets through has a place in the registers.
Valid(c) ==
  IF c.op = "effect" THEN c.name \in DOMAIN Programs
  ELSE /\ c.name \in DOMAIN Table
       /\ c.op = "set" /\ Accepts(c.name, c.value) => c.value \subseteq Covered(c.name)

Calls ==
  {c \in [op : {"set", "get", "effect"}, name : DOMAIN Table \cup DOMAIN Programs,
          value : SUBSET Nat] : Valid(c)}

ASSUME ScriptsAssumption == Scripts \subseteq Seq(Calls)

Named ==
  (UNION {{Table[n].parts[i].reg : i \in DOMAIN Table[n].parts} : n \in DOMAIN Table})
  \cup (UNION {{Programs[e][i].reg : i \in DOMAIN Programs[e]} : e \in DOMAIN Programs})

ASSUME BackgroundsAssumption ==
  \A r \in Backgrounds : r = [q \in DOMAIN r |-> r[q]] /\ Named \subseteq DOMAIN r

(***************************************************************************)
(* The library.                                                            *)
(***************************************************************************)
camera == <<bank, regs>>
vars == <<bank, regs, script, call, part, act, step, prev, answer, result>>

\* The value that the camera holds for the setting n.
Value(n) == Held(Table[n], regs)

Init ==
  /\ bank \in Banks
  /\ regs \in Backgrounds
  /\ script \in Scripts
  /\ call = [op |-> "effect", name |-> "none", value |-> {}]
  /\ part = 1 /\ act = "write" /\ step = "idle"
  /\ prev = {} /\ answer = {} /\ result = "ok"

Pieces(c) == IF c.op = "effect" THEN Programs[c.name] ELSE Table[c.name].parts

\* The first access to a register: a set reads it unless it takes it whole.
FirstAct(c, i) ==
  IF c.op = "get" \/ (c.op = "set" /\ ~ Whole(Table[c.name].parts[i]))
    THEN "read" ELSE "write"

\* ov2640_set_X, ov2640_get_X or an effect is called.
Begin ==
  /\ step = "idle" /\ script # <<>>
  /\ call' = Head(script) /\ script' = Tail(script)
  /\ part' = 1 /\ act' = FirstAct(call', 1)
  /\ IF call'.op = "set" /\ ~ Accepts(call'.name, call'.value)
       THEN result' = "refused" /\ step' = "idle"
       ELSE result' = "none" /\ step' = "select"
  /\ prev' = {} /\ answer' = {}
  /\ UNCHANGED camera

Reg == Pieces(call)[part].reg

\* The code after a transaction that failed: return 1.
Fail ==
  /\ step' = "idle" /\ result' = "failed"
  /\ UNCHANGED <<script, call, part, act, prev, answer>>

\* A definition whose name starts with Bug_ is a wrong form of the one after it, with
\* which a property must fail; it is no part of the specification.
Bug_ReadBankTrusted ==
  /\ step = "select"
  /\ \/ /\ step' = "access"
        /\ UNCHANGED <<script, call, part, act, prev, answer, result>>
     \/ Fail
  /\ UNCHANGED camera

ReadBank ==
  /\ step = "select"
  /\ \/ /\ step' = IF bank = Reg[1] THEN "access" ELSE "switch"
        /\ UNCHANGED <<script, call, part, act, prev, answer, result>>
     \/ Fail
  /\ UNCHANGED camera

SwitchBank ==
  /\ step = "switch"
  /\ \/ /\ step' = "access" /\ bank' = Reg[1]
        /\ UNCHANGED <<script, call, part, act, prev, answer, result>>
     \/ Fail /\ bank' \in {bank, Reg[1]}
  /\ UNCHANGED regs

\* The next part or byte, or the end of the call.
Advance ==
  IF part = Len(Pieces(call))
    THEN /\ step' = "idle" /\ result' = "ok"
         /\ UNCHANGED <<part, act>>
    ELSE /\ step' = "select" /\ part' = part + 1 /\ act' = FirstAct(call, part + 1)
         /\ UNCHANGED result

ReadRegister ==
  /\ step = "access" /\ act = "read"
  /\ \/ /\ prev' = regs[<<bank, Reg[2]>>]
        /\ IF call.op = "get"
             THEN answer' = answer \cup Taken(Pieces(call)[part], prev') /\ Advance
             ELSE step' = "select" /\ act' = "write" /\ UNCHANGED <<part, answer, result>>
        /\ UNCHANGED <<script, call>>
     \/ Fail
  /\ UNCHANGED camera

Data ==
  IF call.op = "effect" THEN Pieces(call)[part].byte
                        ELSE Merged(Pieces(call)[part], call.value, prev)

WriteRegister ==
  /\ step = "access" /\ act = "write"
  /\ \/ /\ regs' = [regs EXCEPT ![<<bank, Reg[2]>>] = Data]
        /\ Advance
        /\ UNCHANGED <<script, call, prev, answer>>
     \/ /\ regs' \in {regs, [regs EXCEPT ![<<bank, Reg[2]>>] = Data]}
        /\ Fail
  /\ UNCHANGED bank

Next == Begin \/ ReadBank \/ SwitchBank \/ ReadRegister \/ WriteRegister

Spec == Init /\ [][Next]_vars

(***************************************************************************)
(* Properties.                                                             *)
(***************************************************************************)
\* Every byte goes to, and comes from, the bank of the register that the code
\* names: the bank select was right when it was read, or it was changed.
RightBank == step = "access" => bank = Reg[1]

\* The settings whose registers an effect writes.
TouchedBy(e) ==
  {n \in DOMAIN Table : \E i \in DOMAIN Programs[e], j \in DOMAIN Table[n].parts :
                           Programs[e][i].reg = Table[n].parts[j].reg}

\* Seen through its settings the library keeps its promise: a set changes its own
\* setting only, also when it shares registers with others or fails half way, and
\* a get answers what is set.
Promise == INSTANCE CameraSettings WITH
             Names <- DOMAIN Table, Touches <- TouchedBy,
             settings <- [n \in DOMAIN Table |-> Value(n)]

ImplementsSettings == Promise!Spec
=============================================================================
