------------------------- MODULE Ov2640DriverProofs -------------------------
(***************************************************************************)
(* The library keeps its promise for every table of settings without a bit *)
(* that is used twice, every effect, every sequence of valid calls and all *)
(* contents of the camera: Spec => ImplementsSettings.                     *)
(***************************************************************************)
EXTENDS Ov2640Driver, TLAPS

(***************************************************************************)
(* Bits of bytes.                                                          *)
(***************************************************************************)
Places(p) == {p.takes[b] : b \in DOMAIN p.takes}

\* What the part p finds in the registers r.
Found(p, r) == Taken(p, r[p.reg])

\* A part that has been written finds its bits of the value.
LEMMA TakenMerged ==
  ASSUME NEW p, NEW v, NEW old, DOMAIN p.takes \subseteq Byte
  PROVE  Taken(p, Merged(p, v, old)) = Places(p) \cap v
BY DEF Taken, Merged, Places

\* A part with other bits finds what was there before.
LEMMA TakenByOther ==
  ASSUME NEW p, NEW q, NEW v, NEW old,
         DOMAIN q.takes \subseteq Byte, DOMAIN p.takes \cap DOMAIN q.takes = {}
  PROVE  Taken(q, Merged(p, v, old)) = Taken(q, old)
BY DEF Taken, Merged

\* The part q finds the same when the part p is written with the right old byte.
LEMMA OtherPartKept ==
  ASSUME NEW p, NEW q, NEW v, NEW old, NEW r, r = [x \in DOMAIN r |-> r[x]],
         p.reg \in DOMAIN r, Whole(p) \/ old = r[p.reg],
         DOMAIN q.takes \subseteq Byte,
         p.reg = q.reg => DOMAIN p.takes \cap DOMAIN q.takes = {}
  PROVE  Found(q, [r EXCEPT ![p.reg] = Merged(p, v, old)]) = Found(q, r)
<1> DEFINE new == [r EXCEPT ![p.reg] = Merged(p, v, old)]
<1>1. CASE p.reg # q.reg
  <2>1. new[q.reg] = r[q.reg]
    BY <1>1
  <2> QED
    BY <2>1 DEF Found
<1>2. CASE p.reg = q.reg /\ old = r[p.reg]
  <2>1. new[q.reg] = Merged(p, v, r[q.reg])
    BY <1>2
  <2>2. Taken(q, Merged(p, v, r[q.reg])) = Taken(q, r[q.reg])
    BY <1>2, TakenByOther
  <2> QED
    BY <2>1, <2>2 DEF Found
<1>3. CASE p.reg = q.reg /\ Whole(p)
  <2>1. DOMAIN q.takes = {}
    BY <1>3 DEF Whole
  <2> QED
    BY <2>1 DEF Found, Taken
<1> QED
  BY <1>1, <1>2, <1>3

\* The written part finds its bits of the value.
LEMMA PartWritten ==
  ASSUME NEW p, NEW v, NEW old, NEW r, r = [x \in DOMAIN r |-> r[x]],
         p.reg \in DOMAIN r, DOMAIN p.takes \subseteq Byte
  PROVE  Found(p, [r EXCEPT ![p.reg] = Merged(p, v, old)]) = Places(p) \cap v
BY TakenMerged DEF Found

(***************************************************************************)
(* The inductive invariant.                                                *)
(***************************************************************************)
RegsOk == regs = [q \in DOMAIN regs |-> regs[q]] /\ Named \subseteq DOMAIN regs

Steps ==
  /\ step \in {"idle", "select", "switch", "access"}
  /\ result \in {"none", "ok", "failed", "refused"}
  /\ step = "idle" <=> result # "none"

CallOk ==
  step # "idle" =>
    /\ call \in Calls
    /\ call.op = "set" => Accepts(call.name, call.value)
    /\ part \in DOMAIN Pieces(call)
    /\ act \in {"read", "write"}
    /\ call.op = "get" => act = "read"
    /\ call.op = "effect" => act = "write"

\* The byte that a set is about to change is still the one that it has read.
Fresh ==
  step # "idle" /\ call.op = "set" /\ act = "write" =>
    Whole(Pieces(call)[part]) \/ prev = regs[Reg]

\* A get has put together the parts it has passed.
Gathered ==
  step # "idle" /\ call.op = "get" =>
    answer = UNION {Found(Pieces(call)[i], regs) : i \in 1 .. part - 1}

\* A set has written the parts it has passed.
Written ==
  step # "idle" /\ call.op = "set" =>
    \A i \in 1 .. part - 1 :
      Found(Pieces(call)[i], regs) = Places(Pieces(call)[i]) \cap call.value

Inv ==
  /\ RegsOk
  /\ script \in Seq(Calls)
  /\ Steps
  /\ RightBank
  /\ CallOk
  /\ Fresh
  /\ Gathered
  /\ Written

(***************************************************************************)
(* Facts about the call that is being made.                                *)
(***************************************************************************)
\* The parts of a setting, and the bytes of an effect, are numbered from 1.
LEMMA PiecesShape ==
  ASSUME NEW c \in Calls
  PROVE  /\ Len(Pieces(c)) \in Nat \ {0}
         /\ DOMAIN Pieces(c) = 1 .. Len(Pieces(c))
         /\ \A i \in DOMAIN Pieces(c) :
              IsRegister(Pieces(c)[i].reg) /\ Pieces(c)[i].reg \in Named
<1> DEFINE s == Pieces(c)
<1>1. IsSequence(s)
  BY TableAssumption, ProgramsAssumption DEF Calls, Valid, Pieces
<1>2. Len(s) \in Nat \ {0} /\ DOMAIN s = 1 .. Len(s)
  BY <1>1 DEF IsSequence
<1>3. \A i \in DOMAIN s : IsRegister(s[i].reg)
  BY TableAssumption, ProgramsAssumption DEF Calls, Valid, Pieces
<1>4. \A i \in DOMAIN s : s[i].reg \in Named
  <2>1. CASE c.op = "effect"
    <3>1. c.name \in DOMAIN Programs /\ s = Programs[c.name]
      BY <2>1 DEF Calls, Valid, Pieces
    <3> QED
      BY <3>1 DEF Named
  <2>2. CASE c.op # "effect"
    <3>1. c.name \in DOMAIN Table /\ s = Table[c.name].parts
      BY <2>2 DEF Calls, Valid, Pieces
    <3> QED
      BY <3>1 DEF Named
  <2> QED
    BY <2>1, <2>2
<1> QED
  BY <1>2, <1>3, <1>4

\* The setting of a set or a get.
LEMMA SettingShape ==
  ASSUME NEW c \in Calls, c.op # "effect"
  PROVE  /\ c.name \in DOMAIN Table
         /\ Pieces(c) = Table[c.name].parts
         /\ \A i \in DOMAIN Pieces(c) : DOMAIN Pieces(c)[i].takes \subseteq Byte
BY TableAssumption DEF Calls, Valid, Pieces

LEMMA InitInv == Init => Inv
<1> SUFFICES ASSUME Init PROVE Inv
  OBVIOUS
<1> USE DEF Init
<1>1. RegsOk
  BY BackgroundsAssumption DEF RegsOk
<1>2. script \in Seq(Calls)
  BY ScriptsAssumption
<1> QED
  BY <1>1, <1>2 DEF Inv, Steps, RightBank, CallOk, Fresh, Gathered, Written

(***************************************************************************)
(* Each action keeps it.                                                   *)
(***************************************************************************)
LEMMA BeginKeeps == Inv /\ Begin => Inv'
<1> SUFFICES ASSUME Inv, Begin PROVE Inv'
  OBVIOUS
<1>1. RegsOk'
  BY DEF Inv, Begin, camera, RegsOk
<1>2. script' \in Seq(Calls) /\ call' \in Calls
  BY DEF Inv, Begin
<1>3. /\ Len(Pieces(call')) \in Nat \ {0}
      /\ DOMAIN Pieces(call') = 1 .. Len(Pieces(call'))
  BY <1>2, PiecesShape
<1>4. Steps' /\ RightBank'
  BY DEF Begin, Steps, RightBank
<1>5. CallOk'
  <2>1. part' \in DOMAIN Pieces(call')
    BY <1>3 DEF Begin
  <2>2. step' # "idle" /\ call'.op = "set" => Accepts(call'.name, call'.value)
    BY DEF Begin
  <2>3. call'.op \in {"set", "get", "effect"}
    BY <1>2 DEF Calls
  <2>4. /\ act' \in {"read", "write"}
        /\ call'.op = "get" => act' = "read"
        /\ call'.op = "effect" => act' = "write"
    BY <2>3 DEF Begin, FirstAct
  <2> QED
    BY <1>2, <2>1, <2>2, <2>4 DEF CallOk
<1>6. Fresh'
  <2> SUFFICES ASSUME call'.op = "set", act' = "write"
               PROVE  Whole(Pieces(call')[part'])
    BY DEF Fresh
  <2>1. FirstAct(call', 1) = "write" /\ part' = 1
    BY DEF Begin
  <2>2. Whole(Table[call'.name].parts[1])
    BY <2>1 DEF FirstAct
  <2> QED
    BY <2>1, <2>2 DEF Pieces
<1>7. Gathered'
  BY DEF Begin, Gathered
<1>8. Written'
  BY DEF Begin, Written
<1> QED
  BY <1>1, <1>2, <1>4, <1>5, <1>6, <1>7, <1>8 DEF Inv

\* A transaction that fails, or that leaves the contents and the call as they are.
LEMMA FailKeeps == Inv /\ Fail /\ RegsOk' => Inv'
BY DEF Inv, Fail, Steps, RightBank, CallOk, Fresh, Gathered, Written

LEMMA ReadBankKeeps == Inv /\ ReadBank => Inv'
<1> SUFFICES ASSUME Inv, ReadBank PROVE Inv'
  OBVIOUS
<1>1. RegsOk'
  BY DEF Inv, ReadBank, camera, RegsOk
<1>2. CASE Fail
  BY <1>1, <1>2, FailKeeps
<1>3. CASE ~ Fail
  <2>1. /\ step' = IF bank = Reg[1] THEN "access" ELSE "switch"
        /\ UNCHANGED <<bank, regs, script, call, part, act, prev, answer, result>>
        /\ step = "select"
    BY <1>3 DEF ReadBank, camera
  <2>2. Reg' = Reg
    BY <2>1 DEF Reg, Pieces
  <2>3. Steps' /\ RightBank'
    BY <2>1, <2>2 DEF Inv, Steps, RightBank
  <2>4. CallOk' /\ Fresh' /\ Gathered' /\ Written'
    BY <2>1, <2>2 DEF Inv, CallOk, Fresh, Gathered, Written, Pieces, Accepts
  <2> QED
    BY <1>1, <2>1, <2>3, <2>4 DEF Inv
<1> QED
  BY <1>2, <1>3

LEMMA SwitchBankKeeps == Inv /\ SwitchBank => Inv'
<1> SUFFICES ASSUME Inv, SwitchBank PROVE Inv'
  OBVIOUS
<1>1. RegsOk'
  BY DEF Inv, SwitchBank, RegsOk
<1>2. CASE Fail
  BY <1>1, <1>2, FailKeeps
<1>3. CASE ~ Fail
  <2>1. /\ step = "switch" /\ step' = "access" /\ bank' = Reg[1]
        /\ UNCHANGED <<regs, script, call, part, act, prev, answer, result>>
    BY <1>3 DEF SwitchBank
  <2>2. Reg' = Reg
    BY <2>1 DEF Reg, Pieces
  <2>3. Steps' /\ RightBank'
    BY <2>1, <2>2 DEF Inv, Steps, RightBank
  <2>4. CallOk' /\ Fresh' /\ Gathered' /\ Written'
    BY <2>1, <2>2 DEF Inv, CallOk, Fresh, Gathered, Written, Pieces, Accepts
  <2> QED
    BY <1>1, <2>1, <2>3, <2>4 DEF Inv
<1> QED
  BY <1>2, <1>3

\* A call that goes on is at its next part, which a set must read or takes whole.
LEMMA AdvanceShape ==
  ASSUME Inv, step # "idle", Advance, UNCHANGED call
  PROVE  /\ Steps'
         /\ RightBank'
         /\ UNCHANGED script => CallOk'
         /\ Fresh'
         /\ step' # "idle" => part' = part + 1 /\ part' \in DOMAIN Pieces(call)
<1> USE DEF Advance
<1>1. call \in Calls /\ part \in DOMAIN Pieces(call)
  BY DEF Inv, CallOk
<1>2. Len(Pieces(call)) \in Nat \ {0} /\ DOMAIN Pieces(call) = 1 .. Len(Pieces(call))
  BY <1>1, PiecesShape
<1>3. Steps' /\ RightBank'
  BY DEF Inv, Steps, RightBank
<1>4. step' # "idle" => part' = part + 1 /\ part' \in DOMAIN Pieces(call)
  BY <1>1, <1>2
<1>5. step' # "idle" => act' = FirstAct(call, part')
  BY DEF FirstAct
<1>6. CallOk'
  <2> SUFFICES ASSUME step' # "idle" PROVE CallOk'
    BY DEF CallOk
  <2>1. call' = call /\ call.op \in {"set", "get", "effect"}
    BY <1>1 DEF Calls
  <2>2. /\ act' \in {"read", "write"}
        /\ call.op = "get" => act' = "read"
        /\ call.op = "effect" => act' = "write"
    BY <1>5, <2>1 DEF FirstAct
  <2>3. part' \in DOMAIN Pieces(call')
    BY <1>4, <2>1
  <2>4. call'.op = "set" => Accepts(call'.name, call'.value)
    BY <2>1 DEF Inv, CallOk
  <2> QED
    BY <1>1, <2>1, <2>2, <2>3, <2>4 DEF CallOk
<1>7. Fresh'
  <2> SUFFICES ASSUME step' # "idle", call'.op = "set", act' = "write"
               PROVE  Whole(Pieces(call')[part'])
    BY DEF Fresh
  <2>1. FirstAct(call, part') = "write"
    BY <1>5
  <2>2. Whole(Table[call.name].parts[part'])
    BY <2>1 DEF FirstAct
  <2> QED
    BY <2>2 DEF Pieces, Whole
<1> QED
  BY <1>3, <1>4, <1>6, <1>7

LEMMA ReadRegisterKeeps == Inv /\ ReadRegister => Inv'
<1> SUFFICES ASSUME Inv, ReadRegister PROVE Inv'
  OBVIOUS
<1>1. RegsOk' /\ UNCHANGED regs
  BY DEF Inv, ReadRegister, camera, RegsOk
<1>2. CASE Fail
  BY <1>1, <1>2, FailKeeps
<1>3. CASE ~ Fail
  <2>1. /\ step = "access" /\ act = "read"
        /\ UNCHANGED <<bank, regs, script, call>>
        /\ prev' = regs[<<bank, Reg[2]>>]
    BY <1>3 DEF ReadRegister, camera
  <2>2. /\ call \in Calls /\ part \in DOMAIN Pieces(call) /\ IsRegister(Reg)
    BY <2>1, PiecesShape DEF Inv, CallOk, Reg
  <2>3. prev' = regs[Reg]
    BY <2>1, <2>2 DEF Inv, RightBank, IsRegister
  <2>4. CASE call.op = "get"
    <3>1. Advance /\ answer' = answer \cup Taken(Pieces(call)[part], prev')
      BY <1>3, <2>4 DEF ReadRegister
    <3>2. /\ Steps' /\ RightBank' /\ CallOk' /\ Fresh'
          /\ step' # "idle" => part' = part + 1 /\ part' \in DOMAIN Pieces(call)
      BY <2>1, <3>1, AdvanceShape
    <3>3. Gathered'
      <4> SUFFICES ASSUME step' # "idle"
                   PROVE  answer' = UNION {Found(Pieces(call)[i], regs) : i \in 1 .. part' - 1}
        BY <2>1 DEF Gathered, Pieces, Found
      <4>1. part \in Nat \ {0} /\ part' = part + 1
        BY <2>2, <3>2, PiecesShape
      <4>2. 1 .. part' - 1 = (1 .. part - 1) \cup {part}
        BY <4>1
      <4>3. answer = UNION {Found(Pieces(call)[i], regs) : i \in 1 .. part - 1}
        BY <2>1, <2>4 DEF Inv, Gathered
      <4>4. answer' = answer \cup Found(Pieces(call)[part], regs)
        BY <2>3, <3>1 DEF Found, Reg
      <4> HIDE <2>4
      <4> QED
        BY <4>2, <4>3, <4>4
    <3>4. Written'
      BY <2>1, <2>4 DEF Written
    <3> QED
      BY <1>1, <2>1, <3>2, <3>3, <3>4 DEF Inv
  <2>5. CASE call.op # "get"
    <3>1. step' = "select" /\ act' = "write" /\ UNCHANGED <<part, answer, result>>
      BY <1>3, <2>5 DEF ReadRegister
    <3>2. Reg' = Reg
      BY <2>1, <3>1 DEF Reg, Pieces
    <3>3. Steps' /\ RightBank'
      BY <2>1, <3>1 DEF Inv, Steps, RightBank
    <3>4. CallOk' /\ Gathered' /\ Written'
      BY <2>1, <2>5, <3>1 DEF Inv, CallOk, Gathered, Written, Pieces, Accepts
    <3>5. Fresh'
      BY <2>1, <2>3, <3>2 DEF Fresh
    <3> QED
      BY <1>1, <2>1, <3>3, <3>4, <3>5 DEF Inv
  <2> QED
    BY <2>4, <2>5
<1> QED
  BY <1>2, <1>3

(***************************************************************************)
(* A set writes one of its parts.                                          *)
(***************************************************************************)
\* What the registers become when the part i of the setting n is written.
After(n, i, v, old, r) ==
  [r EXCEPT ![Table[n].parts[i].reg] = Merged(Table[n].parts[i], v, old)]

\* Every other part of the table finds what it found before.
LEMMA SetKeepsOthers ==
  ASSUME NEW n \in DOMAIN Table, NEW i \in DOMAIN Table[n].parts,
         NEW m \in DOMAIN Table, NEW j \in DOMAIN Table[m].parts, <<n, i>> # <<m, j>>,
         NEW v, NEW old, NEW r, r = [x \in DOMAIN r |-> r[x]], Named \subseteq DOMAIN r,
         Whole(Table[n].parts[i]) \/ old = r[Table[n].parts[i].reg]
  PROVE  Found(Table[m].parts[j], After(n, i, v, old, r)) = Found(Table[m].parts[j], r)
<1> DEFINE p == Table[n].parts[i]
           q == Table[m].parts[j]
<1>1. DOMAIN q.takes \subseteq Byte
  BY TableAssumption
<1>2. p.reg = q.reg => DOMAIN p.takes \cap DOMAIN q.takes = {}
  BY DisjointAssumption
<1>3. p.reg \in DOMAIN r
  BY DEF Named
<1> HIDE DEF p, q
<1>4. Found(q, [r EXCEPT ![p.reg] = Merged(p, v, old)]) = Found(q, r)
  BY <1>1, <1>2, <1>3, OtherPartKept DEF p
<1> QED
  BY <1>4 DEF p, q, After

\* The written part finds its bits of the value.
LEMMA SetWritesPart ==
  ASSUME NEW n \in DOMAIN Table, NEW i \in DOMAIN Table[n].parts,
         NEW v, NEW old, NEW r, r = [x \in DOMAIN r |-> r[x]], Named \subseteq DOMAIN r
  PROVE  Found(Table[n].parts[i], After(n, i, v, old, r)) = Places(Table[n].parts[i]) \cap v
<1>1. DOMAIN Table[n].parts[i].takes \subseteq Byte
  BY TableAssumption
<1>2. Table[n].parts[i].reg \in DOMAIN r
  BY DEF Named
<1> QED
  BY <1>1, <1>2, PartWritten DEF After

LEMMA WriteRegisterShape ==
  ASSUME Inv, WriteRegister
  PROVE  /\ RegsOk'
         /\ call \in Calls /\ part \in DOMAIN Pieces(call) /\ step = "access" /\ act = "write"
         /\ call' = call
         /\ regs' = regs \/ regs' = [regs EXCEPT ![Reg] = Data]
         /\ regs' # [regs EXCEPT ![Reg] = Data] => Fail
<1>1. call \in Calls /\ part \in DOMAIN Pieces(call) /\ step = "access" /\ act = "write"
  BY DEF Inv, CallOk, WriteRegister
<1>2. Reg = <<bank, Reg[2]>>
  BY <1>1, PiecesShape DEF Inv, RightBank, IsRegister, Reg
<1>3. regs' = regs \/ regs' = [regs EXCEPT ![Reg] = Data]
  BY <1>2 DEF WriteRegister
<1>4. regs' # [regs EXCEPT ![Reg] = Data] => Fail
  BY <1>2 DEF WriteRegister
<1>5. RegsOk'
  BY <1>3 DEF Inv, RegsOk
<1> QED
  BY <1>1, <1>3, <1>4, <1>5 DEF WriteRegister, Fail

LEMMA WriteRegisterKeeps == Inv /\ WriteRegister => Inv'
<1> SUFFICES ASSUME Inv, WriteRegister PROVE Inv'
  OBVIOUS
<1>1. /\ RegsOk'
      /\ call \in Calls /\ part \in DOMAIN Pieces(call) /\ step = "access" /\ act = "write"
  BY WriteRegisterShape
<1>2. CASE Fail
  BY <1>1, <1>2, FailKeeps
<1>3. CASE ~ Fail
  <2>1. /\ Advance /\ UNCHANGED <<script, call, prev, answer>>
    BY <1>3 DEF WriteRegister
  <2>2. regs' = [regs EXCEPT ![Reg] = Data]
    BY <1>3, WriteRegisterShape
  <2>3. /\ Steps' /\ RightBank' /\ CallOk' /\ Fresh'
        /\ step' # "idle" => part' = part + 1 /\ part' \in DOMAIN Pieces(call)
    BY <1>1, <2>1, AdvanceShape
  <2>4. Gathered'
    BY <1>1, <2>1 DEF Inv, CallOk, Gathered
  <2>5. Written'
    <3> SUFFICES ASSUME step' # "idle", call.op = "set", NEW i \in 1 .. part' - 1
                 PROVE  Found(Pieces(call)[i], regs') = Places(Pieces(call)[i]) \cap call.value
      BY <2>1 DEF Written, Pieces, Found, Places
    <3> DEFINE n == call.name
    <3>1. /\ n \in DOMAIN Table /\ Pieces(call) = Table[n].parts
      BY <1>1, SettingShape
    <3>2. part \in Nat \ {0} /\ part' = part + 1 /\ i \in 1 .. part
      BY <1>1, <2>3, PiecesShape
    <3>3. i \in DOMAIN Table[n].parts
      BY <1>1, <3>1, <3>2, PiecesShape
    <3>4. /\ regs = [x \in DOMAIN regs |-> regs[x]] /\ Named \subseteq DOMAIN regs
          /\ Whole(Table[n].parts[part]) \/ prev = regs[Table[n].parts[part].reg]
      BY <1>1, <3>1 DEF Inv, RegsOk, Fresh, Reg
    <3>5. regs' = After(n, part, call.value, prev, regs)
      BY <2>2, <3>1 DEF Data, Reg, After
    <3>6. CASE i = part
      BY <1>1, <3>1, <3>4, <3>5, <3>6, SetWritesPart
    <3>7. CASE i # part
      <4>1. Found(Table[n].parts[i], regs') = Found(Table[n].parts[i], regs)
        BY <1>1, <3>1, <3>3, <3>4, <3>5, <3>7, SetKeepsOthers
      <4>2. Found(Pieces(call)[i], regs) = Places(Pieces(call)[i]) \cap call.value
        BY <1>1, <3>2, <3>7 DEF Inv, Written
      <4> QED
        BY <3>1, <4>1, <4>2
    <3> QED
      BY <3>6, <3>7
  <2> QED
    BY <1>1, <2>1, <2>3, <2>4, <2>5 DEF Inv
<1> QED
  BY <1>2, <1>3

LEMMA NextInv == Inv /\ [Next]_vars => Inv'
<1> SUFFICES ASSUME Inv, [Next]_vars PROVE Inv'
  OBVIOUS
<1>1. CASE UNCHANGED vars
  <2>1. UNCHANGED <<bank, regs, script, call, part, act, step, prev, answer, result>>
    BY <1>1 DEF vars, camera
  <2>2. RegsOk' /\ script' \in Seq(Calls) /\ Steps'
    BY <2>1 DEF Inv, RegsOk, Steps
  <2>3. Reg' = Reg
    BY <2>1 DEF Reg, Pieces
  <2>4. RightBank' /\ CallOk' /\ Fresh'
    BY <2>1, <2>3 DEF Inv, RightBank, CallOk, Fresh, Pieces, Accepts
  <2>5. Gathered' /\ Written'
    BY <2>1 DEF Inv, Gathered, Written, Pieces
  <2> QED
    BY <2>2, <2>4, <2>5 DEF Inv
<1> QED
  BY <1>1, BeginKeeps, ReadBankKeeps, SwitchBankKeeps, ReadRegisterKeeps, WriteRegisterKeeps
     DEF Next

THEOREM InvHolds == Spec => []Inv
BY InitInv, NextInv, PTL DEF Spec

\* Every byte goes to, and comes from, the bank of its register: ov2640's read and
\* write helpers select the bank before each access, whatever was selected before.
THEOREM BankIsRight == Spec => []RightBank
<1>1. Inv => RightBank
  BY DEF Inv
<1> QED
  BY <1>1, InvHolds, PTL

(***************************************************************************)
(* Every step of the library is a step of the promise, or changes nothing  *)
(* of it.                                                                  *)
(***************************************************************************)
\* What the promise sees of the camera.
Shown == [n \in DOMAIN Table |-> Value(n)]

LEMMA ShownKept == UNCHANGED regs => UNCHANGED Shown
BY DEF Shown, Value, Held

\* The value of a setting is what its parts find.
LEMMA ShownIs ==
  ASSUME NEW n \in DOMAIN Table
  PROVE  Shown[n] = UNION {Found(Table[n].parts[i], regs) : i \in DOMAIN Table[n].parts}
BY DEF Shown, Value, Held, Found

LEMMA InitPromise == Init => Promise!Init
BY DEF Init, Promise!Init

LEMMA BeginPromise == Inv /\ Begin => Promise!Next
<1> SUFFICES ASSUME Inv, Begin PROVE Promise!Begin
  BY DEF Promise!Next
<1>1. UNCHANGED Shown
  BY ShownKept DEF Begin, camera
<1>2. result # "none" /\ answer' = {}
  BY DEF Inv, Steps, Begin
<1>3. result' = IF call'.op = "set" /\ ~ Accepts(call'.name, call'.value)
                  THEN "refused" ELSE "none"
  BY DEF Begin
<1> QED
  BY <1>1, <1>2, <1>3 DEF Promise!Begin, Shown

\* A transaction that changes no register and does not end a call with success.
LEMMA QuietPromise ==
  ASSUME Inv, step # "idle", UNCHANGED <<regs, call>>, result' \in {"none", "failed"},
         call.op # "get" => UNCHANGED answer
  PROVE  Promise!Next
<1>1. UNCHANGED Shown
  BY ShownKept
<1>2. call.op \in {"set", "get", "effect"} /\ result = "none"
  BY DEF Inv, CallOk, Steps, Calls
<1>3. CASE call.op = "set"
  <2>1. Promise!Towards(call.name, call.value)
    BY <1>1 DEF Promise!Towards, Shown
  <2> QED
    BY <1>2, <1>3, <2>1 DEF Promise!Next, Promise!Set
<1>4. CASE call.op = "get"
  BY <1>1, <1>2, <1>4 DEF Promise!Next, Promise!Get, Shown
<1>5. CASE call.op = "effect"
  BY <1>1, <1>2, <1>5 DEF Promise!Next, Promise!Effect, Shown
<1> QED
  BY <1>2, <1>3, <1>4, <1>5

LEMMA FailPromise ==
  ASSUME Inv, step # "idle", Fail, UNCHANGED regs
  PROVE  Promise!Next
BY QuietPromise DEF Fail

LEMMA ReadRegisterPromise == Inv /\ Inv' /\ ReadRegister => Promise!Next
<1> SUFFICES ASSUME Inv, Inv', ReadRegister PROVE Promise!Next
  OBVIOUS
<1>1. step = "access" /\ act = "read" /\ UNCHANGED regs
  BY DEF ReadRegister, camera
<1>2. CASE Fail
  BY <1>1, <1>2, FailPromise
<1>3. CASE ~ Fail /\ call.op # "get"
  <2>1. UNCHANGED <<call, answer, result>>
    BY <1>3 DEF ReadRegister
  <2>2. result = "none"
    BY <1>1 DEF Inv, Steps
  <2> QED
    BY <1>1, <2>1, <2>2, QuietPromise
<1>4. CASE ~ Fail /\ call.op = "get"
  <2>1. /\ Advance /\ answer' = answer \cup Taken(Pieces(call)[part], prev')
        /\ prev' = regs[<<bank, Reg[2]>>] /\ UNCHANGED call
    BY <1>4 DEF ReadRegister
  <2>2. call \in Calls /\ part \in DOMAIN Pieces(call) /\ result = "none"
    BY <1>1 DEF Inv, CallOk, Steps
  <2>3. CASE part # Len(Pieces(call))
    BY <1>1, <1>4, <2>1, <2>2, <2>3, QuietPromise DEF Advance
  <2>4. CASE part = Len(Pieces(call))
    <3> DEFINE n == call.name
    <3>1. n \in DOMAIN Table /\ Pieces(call) = Table[n].parts
      BY <1>4, <2>2, SettingShape
    <3>2. prev' = regs[Reg]
      BY <1>1, <2>1, <2>2, PiecesShape DEF Inv, RightBank, IsRegister, Reg
    <3>3. answer' = answer \cup Found(Pieces(call)[part], regs)
      BY <2>1, <3>2 DEF Found, Reg
    <3>4. answer = UNION {Found(Pieces(call)[i], regs) : i \in 1 .. part - 1}
      BY <1>1, <1>4 DEF Inv, Gathered
    <3>5. DOMAIN Pieces(call) = (1 .. part - 1) \cup {part}
      BY <2>2, <2>4, PiecesShape
    <3>6. answer' = UNION {Found(Pieces(call)[i], regs) : i \in DOMAIN Pieces(call)}
      <4> HIDE <2>4, <1>4
      <4> QED
        BY <3>3, <3>4, <3>5
    <3>7. answer' = Shown[n]
      BY <3>1, <3>6, ShownIs
    <3>8. UNCHANGED Shown
      BY <1>1, ShownKept
    <3> HIDE DEF n
    <3>9. result' = "ok"
      BY <2>1, <2>4 DEF Advance
    <3> QED
      BY <1>4, <2>1, <2>2, <3>1, <3>7, <3>8, <3>9 DEF Promise!Next, Promise!Get, Shown, n
  <2> QED
    BY <2>3, <2>4
<1> QED
  BY <1>2, <1>3, <1>4

\* A write of a part moves its setting towards the value and no other one, and when
\* the other parts have the value already, all of it has.
LEMMA PartMoves ==
  ASSUME NEW n \in DOMAIN Table, NEW k \in DOMAIN Table[n].parts, NEW v, NEW old,
         NEW r, r = [x \in DOMAIN r |-> r[x]], Named \subseteq DOMAIN r,
         Whole(Table[n].parts[k]) \/ old = r[Table[n].parts[k].reg],
         NEW new, new = After(n, k, v, old, r)
  PROVE  /\ \A m \in DOMAIN Table \ {n} : Held(Table[m], new) = Held(Table[m], r)
         /\ Held(Table[n], r) \cap v \subseteq Held(Table[n], new)
         /\ Held(Table[n], new) \subseteq Held(Table[n], r) \cup v
         /\ /\ \A i \in DOMAIN Table[n].parts \ {k} :
                 Found(Table[n].parts[i], r) = Places(Table[n].parts[i]) \cap v
            /\ v \subseteq Covered(n)
            => Held(Table[n], new) = v
<1>1. \A m \in DOMAIN Table : \A j \in DOMAIN Table[m].parts :
        <<n, k>> # <<m, j>> => Found(Table[m].parts[j], new) = Found(Table[m].parts[j], r)
  BY SetKeepsOthers
<1>2. Found(Table[n].parts[k], new) = Places(Table[n].parts[k]) \cap v
  BY SetWritesPart
<1>3. \A m \in DOMAIN Table :
        /\ Held(Table[m], r) = UNION {Found(Table[m].parts[i], r) : i \in DOMAIN Table[m].parts}
        /\ Held(Table[m], new) = UNION {Found(Table[m].parts[i], new) : i \in DOMAIN Table[m].parts}
  BY DEF Held, Found
<1>4. \A i \in DOMAIN Table[n].parts :
        i # k => Found(Table[n].parts[i], new) = Found(Table[n].parts[i], r)
  BY <1>1
<1>5. ASSUME NEW m \in DOMAIN Table \ {n} PROVE Held(Table[m], new) = Held(Table[m], r)
  <2>1. \A j \in DOMAIN Table[m].parts :
          Found(Table[m].parts[j], new) = Found(Table[m].parts[j], r)
    BY <1>1
  <2>2. {Found(Table[m].parts[i], new) : i \in DOMAIN Table[m].parts}
        = {Found(Table[m].parts[i], r) : i \in DOMAIN Table[m].parts}
    BY <2>1
  <2> QED
    BY <1>3, <2>2
<1>6. ASSUME NEW x \in Held(Table[n], r), x \in v PROVE x \in Held(Table[n], new)
  <2>1. PICK i \in DOMAIN Table[n].parts : x \in Found(Table[n].parts[i], r)
    BY <1>3, <1>6
  <2>2. Found(Table[n].parts[k], r) \subseteq Places(Table[n].parts[k])
    BY DEF Found, Taken, Places
  <2>3. x \in Found(Table[n].parts[i], new)
    BY <1>2, <1>4, <1>6, <2>1, <2>2
  <2> QED
    BY <1>3, <2>3
<1>7. ASSUME NEW x \in Held(Table[n], new), x \notin v PROVE x \in Held(Table[n], r)
  <2>1. PICK i \in DOMAIN Table[n].parts : x \in Found(Table[n].parts[i], new)
    BY <1>3, <1>7
  <2>2. x \in Found(Table[n].parts[i], r)
    BY <1>2, <1>4, <1>7, <2>1
  <2> QED
    BY <1>3, <2>2
<1>8. ASSUME \A i \in DOMAIN Table[n].parts \ {k} :
               Found(Table[n].parts[i], r) = Places(Table[n].parts[i]) \cap v,
             v \subseteq Covered(n)
      PROVE  Held(Table[n], new) = v
  <2>1. \A i \in DOMAIN Table[n].parts :
          Found(Table[n].parts[i], new) = Places(Table[n].parts[i]) \cap v
    BY <1>2, <1>4, <1>8
  <2>2. Covered(n) = UNION {Places(Table[n].parts[i]) : i \in DOMAIN Table[n].parts}
    BY DEF Covered, Places
  <2>3. Held(Table[n], new) \subseteq v
    BY <1>3, <2>1
  <2>4. v \subseteq Held(Table[n], new)
    BY <1>3, <1>8, <2>1, <2>2
  <2> QED
    BY <2>3, <2>4
<1> QED
  BY <1>5, <1>6, <1>7, <1>8

LEMMA SetTowards ==
  ASSUME Inv, WriteRegister, call.op = "set", regs' = [regs EXCEPT ![Reg] = Data]
  PROVE  /\ Promise!Towards(call.name, call.value)
         /\ part = Len(Pieces(call)) => Shown'[call.name] = call.value
<1> DEFINE n == call.name
           v == call.value
<1>1. /\ call \in Calls /\ part \in DOMAIN Pieces(call) /\ step = "access" /\ act = "write"
      /\ UNCHANGED call
  BY WriteRegisterShape
<1>2. n \in DOMAIN Table /\ Pieces(call) = Table[n].parts
  BY <1>1, SettingShape
<1>3. /\ regs = [x \in DOMAIN regs |-> regs[x]] /\ Named \subseteq DOMAIN regs
      /\ Whole(Table[n].parts[part]) \/ prev = regs[Table[n].parts[part].reg]
  BY <1>1, <1>2 DEF Inv, RegsOk, Fresh, Reg
<1>4. regs' = After(n, part, v, prev, regs)
  BY <1>2 DEF Data, Reg, After
<1>5. part \in DOMAIN Table[n].parts
  BY <1>1, <1>2
<1>6. v \subseteq Covered(n)
  BY <1>1 DEF Inv, CallOk, Calls, Valid
<1>7. part = Len(Pieces(call)) =>
        \A i \in DOMAIN Table[n].parts \ {part} :
          Found(Table[n].parts[i], regs) = Places(Table[n].parts[i]) \cap v
  <2> SUFFICES ASSUME part = Len(Pieces(call)), NEW i \in DOMAIN Table[n].parts \ {part}
               PROVE  Found(Table[n].parts[i], regs) = Places(Table[n].parts[i]) \cap v
    OBVIOUS
  <2>1. i \in 1 .. part - 1
    BY <1>1, <1>2, PiecesShape
  <2> QED
    BY <1>1, <1>2, <2>1 DEF Inv, Written
<1>8. /\ \A m \in DOMAIN Table : Shown[m] = Held(Table[m], regs)
      /\ \A m \in DOMAIN Table : Shown'[m] = Held(Table[m], regs')
  BY DEF Shown, Value, Held
<1> HIDE DEF n, v
<1>9. /\ \A m \in DOMAIN Table \ {n} : Held(Table[m], regs') = Held(Table[m], regs)
      /\ Held(Table[n], regs) \cap v \subseteq Held(Table[n], regs')
      /\ Held(Table[n], regs') \subseteq Held(Table[n], regs) \cup v
      /\ part = Len(Pieces(call)) => Held(Table[n], regs') = v
  <2> DEFINE new == regs'
  <2>1. new = After(n, part, v, prev, regs)
    BY <1>4
  <2> HIDE DEF new
  <2>2. /\ \A m \in DOMAIN Table \ {n} : Held(Table[m], new) = Held(Table[m], regs)
        /\ Held(Table[n], regs) \cap v \subseteq Held(Table[n], new)
        /\ Held(Table[n], new) \subseteq Held(Table[n], regs) \cup v
        /\ /\ \A i \in DOMAIN Table[n].parts \ {part} :
                Found(Table[n].parts[i], regs) = Places(Table[n].parts[i]) \cap v
           /\ v \subseteq Covered(n)
           => Held(Table[n], new) = v
    BY <1>2, <1>3, <1>5, <2>1, PartMoves
  <2> QED
    BY <1>6, <1>7, <2>2 DEF new
<1>10. /\ \A m \in DOMAIN Table \ {n} : Shown'[m] = Shown[m]
       /\ Shown[n] \cap v \subseteq Shown'[n]
       /\ Shown'[n] \subseteq Shown[n] \cup v
       /\ part = Len(Pieces(call)) => Shown'[n] = v
  BY <1>2, <1>8, <1>9
<1>11. Promise!Towards(n, v)
  BY <1>10 DEF Promise!Towards, Shown
<1> QED
  BY <1>10, <1>11 DEF n, v

LEMMA WriteRegisterPromise == Inv /\ WriteRegister => Promise!Next
<1> SUFFICES ASSUME Inv, WriteRegister PROVE Promise!Next
  OBVIOUS
<1>1. /\ call \in Calls /\ part \in DOMAIN Pieces(call) /\ step = "access" /\ act = "write"
      /\ call' = call
      /\ regs' = regs \/ regs' = [regs EXCEPT ![Reg] = Data]
      /\ regs' # [regs EXCEPT ![Reg] = Data] => Fail
  BY WriteRegisterShape
<1>2. call.op \in {"set", "effect"} /\ result = "none"
  BY <1>1 DEF Inv, CallOk, Steps, Calls
<1>3. UNCHANGED answer
  BY DEF WriteRegister, Fail
<1>4. /\ result' \in {"none", "failed", "ok"}
      /\ result' = "ok" => ~ Fail /\ part = Len(Pieces(call))
  BY <1>2 DEF WriteRegister, Fail, Advance
<1>5. CASE regs' # [regs EXCEPT ![Reg] = Data]
  BY <1>1, <1>5, FailPromise
<1>6. CASE regs' = [regs EXCEPT ![Reg] = Data] /\ call.op = "set"
  <2>1. /\ Promise!Towards(call.name, call.value)
        /\ result' = "ok" => Shown'[call.name] = call.value
    BY <1>4, <1>6, SetTowards
  <2> QED
    BY <1>1, <1>2, <1>3, <1>4, <1>6, <2>1 DEF Promise!Next, Promise!Set, Shown
<1>7. CASE regs' = [regs EXCEPT ![Reg] = Data] /\ call.op = "effect"
  <2>1. \A m \in DOMAIN Table \ TouchedBy(call.name) : Shown'[m] = Shown[m]
    <3> SUFFICES ASSUME NEW m \in DOMAIN Table, m \notin TouchedBy(call.name)
                 PROVE  Shown'[m] = Shown[m]
      OBVIOUS
    <3>1. \A j \in DOMAIN Table[m].parts : Table[m].parts[j].reg # Reg
      BY <1>1, <1>7 DEF TouchedBy, Reg, Pieces
    <3>2. \A j \in DOMAIN Table[m].parts :
            regs'[Table[m].parts[j].reg] = regs[Table[m].parts[j].reg]
      BY <1>7, <3>1 DEF Inv, RegsOk
    <3> QED
      BY <3>2 DEF Shown, Value, Held
  <2> QED
    BY <1>1, <1>2, <1>3, <1>4, <1>7, <2>1 DEF Promise!Next, Promise!Effect, Shown
<1> QED
  BY <1>2, <1>5, <1>6, <1>7

LEMMA NextPromise == Inv /\ Inv' /\ [Next]_vars => [Promise!Next]_(Promise!vars)
<1> SUFFICES ASSUME Inv, Inv', [Next]_vars PROVE [Promise!Next]_(Promise!vars)
  OBVIOUS
<1>1. UNCHANGED <<regs, call, result, answer>> => UNCHANGED Promise!vars
  BY ShownKept DEF Promise!vars, Shown
<1>2. CASE UNCHANGED vars
  BY <1>1, <1>2 DEF vars, camera
<1>3. CASE Begin
  BY <1>3, BeginPromise
<1>4. CASE ReadBank
  BY <1>1, <1>4, FailPromise DEF ReadBank, camera
<1>5. CASE SwitchBank
  BY <1>1, <1>5, FailPromise DEF SwitchBank
<1>6. CASE ReadRegister
  BY <1>6, ReadRegisterPromise
<1>7. CASE WriteRegister
  BY <1>7, WriteRegisterPromise
<1> QED
  BY <1>2, <1>3, <1>4, <1>5, <1>6, <1>7 DEF Next

\* The library of accessors keeps the promise of CameraSettings: the getters and
\* setters of driver_ov2640.c, whatever the registers they share and wherever a
\* transaction fails.
THEOREM PromiseKept == Spec => ImplementsSettings
BY InitPromise, InitInv, NextInv, NextPromise, PTL DEF Spec, ImplementsSettings, Promise!Spec
=============================================================================
