--------------------------- MODULE I2cMasterProofs ---------------------------
(***************************************************************************)
(* Every try finds the core free, and a call changes and reports what      *)
(* CameraSettings promises, for all registers and bytes, any number of     *)
(* tries, rounds and calls, and every refusal.                             *)
(***************************************************************************)
EXTENDS I2cMaster, SequenceTheorems, TLAPS

(***************************************************************************)
(* The transfer that a try makes, as one row of commands, and the pieces   *)
(* of it that are in the queue and still to be written.                    *)
(***************************************************************************)
Piece(f, a, b) == [k \in 1 .. b - a |-> f[a + k - 1]]

Size(k) == IF k = "write" THEN 3 ELSE IF k = "tx_rx" THEN 4 ELSE 2

Row(c, k) ==
  CASE k = "rx" -> Receive(FALSE)
    [] k = "tx_rx" -> [i \in 1 .. 4 |-> IF i <= 2 THEN Transmit(c, k)[i] ELSE Receive(TRUE)[i - 2]]
    [] OTHER -> Transmit(c, k)

\* The end of the half that the program is in.
End(k, receives) == IF k = "tx_rx" /\ ~ receives THEN 2 ELSE Size(k)

(***************************************************************************)
(* The inductive invariant.                                                *)
(***************************************************************************)
Kinds == {"write", "tx_rx", "tx", "rx"}

Places == {"enable", "clear", "send", "check", "fetch", "drain", "return"}

Calls ==
  [op : {"set"}, name : Registers, value : Bytes] \cup [op : {"get"}, name : Registers, value : {{}}]

Types ==
  /\ at \in Places /\ kind \in Kinds /\ reading \in BOOLEAN
  /\ core = [enabled |-> core.enabled, state |-> core.state, commands |-> core.commands,
             data |-> core.data, nack |-> core.nack]
  /\ core.nack \in BOOLEAN
  /\ regs \in [Registers -> Bytes] /\ pointer \in Registers

CallOk ==
  IF result = "none"
    THEN call \in Calls /\ (call.op = "set" <=> kind = "write")
    ELSE at = "return"

HalfOk ==
  /\ reading => kind \in {"tx_rx", "rx"}
  /\ kind = "rx" \/ at = "fetch" => reading

Free ==
  /\ ~ core.enabled /\ core.state = "idle"
  /\ core.commands = <<>> /\ core.data = <<>>

FreeOk == at \in {"enable", "return"} => Free

ClearOk == at = "clear" => core.state = "started" /\ core.commands = <<>> /\ core.data = <<>>

TodoOk == at \in {"enable", "clear"} => todo = Commands(call, kind) /\ reading = (kind = "rx")

Transferring == at \in {"send", "check", "fetch", "drain"}

\* A refusal empties the queues and stops the core.
RefusedOk ==
  Transferring /\ core.nack =>
    core.state = "stopped" /\ core.commands = <<>> /\ core.data = <<>>

\* The core has sent the row of commands up to i, the program has written it up to j.
Reached(i, j) ==
  /\ i <= j /\ j <= End(kind, reading) + 1
  /\ core.commands = Piece(Row(call, kind), i, j)
  /\ todo = Piece(Row(call, kind), j, End(kind, reading) + 1)
  /\ core.state = IF i > Size(kind) THEN "stopped" ELSE "started"
  /\ core.data = IF reading /\ i > Size(kind) /\ at # "drain" THEN <<regs[call.name]>> ELSE <<>>
  /\ at = "send" => j <= End(kind, reading)
  /\ at \in {"fetch", "drain"} => j = Size(kind) + 1
  /\ at = "drain" /\ reading => i = Size(kind) + 1
  /\ (kind = "rx" \/ i >= 3) /\ (i <= Size(kind) \/ ~ reading) => pointer = call.name
  /\ kind = "write" /\ i = 4 => regs[call.name] = call.value

Answered ==
  at = "drain" /\ ~ core.nack => status = "success" /\ (reading => answer = regs[call.name])

TransferOk == Transferring /\ ~ core.nack => \E i, j \in 1 .. 5 : Reached(i, j)

\* What a transfer that was not refused has done.
Outcome ==
  /\ kind = "write" => regs[call.name] = call.value
  /\ kind \in {"tx_rx", "rx"} => answer = regs[call.name]
  /\ kind = "tx" => pointer = call.name

OutcomeOk == at = "return" /\ result = "none" /\ status = "success" => Outcome

\* The register that a read in two transfers names is still named when it is received.
NamedOk ==
  kind = "rx" /\ result = "none" =>
    \/ Transferring /\ ~ core.nack
    \/ at = "return" /\ status = "success"
    \/ pointer = call.name

Inv ==
  /\ Types /\ CallOk /\ HalfOk /\ FreeOk /\ ClearOk /\ TodoOk
  /\ RefusedOk /\ TransferOk /\ Answered /\ OutcomeOk /\ NamedOk

(***************************************************************************)
(* Pieces.                                                                 *)
(***************************************************************************)
\* A piece is a sequence.
LEMMA PieceIsSeq ==
  ASSUME NEW f, NEW a \in 1 .. 5, NEW b \in 1 .. 5, a <= b,
         NEW S, \A i \in 1 .. 5 : f[i] \in S
  PROVE  /\ Piece(f, a, b) \in Seq(S)
         /\ Len(Piece(f, a, b)) = b - a
         /\ \A k \in 1 .. b - a : Piece(f, a, b)[k] = f[a + k - 1]
<1>1. \A k \in 1 .. b - a : f[a + k - 1] \in S
  <2> TAKE k \in 1 .. b - a
  <2>1. a + k - 1 \in 1 .. 5
    OBVIOUS
  <2> QED
    BY <2>1
<1>2. b - a \in Nat
  OBVIOUS
<1>3. Piece(f, a, b) \in [1 .. b - a -> S]
  BY <1>1 DEF Piece
<1> QED
  BY <1>2, <1>3 DEF Piece

\* An empty piece.
LEMMA PieceEmpty ==
  ASSUME NEW f, NEW a \in 1 .. 5, NEW b \in 1 .. 5, a <= b
  PROVE  Piece(f, a, b) = <<>> <=> a = b
<1> DEFINE S == {f[i] : i \in 1 .. 5}
           s == Piece(f, a, b)
<1>0. \A i \in 1 .. 5 : f[i] \in S
  OBVIOUS
<1> HIDE DEF S
<1>1. s \in Seq(S) /\ Len(s) = b - a
  BY <1>0, PieceIsSeq
<1> HIDE DEF s
<1>2. <<>> \in Seq(S) /\ Len(<<>>) = 0
  BY EmptySeq
<1>3. a = b => s = <<>>
  BY <1>1, <1>2, SeqEqual
<1>4. s = <<>> => a = b
  BY <1>1, <1>2
<1> QED
  BY <1>3, <1>4 DEF s

\* The first command of a piece, and the others.
LEMMA PieceHead ==
  ASSUME NEW f, NEW a \in 1 .. 5, NEW b \in 1 .. 5, a < b
  PROVE  /\ Piece(f, a, b) # <<>>
         /\ Head(Piece(f, a, b)) = f[a]
         /\ Tail(Piece(f, a, b)) = Piece(f, a + 1, b)
<1> DEFINE S == {f[i] : i \in 1 .. 5}
           s == Piece(f, a, b)
           t == Piece(f, a + 1, b)
<1>0. \A i \in 1 .. 5 : f[i] \in S
  OBVIOUS
<1> HIDE DEF S
<1>1. s \in Seq(S) /\ Len(s) = b - a /\ s # <<>> /\ \A k \in 1 .. b - a : s[k] = f[a + k - 1]
  <2>1. s # <<>> /\ a <= b
    BY PieceEmpty
  <2> QED
    BY <1>0, <2>1, PieceIsSeq, Zenon
<1>2. t \in Seq(S) /\ Len(t) = b - (a + 1) /\ \A k \in 1 .. b - (a + 1) : t[k] = f[(a + 1) + k - 1]
  <2>1. a + 1 \in 1 .. 5 /\ a + 1 <= b
    OBVIOUS
  <2> QED
    BY <1>0, <2>1, PieceIsSeq, Zenon
<1>3. Tail(s) \in Seq(S) /\ Len(Tail(s)) = Len(s) - 1
      /\ \A k \in 1 .. Len(Tail(s)) : Tail(s)[k] = s[k + 1]
  BY <1>1, HeadTailProperties
<1>4. Head(s) = f[a]
  BY <1>1
<1> HIDE DEF s, t
<1>5. \A k \in 1 .. Len(Tail(s)) : Tail(s)[k] = t[k]
  <2> TAKE k \in 1 .. Len(Tail(s))
  <2>1. k \in 1 .. b - (a + 1) /\ k + 1 \in 1 .. b - a /\ a + (k + 1) - 1 = (a + 1) + k - 1
    BY <1>1, <1>3
  <2> QED
    BY <1>1, <1>2, <1>3, <2>1
<1>6. Len(Tail(s)) = Len(t)
  BY <1>1, <1>2, <1>3
<1>7. Tail(s) = t
  BY <1>2, <1>3, <1>5, <1>6, SeqEqual
<1> QED
  BY <1>1, <1>4, <1>7 DEF s, t

\* A piece and the command after it.
LEMMA PieceAppend ==
  ASSUME NEW f, NEW a \in 1 .. 5, NEW b \in 1 .. 5, a <= b, b < 5
  PROVE  Append(Piece(f, a, b), f[b]) = Piece(f, a, b + 1)
<1> DEFINE S == {f[i] : i \in 1 .. 5}
           s == Piece(f, a, b)
           t == Piece(f, a, b + 1)
           u == Append(s, f[b])
<1>0. \A i \in 1 .. 5 : f[i] \in S
  OBVIOUS
<1> HIDE DEF S
<1>1. s \in Seq(S) /\ Len(s) = b - a /\ \A k \in 1 .. b - a : s[k] = f[a + k - 1]
  BY <1>0, PieceIsSeq, Zenon
<1>2. t \in Seq(S) /\ Len(t) = (b + 1) - a /\ \A k \in 1 .. (b + 1) - a : t[k] = f[a + k - 1]
  <2>1. b + 1 \in 1 .. 5 /\ a <= b + 1
    OBVIOUS
  <2> QED
    BY <1>0, <2>1, PieceIsSeq, Zenon
<1>3. f[b] \in S
  BY <1>0
<1> HIDE DEF s, t
<1>4. u \in Seq(S) /\ Len(u) = Len(s) + 1 /\ u[Len(s) + 1] = f[b]
      /\ \A k \in 1 .. Len(s) : u[k] = s[k]
  BY <1>1, <1>3, AppendProperties
<1> HIDE DEF u
<1>5. \A k \in 1 .. Len(u) : u[k] = t[k]
  <2> TAKE k \in 1 .. Len(u)
  <2>1. CASE k <= b - a
    BY <1>1, <1>2, <1>4, <2>1
  <2>2. CASE k = b - a + 1
    <3>1. a + k - 1 = b
      BY <2>2
    <3> QED
      BY <1>1, <1>2, <1>4, <2>2, <3>1
  <2> QED
    BY <1>1, <1>4, <2>1, <2>2
<1>6. Len(u) = Len(t)
  BY <1>1, <1>2, <1>4
<1>7. u = t
  BY <1>2, <1>4, <1>5, <1>6, SeqEqual
<1> QED
  BY <1>7 DEF s, t, u

(***************************************************************************)
(* The row of commands.                                                    *)
(***************************************************************************)
\* Which command is a byte to read, ends the transfer, names the register, is its value.
LEMMA RowEntry ==
  ASSUME NEW c, NEW k \in Kinds, NEW i \in 1 .. Size(k)
  PROVE  LET e == Row(c, k)[i]
         IN  /\ e.what = "read" <=> i = Size(k) /\ k \in {"tx_rx", "rx"}
             /\ e.stop <=> i = Size(k)
             /\ e.what = "register" <=> i = 2 /\ k # "rx"
             /\ e.what = "register" => e.byte = c.name
             /\ e.what = "value" <=> i = 3 /\ k = "write"
             /\ e.what = "value" => e.byte = c.value
<1> DEFINE address == Command(FALSE, FALSE, "to", {})
           register(stop) == Command(FALSE, stop, "register", c.name)
<1>1. CASE k = "write" /\ i \in {1, 2, 3}
  <2>1. Row(c, k) = <<address, register(k = "tx"), Command(FALSE, TRUE, "value", c.value)>>
    BY <1>1 DEF Row, Transmit
  <2>2. (k = "tx") = FALSE
    BY <1>1
  <2>3. Row(c, k) = <<address, register(FALSE), Command(FALSE, TRUE, "value", c.value)>>
    BY <2>1, <2>2, Zenon
  <2> QED
    BY <1>1, <2>3 DEF Size, Command
<1>2. CASE k = "tx" /\ i \in {1, 2}
  <2>1. Row(c, k) = <<address, register(k = "tx")>>
    BY <1>2 DEF Row, Transmit
  <2>2. (k = "tx") = TRUE
    BY <1>2
  <2>3. Row(c, k) = <<address, register(TRUE)>>
    BY <2>1, <2>2, Zenon
  <2> QED
    BY <1>2, <2>3 DEF Size, Command
<1>3. CASE k = "rx" /\ i \in {1, 2}
  BY <1>3 DEF Row, Size, Receive, Command, Kinds
<1>4. CASE k = "tx_rx" /\ i \in {1, 2}
  <2>1. Transmit(c, k) = <<address, register(k = "tx")>>
    BY <1>4 DEF Transmit
  <2>2. (k = "tx") = FALSE
    BY <1>4
  <2>3. Transmit(c, k) = <<address, register(FALSE)>>
    BY <2>1, <2>2, Zenon
  <2>4. Row(c, k) = [j \in 1 .. 4 |-> IF j <= 2 THEN Transmit(c, k)[j] ELSE Receive(TRUE)[j - 2]]
    BY <1>4 DEF Row
  <2> QED
    BY <1>4, <2>3, <2>4 DEF Size, Command
<1>5. CASE k = "tx_rx" /\ i \in {3, 4}
  BY <1>5 DEF Row, Size, Receive, Command, Kinds
<1> QED
  BY <1>1, <1>2, <1>3, <1>4, <1>5 DEF Size, Kinds

\* What the functions of the HAL write is the row, in one piece or in two.
LEMMA RowCommands ==
  ASSUME NEW c, NEW k \in Kinds
  PROVE  /\ Commands(c, k) = Piece(Row(c, k), 1, End(k, k = "rx") + 1)
         /\ k = "tx_rx" => Receive(TRUE) = Piece(Row(c, k), 3, 5)
<1>1. CASE k = "write"
  BY <1>1 DEF Row, Size, Transmit, Commands, Piece, End
<1>2. CASE k = "tx"
  BY <1>2 DEF Row, Size, Transmit, Commands, Piece, End
<1>3. CASE k = "rx"
  BY <1>3 DEF Row, Size, Receive, Commands, Piece, End
<1>4. CASE k = "tx_rx"
  BY <1>4 DEF Row, Size, Transmit, Receive, Commands, Piece, End
<1> QED
  BY <1>1, <1>2, <1>3, <1>4 DEF Kinds

LEMMA Sizes ==
  ASSUME Types, HalfOk
  PROVE  /\ Size(kind) \in {2, 3, 4} /\ End(kind, reading) \in {2, 3, 4}
         /\ End(kind, reading) <= Size(kind)
         /\ reading => End(kind, reading) = Size(kind)
BY DEF Types, HalfOk, Size, End, Kinds

(***************************************************************************)
(* The invariant holds at first, and the loops of the program keep it.     *)
(***************************************************************************)
LEMMA InitHolds == Init => Inv
<1> SUFFICES ASSUME Init PROVE Inv
  OBVIOUS
<1>1. Types
  BY DEF Init, Types, Kinds, Places
<1>2. CallOk /\ HalfOk /\ OutcomeOk /\ NamedOk
  BY DEF Init, CallOk, HalfOk, OutcomeOk, NamedOk
<1>3. Free
  BY DEF Init, Free
<1> QED
  BY <1>1, <1>2, <1>3
  DEF Init, Inv, FreeOk, ClearOk, TodoOk, RefusedOk, TransferOk, Transferring, Answered

\* Between two tries nothing is transferred.
LEMMA BetweenTries ==
  ASSUME Types', CallOk', HalfOk', FreeOk', TodoOk', OutcomeOk', NamedOk',
         at' \in {"enable", "return"}
  PROVE  Inv'
BY DEF Inv, ClearOk, RefusedOk, TransferOk, Transferring, Answered

\* A try that starts while the core is free.
LEMMA TryHolds ==
  ASSUME Inv, at = "return", NEW k \in Kinds, Try(call', k), result' = "none", call' \in Calls,
         call'.op = "set" <=> k = "write", k = "rx" => pointer = call'.name,
         UNCHANGED <<core, regs, pointer>>
  PROVE  Inv'
<1>1. Types'
  BY DEF Inv, Types, Try, Places
<1>2. FreeOk'
  BY DEF Inv, FreeOk, Free
<1>3. CallOk' /\ HalfOk' /\ TodoOk'
  BY DEF CallOk, HalfOk, TodoOk, Try, Kinds, Commands, Transmit, Receive
<1>4. OutcomeOk' /\ NamedOk'
  BY DEF OutcomeOk, NamedOk, Try
<1> QED
  BY <1>1, <1>2, <1>3, <1>4, BetweenTries DEF Try

LEMMA BeginHolds == Inv /\ Begin => Inv'
<1> SUFFICES ASSUME Inv, Begin PROVE Inv'
  OBVIOUS
<1> DEFINE k == IF call'.op = "set" THEN "write" ELSE "tx_rx"
<1>1. at = "return" /\ call' \in Calls
  BY DEF Inv, CallOk, Begin, Calls
<1>2. k \in Kinds /\ (call'.op = "set" <=> k = "write") /\ k # "rx"
  BY DEF Kinds
<1>3. Try(call', k) /\ result' = "none" /\ UNCHANGED <<core, regs, pointer>>
  BY DEF Begin
<1> QED
  BY <1>1, <1>2, <1>3, TryHolds

LEMMA TryAgainHolds == Inv /\ TryAgain => Inv'
<1> SUFFICES ASSUME Inv, TryAgain PROVE Inv'
  OBVIOUS
<1>1. at = "return" /\ result' = "none" /\ call' = call /\ call' \in Calls
      /\ kind \in Kinds /\ (call'.op = "set" <=> kind = "write")
  BY DEF Inv, Types, CallOk, TryAgain
<1>2. kind = "rx" => pointer = call'.name
  BY DEF Inv, NamedOk, TryAgain, MayTryAgain, Transferring
<1>3. Try(call', kind) /\ UNCHANGED <<core, regs, pointer>>
  BY <1>1 DEF TryAgain
<1> QED
  BY <1>1, <1>2, <1>3, TryHolds

LEMMA SucceedHolds == Inv /\ Succeed => Inv'
<1> SUFFICES ASSUME Inv, Succeed PROVE Inv'
  OBVIOUS
<1>1. Types' /\ FreeOk' /\ HalfOk' /\ TodoOk'
  BY DEF Inv, Types, FreeOk, Free, HalfOk, TodoOk, Succeed, HalDone
<1>2. CallOk' /\ OutcomeOk' /\ NamedOk' /\ at' = "return"
  BY DEF CallOk, OutcomeOk, NamedOk, Succeed, HalDone
<1> QED
  BY <1>1, <1>2, BetweenTries

LEMMA ReadInTwoHolds == Inv /\ ReadInTwo => Inv'
<1> SUFFICES ASSUME Inv, ReadInTwo PROVE Inv'
  OBVIOUS
<1>1. at = "return" /\ result' = "none" /\ call' = call /\ call' \in Calls /\ call.op # "set"
  BY DEF Inv, CallOk, ReadInTwo, HalDone
<1>2. UNCHANGED <<core, regs, pointer>>
  BY DEF ReadInTwo
<1>3. CASE Try(call, "tx")
  BY <1>1, <1>2, <1>3, TryHolds DEF Kinds
<1>4. CASE kind = "tx" /\ status = "success" /\ Try(call, "rx")
  <2>1. pointer = call'.name
    BY <1>1, <1>4 DEF Inv, OutcomeOk, Outcome, ReadInTwo, HalDone
  <2> QED
    BY <1>1, <1>2, <1>4, <2>1, TryHolds DEF Kinds
<1> QED
  BY <1>3, <1>4 DEF ReadInTwo

LEMMA NextRoundHolds == Inv /\ NextRound => Inv'
<1> SUFFICES ASSUME Inv, NextRound PROVE Inv'
  OBVIOUS
<1> DEFINE k == IF call.op = "set" THEN "write" ELSE "tx_rx"
<1>1. at = "return" /\ call' = call /\ call \in Calls
      /\ UNCHANGED <<core, regs, pointer, status, answer>>
  BY DEF Inv, CallOk, NextRound, HalDone
<1>2. CASE Try(call, k) /\ result' = "none"
  <2>1. k \in Kinds /\ (call'.op = "set" <=> k = "write") /\ k # "rx"
    BY <1>1 DEF Kinds
  <2> QED
    BY <1>1, <1>2, <2>1, TryHolds
<1>3. CASE result' = "failed" /\ UNCHANGED <<kind, at, todo, reading>>
  <2>1. Types' /\ FreeOk' /\ HalfOk' /\ TodoOk'
    BY <1>1, <1>3 DEF Inv, Types, FreeOk, Free, HalfOk, TodoOk
  <2>2. CallOk' /\ OutcomeOk' /\ NamedOk' /\ at' = "return"
    BY <1>1, <1>3 DEF CallOk, OutcomeOk, NamedOk
  <2> QED
    BY <2>1, <2>2, BetweenTries
<1>4. result = "none"
  BY DEF NextRound, HalDone
<1> QED
  BY <1>2, <1>3, <1>4 DEF NextRound

(***************************************************************************)
(* The accesses of a try.                                                  *)
(***************************************************************************)
LEMMA EnableHolds == Inv /\ Enable => Inv'
<1> SUFFICES ASSUME Inv, Enable PROVE Inv'
  OBVIOUS
<1>1. Free /\ core' = [core EXCEPT !.enabled = TRUE, !.state = "started"] /\ at' = "clear"
      /\ UNCHANGED <<call, kind, reading, todo, result, regs, pointer, answer>>
  BY DEF Inv, FreeOk, Free, Enable, Goto
<1>2. Types' /\ ClearOk'
  BY <1>1 DEF Inv, Types, ClearOk, Free, Places
<1>3. CallOk' /\ HalfOk'
  BY <1>1 DEF Inv, CallOk, HalfOk, Enable
<1>4. TodoOk'
  BY <1>1 DEF Inv, TodoOk, Enable
<1>5. NamedOk'
  BY <1>1 DEF Inv, NamedOk, Enable, Transferring
<1> QED
  BY <1>1, <1>2, <1>3, <1>4, <1>5 DEF Inv, FreeOk, RefusedOk, TransferOk, Answered, OutcomeOk, Transferring

\* During a transfer the other parts of the invariant say nothing.
LEMMA DuringTransfer ==
  ASSUME Types', CallOk', HalfOk', Transferring', RefusedOk', TransferOk', Answered', NamedOk'
  PROVE  Inv'
BY DEF Inv, FreeOk, ClearOk, TodoOk, OutcomeOk, Transferring

LEMMA ClearInterruptsHolds == Inv /\ ClearInterrupts => Inv'
<1> SUFFICES ASSUME Inv, ClearInterrupts PROVE Inv'
  OBVIOUS
<1>1. at = "clear" /\ at' = "send" /\ core' = [core EXCEPT !.nack = FALSE]
      /\ UNCHANGED <<call, kind, reading, todo, status, result, regs, pointer, answer>>
  BY DEF ClearInterrupts, Goto
<1>2. Types
  BY DEF Inv
<1>3. /\ core'.commands = core.commands /\ core'.data = core.data /\ core'.state = core.state
      /\ core'.nack = FALSE
  BY <1>1, <1>2 DEF Types
<1>4. Types'
  BY <1>1, <1>2 DEF Types, Places
<1>5. CallOk' /\ HalfOk' /\ Transferring' /\ RefusedOk' /\ Answered' /\ NamedOk'
  BY <1>1, <1>3 DEF Inv, CallOk, HalfOk, Transferring, RefusedOk, Answered, NamedOk
<1>6. core.commands = <<>> /\ core.data = <<>> /\ core.state = "started"
      /\ todo = Commands(call, kind) /\ reading = (kind = "rx")
  BY <1>1 DEF Inv, ClearOk, TodoOk
<1>7. kind = "rx" => pointer = call.name
  BY <1>1 DEF Inv, NamedOk, CallOk, Transferring
<1>8. todo = Piece(Row(call, kind), 1, End(kind, reading) + 1)
  BY <1>2, <1>6, RowCommands DEF Types
<1>9. <<>> = Piece(Row(call, kind), 1, 1)
  BY PieceEmpty
<1>10. Size(kind) \in {2, 3, 4} /\ End(kind, reading) \in {2, 3, 4}
  BY <1>2, Sizes DEF Inv
<1>11. Reached(1, 1)'
  BY <1>1, <1>3, <1>6, <1>7, <1>8, <1>9, <1>10 DEF Reached
<1>12. TransferOk'
  BY <1>11 DEF TransferOk
<1> QED
  BY <1>4, <1>5, <1>12, DuringTransfer

LEMMA SendCommandHolds == Inv /\ SendCommand => Inv'
<1> SUFFICES ASSUME Inv, SendCommand PROVE Inv'
  OBVIOUS
<1> DEFINE row == Row(call, kind)
<1>1. at = "send" /\ at' = "check" /\ todo' = Tail(todo)
      /\ UNCHANGED <<call, kind, reading, status, result, regs, pointer, answer>>
  BY DEF SendCommand, Goto
<1>2. Types
  BY DEF Inv
<1>3. /\ core' = [core EXCEPT !.commands = core'.commands]
      /\ core'.data = core.data /\ core'.state = core.state /\ core'.nack = core.nack
      /\ core'.commands = IF core.nack THEN core.commands ELSE Append(core.commands, Head(todo))
  BY <1>2 DEF Types, SendCommand
<1>4. Types'
  BY <1>1, <1>2, <1>3 DEF Types, Places
<1>5. CallOk' /\ HalfOk' /\ Transferring' /\ RefusedOk' /\ Answered' /\ NamedOk'
  BY <1>1, <1>3 DEF Inv, CallOk, HalfOk, Transferring, RefusedOk, Answered, NamedOk
<1>6. ASSUME ~ core.nack PROVE \E i, j \in 1 .. 5 : Reached(i, j)'
  <2>1. PICK i \in 1 .. 5, j \in 1 .. 5 : Reached(i, j)
    BY <1>1, <1>6 DEF Inv, TransferOk, Transferring
  <2>2. i <= j /\ j <= End(kind, reading) /\ End(kind, reading) \in {2, 3, 4} /\ Size(kind) \in {2, 3, 4}
    BY <1>1, <1>2, <2>1, Sizes DEF Inv, Reached
  <2>3. Head(todo) = row[j] /\ Tail(todo) = Piece(row, j + 1, End(kind, reading) + 1)
    <3>1. End(kind, reading) + 1 \in 1 .. 5 /\ j < End(kind, reading) + 1
      BY <2>2
    <3> QED
      BY <2>1, <3>1, PieceHead DEF Reached
  <2>4. Append(core.commands, row[j]) = Piece(row, i, j + 1)
    <3>1. j < 5 /\ core.commands = Piece(row, i, j)
      BY <2>1, <2>2 DEF Reached
    <3> QED
      BY <2>2, <3>1, PieceAppend
  <2>5. Reached(i, j + 1)'
    BY <1>1, <1>3, <1>6, <2>1, <2>2, <2>3, <2>4 DEF Reached
  <2> QED
    BY <2>2, <2>5
<1>7. TransferOk'
  BY <1>3, <1>6 DEF TransferOk
<1> QED
  BY <1>4, <1>5, <1>7, DuringTransfer

LEMMA CheckNackHolds == Inv /\ CheckNack => Inv'
<1> SUFFICES ASSUME Inv, CheckNack PROVE Inv'
  OBVIOUS
<1>1. at = "check" /\ UNCHANGED <<call, kind, result, regs, pointer, answer, core>>
      /\ at' \in {"drain", "send", "fetch"} /\ result = "none"
  BY DEF CheckNack, Goto, Inv, CallOk
<1>2. Types /\ HalfOk
  BY DEF Inv
<1>3. Types' /\ CallOk' /\ Transferring' /\ HalfOk'
  <2>1. reading' \in BOOLEAN /\ (reading' => reading \/ kind = "tx_rx") /\ (reading => reading')
        /\ (at' = "fetch" => reading')
    BY <1>2 DEF CheckNack, Types, Goto
  <2> QED
    BY <1>1, <1>2, <2>1 DEF Inv, Types, Places, CallOk, HalfOk, Transferring
<1>4. CASE core.nack
  <2>1. RefusedOk' /\ TransferOk' /\ Answered' /\ NamedOk'
    BY <1>1, <1>4 DEF Inv, RefusedOk, TransferOk, Answered, NamedOk, Transferring
  <2> QED
    BY <1>3, <2>1, DuringTransfer
<1>5. CASE ~ core.nack
  <2> DEFINE row == Row(call, kind)
             end == End(kind, reading)
  <2>1. PICK i \in 1 .. 5, j \in 1 .. 5 : Reached(i, j)
    BY <1>1, <1>5 DEF Inv, TransferOk, Transferring
  <2>2. i <= j /\ j <= end + 1 /\ end \in {2, 3, 4} /\ Size(kind) \in {2, 3, 4} /\ end <= Size(kind)
        /\ (reading => end = Size(kind))
    BY <1>2, <2>1, Sizes DEF Reached
  <2>3. todo = <<>> <=> j = end + 1
    <3>1. end + 1 \in 1 .. 5 /\ todo = Piece(row, j, end + 1)
      BY <2>1, <2>2 DEF Reached
    <3> QED
      BY <2>2, <3>1, PieceEmpty
  <2>4. RefusedOk' /\ NamedOk' /\ status' = "success"
    BY <1>1, <1>3, <1>5 DEF RefusedOk, NamedOk, CheckNack
  <2>5. CASE todo # <<>> /\ at' = "send" /\ UNCHANGED <<todo, reading>>
    <3>1. Reached(i, j)'
      BY <1>1, <2>1, <2>2, <2>3, <2>5 DEF Reached
    <3>2. TransferOk' /\ Answered'
      BY <2>5, <3>1 DEF TransferOk, Answered
    <3> QED
      BY <1>3, <2>4, <3>2, DuringTransfer
  <2>6. CASE todo = <<>> /\ reading /\ at' = "fetch" /\ UNCHANGED <<todo, reading>>
    <3>1. Reached(i, j)'
      BY <1>1, <2>1, <2>2, <2>3, <2>6 DEF Reached
    <3>2. TransferOk' /\ Answered'
      BY <2>6, <3>1 DEF TransferOk, Answered
    <3> QED
      BY <1>3, <2>4, <3>2, DuringTransfer
  <2>7. CASE todo = <<>> /\ ~ reading /\ kind = "tx_rx" /\ at' = "send" /\ todo' = Receive(TRUE)
             /\ reading' = TRUE
    <3>1. end = 2 /\ Size(kind) = 4 /\ End(kind, reading') = 4 /\ Receive(TRUE) = Piece(row, 3, 5)
      BY <2>7, RowCommands DEF End, Size, Kinds
    <3>2. Reached(i, j)'
      <4>1. j = 3 /\ i <= 3
        BY <2>2, <2>3, <2>7, <3>1
      <4>9. End(kind', reading') = 4 /\ End(kind', reading') + 1 = 5 /\ Row(call', kind') = row
        BY <1>1, <3>1
      <4>10. todo' = Piece(Row(call', kind'), j, End(kind', reading') + 1)
        BY <2>7, <3>1, <4>1, <4>9
      <4>2. core.data = <<>> /\ core.state = "started" /\ core.commands = Piece(row, i, j)
        BY <2>1, <2>7, <3>1, <4>1 DEF Reached
      <4>3. i >= 3 => pointer = call.name
        BY <2>1, <2>7 DEF Reached
      <4>4. i <= j /\ j <= End(kind', reading') + 1 /\ j <= End(kind', reading') /\ at' = "send"
        BY <2>2, <2>7, <4>1, <4>9
      <4>5. core'.commands = Piece(Row(call', kind'), i, j)
        BY <1>1, <4>2
      <4>6. i <= Size(kind') /\ Size(kind') = 4 /\ kind' = "tx_rx"
        BY <1>1, <2>7, <3>1, <4>1
      <4>7. core'.state = "started" /\ core'.data = <<>>
        BY <1>1, <4>2
      <4>8. i >= 3 => pointer' = call'.name
        BY <1>1, <4>3
      <4> QED
        BY <4>10, <4>4, <4>5, <4>6, <4>7, <4>8 DEF Reached
    <3>3. TransferOk' /\ Answered'
      BY <2>7, <3>2 DEF TransferOk, Answered
    <3> QED
      BY <1>3, <2>4, <3>3, DuringTransfer
  <2>8. CASE todo = <<>> /\ ~ reading /\ kind # "tx_rx" /\ at' = "drain" /\ UNCHANGED <<todo, reading>>
    <3>1. end = Size(kind)
      BY <2>8 DEF End
    <3>2. Reached(i, j)'
      BY <1>1, <2>1, <2>2, <2>3, <2>8, <3>1 DEF Reached
    <3>3. TransferOk' /\ Answered'
      BY <2>4, <2>8, <3>2 DEF TransferOk, Answered
    <3> QED
      BY <1>3, <2>4, <3>3, DuringTransfer
  <2> QED
    BY <1>5, <2>5, <2>6, <2>7, <2>8 DEF CheckNack, Goto
<1> QED
  BY <1>4, <1>5

LEMMA FetchHolds == Inv /\ Fetch => Inv'
<1> SUFFICES ASSUME Inv, Fetch PROVE Inv'
  OBVIOUS
<1>1. at = "fetch" /\ at' = "drain"
      /\ UNCHANGED <<call, kind, result, reading, todo, regs, pointer>>
  BY DEF Fetch, Goto
<1>2. Types /\ HalfOk
  BY DEF Inv
<1>3. /\ core' = [core EXCEPT !.data = core'.data]
      /\ core'.commands = core.commands /\ core'.state = core.state /\ core'.nack = core.nack
  BY <1>2 DEF Types, Fetch
<1>4. Types' /\ CallOk' /\ HalfOk' /\ Transferring' /\ NamedOk'
  <2>1. Types'
    BY <1>1, <1>2, <1>3 DEF Types, Places
  <2>2. CallOk' /\ HalfOk' /\ Transferring' /\ NamedOk'
    BY <1>1, <1>3 DEF Inv, CallOk, HalfOk, Transferring, NamedOk
  <2> QED
    BY <2>1, <2>2
<1>5. CASE core.nack
  <2>1. core.data = <<>> /\ core.state = "stopped" /\ core.commands = <<>>
    BY <1>1, <1>5 DEF Inv, RefusedOk, Transferring
  <2>2. core' = core
    BY <2>1 DEF Fetch
  <2>3. RefusedOk' /\ TransferOk' /\ Answered'
    BY <1>5, <2>1, <2>2 DEF RefusedOk, TransferOk, Answered
  <2> QED
    BY <1>4, <2>3, DuringTransfer
<1>6. CASE ~ core.nack
  <2> DEFINE value == regs[call.name]
  <2>1. PICK i \in 1 .. 5, j \in 1 .. 5 : Reached(i, j)
    BY <1>1, <1>6 DEF Inv, TransferOk, Transferring
  <2>2. i <= j /\ j = Size(kind) + 1 /\ reading /\ Size(kind) \in {2, 3, 4}
        /\ core.commands = Piece(Row(call, kind), i, j)
        /\ core.data = IF i > Size(kind) THEN <<value>> ELSE <<>>
    BY <1>1, <1>2, <2>1, Sizes DEF Reached, HalfOk
  <2>3. ~ (core.data = <<>> /\ Quiet)
    <3>1. core.commands = <<>> => i = j
      BY <2>2, PieceEmpty
    <3>2. core.commands = <<>> => core.data = <<value>>
      BY <2>2, <3>1
    <3>3. <<value>> # <<>>
      OBVIOUS
    <3> QED
      BY <3>2, <3>3 DEF Quiet
  <2>4. core.data # <<>> /\ answer' = Head(core.data) /\ core'.data = Tail(core.data)
        /\ status' = "success"
    BY <1>2, <2>3 DEF Fetch, Types
  <2>5. i = Size(kind) + 1 /\ core.data = <<value>>
    BY <2>2, <2>4
  <2>6. answer' = value /\ core'.data = <<>>
    BY <2>4, <2>5
  <2>7. Reached(i, j)'
    BY <1>1, <1>3, <2>1, <2>2, <2>5, <2>6 DEF Reached
  <2>8. RefusedOk' /\ TransferOk' /\ Answered'
    BY <1>1, <1>3, <1>6, <2>4, <2>6, <2>7 DEF RefusedOk, TransferOk, Answered
  <2> QED
    BY <1>4, <2>8, DuringTransfer
<1> QED
  BY <1>5, <1>6

LEMMA DrainHolds == Inv /\ Drain => Inv'
<1> SUFFICES ASSUME Inv, Drain PROVE Inv'
  OBVIOUS
<1>1. at = "drain" /\ at' = "return" /\ core.commands = <<>> /\ result = "none"
      /\ UNCHANGED <<call, kind, result, reading, todo, regs, pointer, answer>>
  BY DEF Drain, Goto, Quiet, Inv, CallOk
<1>2. Types /\ HalfOk
  BY DEF Inv
<1>3. /\ core' = [core EXCEPT !.enabled = core'.enabled, !.state = core'.state]
      /\ core'.enabled = FALSE /\ core'.state = "idle"
      /\ core'.commands = core.commands /\ core'.data = core.data /\ core'.nack = core.nack
  BY <1>2 DEF Types, Drain
<1>4. Types' /\ CallOk' /\ HalfOk' /\ TodoOk'
  <2>1. Types'
    BY <1>1, <1>2, <1>3 DEF Types, Places
  <2>2. CallOk' /\ HalfOk' /\ TodoOk'
    BY <1>1 DEF Inv, CallOk, HalfOk, TodoOk
  <2> QED
    BY <2>1, <2>2
<1>5. CASE core.nack
  <2>1. core.data = <<>> /\ status' = "nack"
    BY <1>1, <1>5 DEF Inv, RefusedOk, Transferring, Drain
  <2>2. FreeOk' /\ OutcomeOk'
    BY <1>1, <1>3, <2>1 DEF FreeOk, Free, OutcomeOk
  <2>3. NamedOk'
    BY <1>1, <1>5 DEF Inv, NamedOk
  <2> QED
    BY <1>1, <1>4, <2>2, <2>3, BetweenTries
<1>6. CASE ~ core.nack
  <2>1. PICK i \in 1 .. 5, j \in 1 .. 5 : Reached(i, j)
    BY <1>1, <1>6 DEF Inv, TransferOk, Transferring
  <2>2. i <= j /\ j = Size(kind) + 1 /\ j <= End(kind, reading) + 1
        /\ core.commands = Piece(Row(call, kind), i, j)
    BY <1>1, <2>1 DEF Reached
  <2>3. i = Size(kind) + 1
    BY <1>1, <2>2, PieceEmpty
  <2>4. status' = "success" /\ (reading => answer = regs[call.name])
    BY <1>1, <1>6 DEF Inv, Answered, Drain
  <2>5. reading <=> kind \in {"tx_rx", "rx"}
    BY <1>2, <2>2 DEF HalfOk, Types, End, Size
  <2>6. core.data = <<>>
    BY <1>1, <2>1 DEF Reached
  <2>7. Outcome
    <3>1. CASE kind = "write"
      BY <2>1, <2>3, <3>1 DEF Reached, Outcome, Size
    <3>2. CASE kind = "tx"
      BY <2>1, <2>3, <2>5, <3>2 DEF Reached, Outcome, Size
    <3>3. CASE kind \in {"tx_rx", "rx"}
      BY <2>4, <2>5, <3>3 DEF Outcome
    <3> QED
      BY <1>2, <3>1, <3>2, <3>3 DEF Types, Kinds
  <2>8. FreeOk' /\ OutcomeOk' /\ NamedOk'
    BY <1>1, <1>3, <2>4, <2>6, <2>7 DEF FreeOk, Free, OutcomeOk, Outcome, NamedOk
  <2> QED
    BY <1>1, <1>4, <2>8, BetweenTries
<1> QED
  BY <1>5, <1>6

(***************************************************************************)
(* The core.                                                               *)
(***************************************************************************)
\* What it finds in its queue when it goes on.
LEMMA Sending ==
  ASSUME Inv, Active
  PROVE  /\ Transferring /\ ~ core.nack /\ result = "none" /\ call \in Calls
         /\ call.op = "set" <=> kind = "write"
         /\ \E i \in 1 .. 4, j \in 1 .. 5 :
              /\ Reached(i, j) /\ i < j /\ i <= Size(kind) /\ Size(kind) \in {2, 3, 4}
              /\ Head(core.commands) = Row(call, kind)[i]
              /\ Tail(core.commands) = Piece(Row(call, kind), i + 1, j)
<1>1. Transferring /\ ~ core.nack
  BY DEF Active, Inv, Types, Places, FreeOk, Free, ClearOk, Transferring
<1>2. result = "none" /\ call \in Calls /\ (call.op = "set" <=> kind = "write")
  BY <1>1 DEF Inv, CallOk, Transferring
<1>3. PICK i \in 1 .. 5, j \in 1 .. 5 : Reached(i, j)
  BY <1>1 DEF Inv, TransferOk
<1>4. i <= j /\ j <= Size(kind) + 1 /\ Size(kind) \in {2, 3, 4}
      /\ core.commands = Piece(Row(call, kind), i, j)
  BY <1>3, Sizes DEF Inv, Reached
<1>5. i < j
  BY <1>4, PieceEmpty DEF Active
<1>6. Head(core.commands) = Row(call, kind)[i]
      /\ Tail(core.commands) = Piece(Row(call, kind), i + 1, j)
  <2> DEFINE row == Row(call, kind)
  <2>1. core.commands = Piece(row, i, j)
    BY <1>4
  <2> HIDE DEF row
  <2>2. Head(Piece(row, i, j)) = row[i] /\ Tail(Piece(row, i, j)) = Piece(row, i + 1, j)
    BY <1>5, PieceHead, Zenon
  <2> QED
    BY <2>1, <2>2 DEF row
<1>7. i \in 1 .. 4 /\ i <= Size(kind)
  BY <1>4, <1>5
<1> QED
  BY <1>1, <1>2, <1>3, <1>4, <1>5, <1>6, <1>7

LEMMA SendByteHolds == Inv /\ SendByte => Inv'
<1> SUFFICES ASSUME Inv, SendByte PROVE Inv'
  OBVIOUS
<1> DEFINE row == Row(call, kind)
<1>1. Transferring /\ ~ core.nack /\ result = "none" /\ UNCHANGED <<program, refused>>
  BY Sending DEF SendByte
<1>2. PICK i \in 1 .. 4, j \in 1 .. 5 :
        /\ Reached(i, j) /\ i < j /\ i <= Size(kind) /\ Size(kind) \in {2, 3, 4}
        /\ Head(core.commands) = row[i] /\ Tail(core.commands) = Piece(row, i + 1, j)
  BY Sending DEF SendByte
<1>3. Types /\ HalfOk /\ call \in Calls
  BY Sending DEF Inv, SendByte
<1>4. /\ row[i].what # "read" /\ (kind \in {"tx_rx", "rx"} => i # Size(kind))
      /\ row[i].stop <=> i = Size(kind)
      /\ row[i].what = "register" <=> i = 2 /\ kind # "rx"
      /\ row[i].what = "register" => row[i].byte = call.name
      /\ row[i].what = "value" <=> i = 3 /\ kind = "write"
      /\ row[i].what = "value" => row[i].byte = call.value
  <2>1. i \in 1 .. Size(kind) /\ kind \in Kinds
    BY <1>2, <1>3 DEF Types
  <2>2. row[i].what # "read"
    BY <1>2 DEF SendByte
  <2> QED
    BY <2>1, <2>2, RowEntry
<1>5. /\ core' = [core EXCEPT !.commands = core'.commands, !.state = core'.state]
      /\ core'.commands = Piece(row, i + 1, j)
      /\ core'.state = IF row[i].stop THEN "stopped" ELSE "started"
      /\ core'.data = core.data /\ core'.nack = core.nack
  BY <1>2, <1>3 DEF Types, SendByte, Sent
<1>6. core'.state = IF i + 1 > Size(kind) THEN "stopped" ELSE "started"
  BY <1>2, <1>4, <1>5
<1>7. /\ pointer' = IF i = 2 /\ kind # "rx" THEN call.name ELSE pointer
      /\ regs' = IF i = 3 /\ kind = "write" THEN [regs EXCEPT ![pointer] = call.value] ELSE regs
  BY <1>2, <1>4 DEF SendByte, Use
<1>8. call.name \in Registers /\ (kind = "write" => call.value \in Bytes)
  BY <1>1, <1>3 DEF Inv, CallOk, Calls
<1>9. Types' /\ CallOk' /\ HalfOk' /\ Transferring'
  <2>1. Types'
    BY <1>1, <1>3, <1>5, <1>7, <1>8 DEF Types, program
  <2>2. CallOk' /\ HalfOk' /\ Transferring'
    BY <1>1 DEF Inv, CallOk, HalfOk, Transferring, program
  <2> QED
    BY <2>1, <2>2
<1>10. i >= 3 => pointer = call.name
  BY <1>2 DEF Reached
<1>11. kind = "rx" => pointer = call.name
  BY <1>2 DEF Reached
<1>12. ~ (reading /\ i = Size(kind))
  BY <1>3, <1>4 DEF HalfOk
<1>13. core.data = <<>>
  BY <1>2 DEF Reached
<1>14. Reached(i + 1, j)'
  <2>1. kind = "write" /\ i + 1 = 4 => regs'[call.name] = call.value
    BY <1>3, <1>7, <1>8, <1>10 DEF Types
  <2>2. (kind = "rx" \/ i + 1 >= 3) => pointer' = call.name
    BY <1>7, <1>10, <1>11
  <2>3. i + 1 <= j /\ j <= End(kind, reading) + 1
        /\ todo = Piece(row, j, End(kind, reading) + 1)
        /\ (at = "send" => j <= End(kind, reading))
        /\ (at \in {"fetch", "drain"} => j = Size(kind) + 1)
        /\ ~ (at = "drain" /\ reading)
        /\ ~ (reading /\ i + 1 > Size(kind))
    BY <1>2, <1>12 DEF Reached
  <2> QED
    BY <1>1, <1>5, <1>6, <1>13, <2>1, <2>2, <2>3 DEF Reached, program
<1>15. TransferOk'
  BY <1>14 DEF TransferOk
<1>16. Answered'
  BY <1>1, <1>2, <1>5 DEF Inv, Answered, Reached, program
<1>17. RefusedOk' /\ NamedOk'
  BY <1>1, <1>5, <1>9 DEF RefusedOk, NamedOk
<1> QED
  BY <1>9, <1>15, <1>16, <1>17, DuringTransfer

LEMMA RefuseByteHolds == Inv /\ RefuseByte => Inv'
<1> SUFFICES ASSUME Inv, RefuseByte PROVE Inv'
  OBVIOUS
<1> DEFINE row == Row(call, kind)
<1>1. Transferring /\ ~ core.nack /\ result = "none" /\ UNCHANGED program
  BY Sending DEF RefuseByte
<1>2. PICK i \in 1 .. 4, j \in 1 .. 5 :
        /\ Reached(i, j) /\ i < j /\ i <= Size(kind) /\ Size(kind) \in {2, 3, 4}
        /\ Head(core.commands) = row[i]
  BY Sending DEF RefuseByte
<1>3. Types /\ call \in Calls
  BY Sending DEF Inv, RefuseByte
<1>4. /\ row[i].what = "register" <=> i = 2 /\ kind # "rx"
      /\ row[i].what = "register" => row[i].byte = call.name
      /\ row[i].what = "value" <=> i = 3 /\ kind = "write"
      /\ row[i].what = "value" => row[i].byte = call.value
  <2>1. i \in 1 .. Size(kind) /\ kind \in Kinds
    BY <1>2, <1>3 DEF Types
  <2> QED
    BY <2>1, RowEntry
<1>5. /\ core' = [core EXCEPT !.state = "stopped", !.commands = <<>>, !.data = <<>>, !.nack = TRUE]
      /\ core'.state = "stopped" /\ core'.commands = <<>> /\ core'.data = <<>> /\ core'.nack = TRUE
  BY <1>3 DEF Types, RefuseByte
<1>6. /\ pointer' = pointer \/ (pointer' = call.name /\ kind # "rx")
      /\ regs' = regs \/ (regs' = [regs EXCEPT ![pointer] = call.value] /\ kind = "write")
  BY <1>2, <1>4 DEF RefuseByte, Use
<1>7. call.name \in Registers /\ (kind = "write" => call.value \in Bytes)
  BY <1>1, <1>3 DEF Inv, CallOk, Calls
<1>8. Types' /\ CallOk' /\ HalfOk' /\ Transferring'
  <2>1. Types'
    BY <1>1, <1>3, <1>5, <1>6, <1>7 DEF Types, program
  <2>2. CallOk' /\ HalfOk' /\ Transferring'
    BY <1>1 DEF Inv, CallOk, HalfOk, Transferring, program
  <2> QED
    BY <2>1, <2>2
<1>9. RefusedOk' /\ TransferOk' /\ Answered'
  BY <1>5 DEF RefusedOk, TransferOk, Answered
<1>10. NamedOk'
  BY <1>1, <1>2, <1>6 DEF NamedOk, Reached, program
<1> QED
  BY <1>8, <1>9, <1>10, DuringTransfer

LEMMA ReadByteHolds == Inv /\ ReadByte => Inv'
<1> SUFFICES ASSUME Inv, ReadByte PROVE Inv'
  OBVIOUS
<1> DEFINE row == Row(call, kind)
<1>1. Transferring /\ ~ core.nack /\ result = "none" /\ UNCHANGED <<program, regs>>
  BY Sending DEF ReadByte
<1>2. PICK i \in 1 .. 4, j \in 1 .. 5 :
        /\ Reached(i, j) /\ i < j /\ i <= Size(kind) /\ Size(kind) \in {2, 3, 4}
        /\ Head(core.commands) = row[i] /\ Tail(core.commands) = Piece(row, i + 1, j)
  BY Sending DEF ReadByte
<1>3. Types /\ HalfOk
  BY DEF Inv
<1>4. i = Size(kind) /\ kind \in {"tx_rx", "rx"} /\ row[i].stop
  <2>1. i \in 1 .. Size(kind) /\ kind \in Kinds
    BY <1>2, <1>3 DEF Types
  <2>2. row[i].what = "read"
    BY <1>2 DEF ReadByte
  <2> QED
    BY <2>1, <2>2, RowEntry
<1>5. j = Size(kind) + 1 /\ reading /\ at # "drain" /\ End(kind, reading) = Size(kind)
  <2>1. j <= End(kind, reading) + 1 /\ (at = "drain" /\ reading => i = Size(kind) + 1)
    BY <1>2 DEF Reached
  <2>2. End(kind, reading) <= Size(kind) /\ End(kind, reading) \in {2, 3, 4}
    BY <1>3, Sizes
  <2>3. reading
    BY <1>2, <1>3, <1>4, <2>1 DEF HalfOk, End, Size
  <2>4. End(kind, reading) = Size(kind) /\ j = Size(kind) + 1
    BY <1>2, <1>4, <2>1, <2>2
  <2>5. at # "drain"
    BY <1>2, <1>4, <2>1, <2>3
  <2> QED
    BY <2>3, <2>4, <2>5
<1>6. pointer = call.name /\ core.data = <<>>
  BY <1>2, <1>4, <1>5 DEF Reached, Size
<1>7. /\ core' = [core EXCEPT !.commands = core'.commands, !.state = core'.state,
                              !.data = core'.data]
      /\ core'.commands = Piece(row, i + 1, j) /\ core'.state = "stopped"
      /\ core'.data = Append(core.data, regs[pointer]) /\ core'.nack = core.nack
  BY <1>2, <1>3, <1>4 DEF Types, ReadByte, Sent
<1>8. core'.data = <<regs[call.name]>>
  BY <1>6, <1>7
<1>9. Types' /\ CallOk' /\ HalfOk' /\ Transferring'
  <2>1. Types'
    BY <1>1, <1>3, <1>7 DEF Types, program, ReadByte
  <2>2. CallOk' /\ HalfOk' /\ Transferring'
    BY <1>1 DEF Inv, CallOk, HalfOk, Transferring, program
  <2> QED
    BY <2>1, <2>2
<1>10. Reached(i + 1, j)'
  <2>1. i + 1 = j /\ i + 1 > Size(kind) /\ j = End(kind, reading) + 1 /\ kind # "write"
    BY <1>2, <1>4, <1>5
  <2>2. todo = Piece(row, j, End(kind, reading) + 1) /\ (at = "send" => j <= End(kind, reading))
    BY <1>2 DEF Reached
  <2>3. UNCHANGED <<call, kind, at, todo, reading, regs>>
    BY <1>1 DEF program
  <2>4. core'.data = <<regs'[call'.name]>> /\ core'.commands = Piece(Row(call', kind'), i + 1, j)
        /\ core'.state = "stopped"
    BY <1>7, <1>8, <2>3
  <2>5. todo' = Piece(Row(call', kind'), j, End(kind', reading') + 1)
        /\ (at' = "send" => j <= End(kind', reading'))
    BY <2>2, <2>3
  <2>6. i + 1 > Size(kind') /\ ~ (i + 1 <= Size(kind')) /\ j = Size(kind') + 1
        /\ i + 1 <= j /\ j <= End(kind', reading') + 1
    <3>1. Size(kind') = Size(kind) /\ End(kind', reading') = Size(kind)
      BY <1>5, <2>3
    <3>2. i + 1 > Size(kind) /\ ~ (i + 1 <= Size(kind)) /\ j = Size(kind) + 1 /\ i + 1 <= j
          /\ j <= Size(kind) + 1
      BY <1>2, <1>4, <1>5
    <3> QED
      BY <3>1, <3>2
  <2>7. reading' /\ at' # "drain" /\ kind' # "write"
    BY <1>5, <2>1, <2>3
  <2> QED
    BY <2>4, <2>5, <2>6, <2>7 DEF Reached
<1>11. TransferOk'
  BY <1>10 DEF TransferOk
<1>12. RefusedOk' /\ Answered' /\ NamedOk'
  BY <1>1, <1>5, <1>7, <1>9 DEF RefusedOk, Answered, NamedOk, program
<1> QED
  BY <1>9, <1>11, <1>12, DuringTransfer

LEMMA NextHolds == Inv /\ [Next]_vars => Inv'
<1> SUFFICES ASSUME Inv, [Next]_vars PROVE Inv'
  OBVIOUS
<1>1. CASE UNCHANGED vars
  BY <1>1 DEF vars, program, Inv, Types, CallOk, HalfOk, FreeOk, Free, ClearOk, TodoOk, RefusedOk,
              TransferOk, Transferring, Reached, Answered, OutcomeOk, Outcome, NamedOk
<1>2. CASE Begin
  BY <1>2, BeginHolds
<1>3. CASE Hal
  BY <1>3, EnableHolds, ClearInterruptsHolds, SendCommandHolds, CheckNackHolds, FetchHolds,
     DrainHolds DEF Hal
<1>4. CASE Interface
  BY <1>4, TryAgainHolds, SucceedHolds, ReadInTwoHolds, NextRoundHolds DEF Interface
<1>5. CASE Core
  BY <1>5, SendByteHolds, RefuseByteHolds, ReadByteHolds DEF Core
<1> QED
  BY <1>1, <1>2, <1>3, <1>4, <1>5 DEF Next

LEMMA Invariance == Spec => []Inv
BY InitHolds, NextHolds, PTL DEF Spec

\* Whatever became of the try before it, a try of alt_avalon_i2c_master_tx, _rx or _tx_rx
\* finds the core disabled and both queues empty.
THEOREM CoreIsFree == Spec => []CoreFree
<1>1. Inv => CoreFree
  BY DEF Inv, CallOk, FreeOk, Free, CoreFree
<1> QED
  BY <1>1, Invariance, PTL

(***************************************************************************)
(* Every step is one that CameraSettings allows, or changes nothing there. *)
(***************************************************************************)
LEMMA InitAllowed == Init => Port!Init
BY DEF Init, Port!Init

LEMMA BeginAllowed == Begin => Port!Next
<1> SUFFICES ASSUME Begin PROVE Port!Begin
  BY DEF Port!Next
<1>1. result # "none" /\ result' = "none" /\ answer' = {} /\ regs' = regs
  BY DEF Begin
<1> QED
  BY <1>1 DEF Port!Begin, AnyByte

\* A call that goes on, or ends, while the registers keep their contents.
LEMMA CallAllowed ==
  ASSUME Inv, result = "none", UNCHANGED <<regs, call>>,
         result' \in {"none", "failed", "ok"},
         call.op = "set" => UNCHANGED answer,
         result' = "ok" => IF call.op = "set" THEN regs[call.name] = call.value
                                              ELSE answer' = regs[call.name]
  PROVE  Port!Next
<1>1. call \in Calls
  BY DEF Inv, CallOk
<1>2. CASE call.op = "set"
  <2>1. Port!Towards(call.name, call.value)
    BY DEF Port!Towards
  <2> QED
    BY <1>2, <2>1 DEF Port!Next, Port!Set
<1>3. CASE call.op = "get"
  BY <1>3 DEF Port!Next, Port!Get
<1> QED
  BY <1>1, <1>2, <1>3 DEF Calls

LEMMA FetchAllowed == Inv /\ Fetch => Port!Next
<1> SUFFICES ASSUME Inv, Fetch PROVE Port!Next
  OBVIOUS
<1>1. result = "none" /\ result' = "none" /\ UNCHANGED <<regs, call>>
  BY DEF Inv, CallOk, Fetch, Goto
<1>2. call.op # "set"
  <2>1. kind \in {"tx_rx", "rx"}
    BY DEF Fetch, Inv, HalfOk
  <2> QED
    BY <1>1, <2>1 DEF Inv, CallOk
<1> QED
  BY <1>1, <1>2, CallAllowed

LEMMA SucceedAllowed == Inv /\ Succeed => Port!Next
<1> SUFFICES ASSUME Inv, Succeed PROVE Port!Next
  OBVIOUS
<1>1. at = "return" /\ result = "none" /\ status = "success" /\ result' = "ok"
      /\ kind # "tx" /\ UNCHANGED <<regs, call, answer>>
  BY DEF Succeed, HalDone
<1>2. Outcome /\ kind \in Kinds /\ (call.op = "set" <=> kind = "write")
  BY <1>1 DEF Inv, OutcomeOk, Types, CallOk
<1>3. IF call.op = "set" THEN regs[call.name] = call.value ELSE answer = regs[call.name]
  BY <1>1, <1>2 DEF Outcome, Kinds
<1> QED
  BY <1>1, <1>3, CallAllowed

LEMMA NextRoundAllowed == Inv /\ NextRound => Port!Next
<1> SUFFICES ASSUME Inv, NextRound PROVE Port!Next
  OBVIOUS
<1>1. result = "none" /\ result' \in {"none", "failed"} /\ UNCHANGED <<regs, call, answer>>
  BY DEF NextRound, HalDone
<1> QED
  BY <1>1, CallAllowed

\* A byte that is used changes the register that the call names, to its value.
LEMMA UseAllowed ==
  ASSUME Inv, Active, UNCHANGED program, Use(Head(core.commands)) \/ UNCHANGED <<regs, pointer>>
  PROVE  Port!Next
<1> DEFINE row == Row(call, kind)
<1>1. result = "none" /\ call \in Calls /\ (call.op = "set" <=> kind = "write")
  BY Sending
<1>2. UNCHANGED <<result, call, answer>>
  BY DEF program
<1>3. PICK i \in 1 .. 4, j \in 1 .. 5 :
        Reached(i, j) /\ i <= Size(kind) /\ Size(kind) \in {2, 3, 4} /\ Head(core.commands) = row[i]
  BY Sending
<1>4. /\ row[i].what = "value" <=> i = 3 /\ kind = "write"
      /\ row[i].what = "value" => row[i].byte = call.value
  <2>1. i \in 1 .. Size(kind) /\ kind \in Kinds
    BY <1>3 DEF Inv, Types
  <2> QED
    BY <2>1, RowEntry
<1>5. CASE regs' = regs
  BY <1>1, <1>2, <1>5, CallAllowed
<1>6. CASE regs' = [regs EXCEPT ![pointer] = call.value] /\ i = 3 /\ kind = "write"
  <2>1. pointer = call.name
    BY <1>3, <1>6 DEF Reached
  <2>2. regs'[call.name] = call.value /\ \A m \in Registers \ {call.name} : regs'[m] = regs[m]
    <3>1. call.name \in Registers /\ regs \in [Registers -> Bytes]
      BY <1>1 DEF Inv, Types, Calls
    <3> QED
      BY <1>6, <2>1, <3>1
  <2>3. Port!Towards(call.name, call.value)
    BY <2>2 DEF Port!Towards
  <2> QED
    BY <1>1, <1>2, <1>6, <2>3 DEF Port!Next, Port!Set
<1>7. regs' = regs \/ (regs' = [regs EXCEPT ![pointer] = call.value] /\ i = 3 /\ kind = "write")
  BY <1>3, <1>4 DEF Use
<1> QED
  BY <1>5, <1>6, <1>7

LEMMA NextAllowed == Inv /\ [Next]_vars => [Port!Next]_(Port!vars)
<1> SUFFICES ASSUME Inv, [Next]_vars PROVE [Port!Next]_(Port!vars)
  OBVIOUS
<1>1. UNCHANGED <<regs, call, result, answer>> => UNCHANGED Port!vars
  BY DEF Port!vars
<1>2. CASE UNCHANGED vars
  BY <1>1, <1>2 DEF vars, program
<1>3. CASE Begin
  BY <1>3, BeginAllowed
<1>4. CASE Hal
  <2>1. CASE Enable \/ ClearInterrupts \/ SendCommand \/ CheckNack \/ Drain
    BY <1>1, <2>1 DEF Enable, ClearInterrupts, SendCommand, CheckNack, Drain, Goto
  <2> QED
    BY <1>4, <2>1, FetchAllowed DEF Hal
<1>5. CASE Interface
  <2>1. CASE TryAgain \/ ReadInTwo
    BY <1>1, <2>1 DEF TryAgain, ReadInTwo
  <2> QED
    BY <1>5, <2>1, SucceedAllowed, NextRoundAllowed DEF Interface
<1>6. CASE Core
  <2>1. CASE ReadByte
    BY <1>1, <2>1 DEF ReadByte, program
  <2>2. CASE SendByte \/ RefuseByte
    BY <2>2, UseAllowed DEF SendByte, RefuseByte
  <2> QED
    BY <1>6, <2>1, <2>2 DEF Core
<1> QED
  BY <1>2, <1>3, <1>4, <1>5, <1>6 DEF Next

\* A register call of the interface changes the register it names only, towards its value,
\* and reports success only when it has done or read what it should.
THEOREM PortImplemented == Spec => ImplementsPort
BY InitAllowed, InitHolds, NextHolds, NextAllowed, PTL DEF Spec, ImplementsPort, Port!Spec

(***************************************************************************)
(* Refusals.  Each try that is used up has seen one.                       *)
(***************************************************************************)
Ways == IF call.op = "get" THEN 2 ELSE 1

\* The try that is being made has been refused.
Nacked == (Transferring /\ core.nack) \/ (at = "return" /\ status = "nack")

InRound == (IF kind \in {"tx", "rx"} THEN HalRetries ELSE 0) + tries + (IF Nacked THEN 1 ELSE 0)

Counted ==
  /\ tries \in Nat /\ rounds \in Nat /\ refused \in Nat
  /\ result = "none" =>
       /\ at = "return" => status \in {"success", "nack"}
       /\ rounds < SccbRetries
       /\ refused >= (HalRetries * Ways) * rounds + InRound
  /\ FailedForCause

LEMMA Numbers ==
  /\ HalRetries \in Nat /\ HalRetries >= 1 /\ SccbRetries \in Nat /\ SccbRetries >= 1
  /\ Ways \in {1, 2} /\ HalRetries * Ways \in Nat
  /\ HalRetries * Ways = IF call.op = "get" THEN HalRetries + HalRetries ELSE HalRetries
BY RetriesAssumption DEF Ways

\* A round has seen as many refusals as it may have tries.
LEMMA RoundAdded ==
  ASSUME NEW p \in Nat, NEW r \in Nat
  PROVE  p * r \in Nat /\ p * (r + 1) = p * r + p /\ p * 0 = 0
OBVIOUS

LEMMA InitCounted == Init => Counted
BY DEF Init, Counted, FailedForCause

LEMMA BeginCounted == Inv /\ Counted /\ Begin => Counted'
<1> SUFFICES ASSUME Inv, Counted, Begin PROVE Counted'
  OBVIOUS
<1>1. tries' = 0 /\ rounds' = 0 /\ refused' = 0 /\ result' = "none" /\ at' = "enable"
      /\ kind' \in {"write", "tx_rx"}
  BY DEF Begin, Try
<1>2. InRound' = 0
  BY <1>1 DEF InRound, Nacked, Transferring
<1>3. Ways' \in {1, 2} /\ HalRetries \in Nat /\ SccbRetries >= 1
  BY RetriesAssumption DEF Ways
<1>4. (HalRetries * Ways') * rounds' = 0
  <2>1. \A w \in {1, 2} : HalRetries * w \in Nat
    BY RetriesAssumption
  <2>2. HalRetries * Ways' \in Nat
    BY <1>3, <2>1, Zenon
  <2> QED
    BY <1>1, <2>2, RoundAdded
<1>5. refused' >= (HalRetries * Ways') * rounds' + InRound'
  BY <1>1, <1>2, <1>4
<1> QED
  BY <1>1, <1>3, <1>5, Numbers DEF Counted, FailedForCause

\* A step of a try that keeps the counts.
LEMMA StepCounted ==
  ASSUME Inv, Counted, result = "none", UNCHANGED <<call, kind, tries, rounds, result, refused>>,
         Nacked' => Nacked, at' = "return" => status' \in {"success", "nack"}
  PROVE  Counted'
<1>1. Ways' = Ways /\ rounds' = rounds
  BY DEF Ways
<1>2. InRound' <= InRound /\ InRound \in Nat /\ InRound' \in Nat
  BY Numbers DEF InRound, Counted
<1>3. (HalRetries * Ways) * rounds \in Nat
  BY Numbers, RoundAdded DEF Counted
<1>4. refused' >= (HalRetries * Ways') * rounds' + InRound'
  BY <1>1, <1>2, <1>3 DEF Counted
<1> QED
  BY <1>4 DEF Counted, FailedForCause

LEMMA HalCounted == Inv /\ Counted /\ Hal => Counted'
<1> SUFFICES ASSUME Inv, Counted, Hal PROVE Counted'
  OBVIOUS
<1>0. result = "none" /\ UNCHANGED <<call, kind, tries, rounds, result, refused>> /\ Types
  BY DEF Inv, CallOk, Hal, Enable, ClearInterrupts, SendCommand, CheckNack, Fetch, Drain, Goto
<1>1. CASE Enable
  <2>1. at = "enable" /\ at' = "clear"
    BY <1>1 DEF Inv, FreeOk, Free, Enable, Goto
  <2> QED
    BY <1>0, <2>1, StepCounted DEF Nacked, Transferring
<1>2. CASE ClearInterrupts
  <2>1. at' = "send" /\ core'.nack = FALSE
    BY <1>0, <1>2 DEF ClearInterrupts, Goto, Types
  <2> QED
    BY <1>0, <2>1, StepCounted DEF Nacked, Transferring
<1>3. CASE SendCommand \/ CheckNack \/ Fetch
  <2>1. at \in {"send", "check", "fetch"} /\ at' \in {"send", "check", "fetch", "drain"}
        /\ core'.nack = core.nack
    BY <1>0, <1>3 DEF SendCommand, CheckNack, Fetch, Goto, Types
  <2> QED
    BY <1>0, <2>1, StepCounted DEF Nacked, Transferring
<1>4. CASE Drain
  <2>1. at = "drain" /\ at' = "return" /\ (status' = "nack" => core.nack \/ status = "nack")
        /\ status' = IF core.nack THEN "nack" ELSE status
    BY <1>4 DEF Drain, Goto
  <2>2. ~ core.nack => status = "success"
    BY <2>1 DEF Inv, Answered
  <2> QED
    BY <1>0, <2>1, <2>2, StepCounted DEF Nacked, Transferring
<1> QED
  BY <1>1, <1>2, <1>3, <1>4 DEF Hal

LEMMA CoreCounted == Inv /\ Counted /\ Core => Counted'
<1> SUFFICES ASSUME Inv, Counted, Core PROVE Counted'
  OBVIOUS
<1>1. Active /\ UNCHANGED program
  BY DEF Core, SendByte, RefuseByte, ReadByte
<1>2. Transferring /\ ~ core.nack /\ result = "none" /\ at # "return"
  BY <1>1, Sending DEF Transferring
<1>3. UNCHANGED <<call, kind, at, tries, rounds, result, status>>
  BY <1>1 DEF program
<1>4. CASE SendByte \/ ReadByte
  <2>1. core'.nack = core.nack /\ refused' = refused
    BY <1>4 DEF SendByte, ReadByte, Sent, Inv, Types
  <2> QED
    BY <1>2, <1>3, <2>1, StepCounted DEF Nacked, Transferring
<1>5. CASE RefuseByte
  <2>1. refused' = refused + 1
    BY <1>5 DEF RefuseByte
  <2>2. Ways' = Ways /\ rounds' = rounds
    BY <1>3 DEF Ways
  <2>3. ~ Nacked
    BY <1>2 DEF Nacked
  <2>4. InRound' <= InRound + 1 /\ InRound \in Nat /\ InRound' \in Nat
    BY <1>3, <2>3, Numbers DEF InRound, Counted
  <2>5. (HalRetries * Ways) * rounds \in Nat
    BY Numbers, RoundAdded DEF Counted
  <2>6. refused' >= (HalRetries * Ways') * rounds' + InRound'
    BY <1>2, <2>1, <2>2, <2>4, <2>5 DEF Counted
  <2> QED
    BY <1>2, <1>3, <2>1, <2>6 DEF Counted, FailedForCause
<1> QED
  BY <1>4, <1>5 DEF Core

LEMMA InterfaceCounted == Inv /\ Counted /\ Interface => Counted'
<1> SUFFICES ASSUME Inv, Counted, Interface PROVE Counted'
  OBVIOUS
<1>1. at = "return" /\ result = "none" /\ status \in {"success", "nack"}
      /\ UNCHANGED <<call, status, refused>>
  BY DEF Counted, Interface, TryAgain, Succeed, ReadInTwo, NextRound, HalDone
<1>2. tries \in Nat /\ rounds \in Nat /\ refused \in Nat /\ rounds < SccbRetries
      /\ refused >= (HalRetries * Ways) * rounds + InRound
  BY <1>1 DEF Counted
<1> DEFINE before == (HalRetries * Ways) * rounds
<1>3. before \in Nat /\ (HalRetries * Ways) * (rounds + 1) = before + HalRetries * Ways
  BY <1>2, Numbers, RoundAdded
<1>4. Ways' = Ways
  BY <1>1 DEF Ways
<1>5. Nacked <=> status = "nack"
  BY <1>1 DEF Nacked, Transferring
<1> HIDE DEF before
<1>6. refused >= before + InRound
  BY <1>2 DEF before
<1>7. CASE TryAgain
  <2>1. status = "nack" /\ tries' = tries + 1 /\ kind' = kind /\ rounds' = rounds
        /\ at' = "enable" /\ result' = "none"
    BY <1>1, <1>7 DEF TryAgain, MayTryAgain, Try
  <2>2. InRound' = InRound
    BY <1>2, <1>5, <2>1, Numbers DEF InRound, Nacked, Transferring
  <2>3. refused' >= (HalRetries * Ways') * rounds' + InRound'
    BY <1>1, <1>2, <1>4, <2>1, <2>2
  <2> QED
    BY <1>1, <1>2, <2>1, <2>3 DEF Counted, FailedForCause
<1>8. CASE Succeed
  BY <1>1, <1>2, <1>8 DEF Succeed, Counted, FailedForCause
\* The tries of the HAL are used up when they end with a refusal.
<1>9. HalDone /\ status # "success" =>
        InRound >= (IF kind \in {"tx", "rx"} THEN HalRetries ELSE 0) + HalRetries
  BY <1>1, <1>2, <1>5, Numbers DEF HalDone, MayTryAgain, InRound
<1>10. CASE ReadInTwo
  <2>1. kind' \in {"tx", "rx"} /\ tries' = 0 /\ rounds' = rounds /\ at' = "enable" /\ result' = "none"
    BY <1>1, <1>10 DEF ReadInTwo, Try
  <2>2. InRound' = HalRetries
    BY <2>1, Numbers DEF InRound, Nacked, Transferring
  <2>3. InRound >= HalRetries /\ InRound \in Nat
    <3>1. InRound \in Nat
      BY <1>2, Numbers DEF InRound
    <3>2. CASE kind = "tx_rx" /\ status # "success"
      <4>1. HalDone /\ kind \notin {"tx", "rx"}
        BY <1>10, <3>2 DEF ReadInTwo
      <4> QED
        BY <1>9, <3>1, <3>2, <4>1, Numbers
    <3>3. CASE kind = "tx"
      BY <1>2, <3>3, Numbers DEF InRound
    <3> QED
      BY <1>10, <3>1, <3>2, <3>3 DEF ReadInTwo
  <2>4. refused' >= (HalRetries * Ways') * rounds' + InRound'
    BY <1>1, <1>2, <1>3, <1>4, <1>6, <2>1, <2>2, <2>3, Numbers DEF before
  <2> QED
    BY <1>1, <1>2, <2>1, <2>4 DEF Counted, FailedForCause
<1>11. CASE NextRound
  <2>1. HalDone /\ status # "success" /\ kind # "tx_rx" /\ rounds' = rounds + 1 /\ tries' = 0
    BY <1>11 DEF NextRound
  <2>2. InRound >= HalRetries * Ways /\ InRound \in Nat
    <3>1. kind \in Kinds /\ call \in Calls /\ (call.op = "set" <=> kind = "write")
      BY <1>1 DEF Inv, Types, CallOk
    <3>2. call.op = "get" <=> kind \in {"tx", "rx"}
      BY <2>1, <3>1 DEF Kinds, Calls
    <3>3. InRound \in Nat
      BY <1>2, Numbers DEF InRound
    <3> QED
      BY <1>9, <2>1, <3>2, <3>3, Numbers
  <2>3. refused' >= (HalRetries * Ways) * rounds'
    BY <1>1, <1>2, <1>3, <1>6, <2>1, <2>2, Numbers
  <2>4. CASE rounds' < SccbRetries
    <3>1. at' = "enable" /\ kind' \in {"write", "tx_rx"} /\ result' = "none"
      BY <1>1, <1>11, <2>4 DEF NextRound, Try
    <3>2. InRound' = 0
      BY <2>1, <3>1 DEF InRound, Nacked, Transferring
    <3>3. (HalRetries * Ways) * rounds' \in Nat
      BY <1>2, <2>1, Numbers, RoundAdded
    <3>4. refused' >= (HalRetries * Ways') * rounds' + InRound'
      BY <1>1, <1>2, <1>4, <2>3, <3>2, <3>3
    <3> QED
      BY <1>1, <1>2, <2>1, <2>4, <3>1, <3>4 DEF Counted, FailedForCause
  <2>5. CASE ~ (rounds' < SccbRetries)
    <3>1. rounds' = SccbRetries /\ result' = "failed"
      BY <1>2, <1>11, <2>1, <2>5, Numbers DEF NextRound
    <3>2. (HalRetries * Ways) * SccbRetries = SccbRetries * HalRetries * Ways
      BY Numbers
    <3>3. refused' >= SccbRetries * HalRetries * Ways'
      BY <1>4, <2>3, <3>1, <3>2
    <3> QED
      BY <1>1, <1>2, <2>1, <3>1, <3>3 DEF Counted, FailedForCause, Ways
  <2> QED
    BY <2>4, <2>5
<1> QED
  BY <1>7, <1>8, <1>10, <1>11 DEF Interface

LEMMA NextCounted == Inv /\ Counted /\ [Next]_vars => Counted'
<1>1. Counted /\ UNCHANGED vars => Counted'
  BY DEF Counted, FailedForCause, InRound, Nacked, Transferring, Ways, vars, program
<1> QED
  BY <1>1, BeginCounted, HalCounted, InterfaceCounted, CoreCounted DEF Next

\* When a call of the interface fails, its slave has refused a byte in each of the tries
\* that the HAL and the interface allow.
THEOREM FailureHasCause == Spec => []FailedForCause
<1>1. Counted => FailedForCause
  BY DEF Counted
<1> QED
  BY <1>1, InitHolds, NextHolds, InitCounted, NextCounted, PTL DEF Spec
=============================================================================
