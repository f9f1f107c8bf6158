--------------------------- MODULE LineReaderProofs ---------------------------
(***************************************************************************)
(* The display's reader and the arbiter it shares the SRAM through: how long *)
(* a write waits, for any geometry; and that the pixels declared good are   *)
(* right, for any geometry in which a display line is long and short enough *)
(* for the race at the top of a scan to go as it does (RaceAssumption).      *)
(***************************************************************************)
EXTENDS LineReader, TLAPS

(* How long a write has waited, against how far the fetch has come: an        *)
(* access takes two clocks, the reader can ask again in the second, and it   *)
(* asks for no more than the words of a line.                              *)
WaitInv ==
  /\ fill_x \in 0 .. LastWord /\ starved \in Nat
  /\ state \in {"IDLE", "READ", "WRITE"}
  /\ state = "READ" => /\ ~mem_rd_req /\ starved <= 2 * LineWords
                       /\ fill_active /\ ~line_done_pending => starved <= 2 * fill_x
  /\ state = "WRITE" => starved = 0
  /\ state = "IDLE" => /\ starved <= 2 * LineWords + 1
                       /\ rd_req => starved <= 2 * fill_x + 1

LEMMA WaitInit == Init => WaitInv
  BY TimingAssumption DEF Init, WaitInv, LastWord, rd_req

(* The fetch's counter: on with an accepted word, back with a new line.       *)
LEMMA FetchStep ==
  ASSUME WaitInv, Fill, Request
  PROVE  /\ fill_x' \in 0 .. LastWord
         /\ rd_accepted => /\ ~mem_rd_req'
                           /\ fill_x' = IF fill_x = LastWord THEN LastWord ELSE fill_x + 1
                           /\ fill_x = LastWord => ~fill_active' \/ line_done_pending'
         /\ ~mem_rd_req /\ mem_rd_req' =>
              /\ fill_active /\ ~line_done_pending
              /\ fill_x' = fill_x
  <1>1. LineWords \in Nat /\ LineWords >= 1 /\ LastWord = LineWords - 1 /\ fill_x \in 0 .. LastWord
    BY TimingAssumption DEF LastWord, WaitInv
  <1>2. fill_x' \in 0 .. LastWord
    BY <1>1 DEF Fill
  <1>3. ASSUME rd_accepted
        PROVE  /\ ~mem_rd_req'
               /\ fill_x' = IF fill_x = LastWord THEN LastWord ELSE fill_x + 1
               /\ fill_x = LastWord => ~fill_active' \/ line_done_pending'
    <2>1. mem_rd_req /\ ~StartFill
      BY <1>3 DEF rd_accepted, StartFill
    <2> QED BY <1>1, <1>3, <2>1 DEF Fill, Request, RequestNext
  <1>4. ASSUME ~mem_rd_req, mem_rd_req'
        PROVE  fill_active /\ ~line_done_pending /\ fill_x' = fill_x
    <2>1. RequestNext
      BY <1>4 DEF Request
    <2> QED BY <2>1 DEF Fill, RequestNext, StartFill
  <1> QED BY <1>2, <1>3, <1>4

LEMMA WaitStep == WaitInv /\ [Next]_vars => WaitInv'
  <1> SUFFICES ASSUME WaitInv, [Next]_vars PROVE WaitInv'
    OBVIOUS
  <1>1. LineWords \in Nat /\ LineWords >= 1 /\ LastWord = LineWords - 1
        /\ fill_x \in 0 .. LastWord /\ starved \in Nat
        /\ state \in {"IDLE", "READ", "WRITE"}
    BY TimingAssumption DEF LastWord, WaitInv
  <1>2. CASE UNCHANGED vars
    BY <1>2 DEF WaitInv, rd_req, vars, fill, arbiter, reads, offer
  <1>3. ASSUME NEW wr_valid \in BOOLEAN, Fill, Request, Arbitrate(wr_valid)
        PROVE  WaitInv'
    <2>1. fill_x' \in 0 .. LastWord
      BY <1>3, FetchStep
    <2>2. state' \in {"IDLE", "READ", "WRITE"} /\ starved' \in Nat
      BY <1>1, <1>3 DEF Arbitrate
    <2>small. \A n \in {0, 1} : n <= 2 * LineWords + 1 /\ n <= 2 * fill_x' + 1
      <3>1. fill_x' \in Nat
        BY <1>1, <2>1
      <3>2. \A k \in Nat : 0 <= 2 * k + 1 /\ 1 <= 2 * k + 1
        OBVIOUS
      <3> QED BY <1>1, <3>1, <3>2
    <2>3. CASE state = "IDLE" /\ rd_req
      <3>1. rd_accepted
        BY <2>3 DEF rd_accepted, rd_req
      <3>2. state' = "READ" /\ starved' = starved + 1
        BY <1>3, <2>3 DEF Arbitrate, wr_ready
      <3>3. starved <= 2 * fill_x + 1
        BY <2>3 DEF WaitInv
      <3>4. ~mem_rd_req' /\ starved' <= 2 * LineWords
            /\ (fill_active' /\ ~line_done_pending' => starved' <= 2 * fill_x')
        BY <1>1, <1>3, <3>1, <3>2, <3>3, FetchStep
      <3> QED BY <2>1, <2>2, <3>2, <3>4 DEF WaitInv
    <2>4. CASE state = "IDLE" /\ ~rd_req
      <3>1. starved' = 0 /\ state' # "READ"
        BY <1>3, <2>4 DEF Arbitrate, wr_ready
      <3>2. starved' <= 2 * LineWords + 1 /\ starved' <= 2 * fill_x' + 1
        BY <2>small, <3>1
      <3> QED BY <2>1, <2>2, <3>1, <3>2 DEF WaitInv
    <2>5. CASE state = "READ"
      <3>1. state' = "IDLE" /\ starved' = starved + 1
        BY <1>3, <2>5 DEF Arbitrate, wr_ready
      <3>2. ~mem_rd_req /\ starved <= 2 * LineWords
            /\ (fill_active /\ ~line_done_pending => starved <= 2 * fill_x)
        BY <2>5 DEF WaitInv
      <3>3. rd_req' => starved' <= 2 * fill_x' + 1
        BY <1>1, <1>3, <2>1, <3>1, <3>2, FetchStep DEF rd_req
      <3>4. starved' <= 2 * LineWords + 1
        BY <1>1, <3>1, <3>2
      <3> QED BY <2>1, <2>2, <3>1, <3>3, <3>4 DEF WaitInv
    <2>6. CASE state = "WRITE"
      <3>1. state' = "IDLE" /\ starved' = 1
        BY <1>3, <2>6 DEF Arbitrate, wr_ready, WaitInv
      <3>2. starved' <= 2 * LineWords + 1 /\ starved' <= 2 * fill_x' + 1
        BY <2>small, <3>1
      <3> QED BY <2>1, <2>2, <3>1, <3>2 DEF WaitInv
    <2> QED BY <1>1, <2>3, <2>4, <2>5, <2>6
  <1> QED BY <1>2, <1>3 DEF Next

(* A write waits for no more than the fetch of one line, whatever the length  *)
(* of a line, and wherever swaps break fetches off.                         *)
THEOREM WaitTheorem == Spec => []WriterWaitsOneLine
  <1>1. WaitInv => WriterWaitsOneLine
    BY TimingAssumption DEF WaitInv, WriterWaitsOneLine
  <1>2. Spec => []WaitInv
    BY WaitInit, WaitStep, PTL DEF Spec
  <1> QED BY <1>1, <1>2, PTL
-----------------------------------------------------------------------------
(* What the reader is doing.                                                *)

LW == LineWords
H == HTotal

(* The buffer the beam reads, the other one, and whether the line is good.    *)
Cur == pixel_buf_sel
Free == 1 - Cur
Lit == pixel_line_valid

VarsOK ==
  /\ draw_x \in 0 .. H - 1 /\ draw_y \in 0 .. VTotal - 1 /\ draw_x_d \in 0 .. H - 1
  /\ current_buf \in Buffers /\ current_valid \in BOOLEAN
  /\ buf_valid \in [Buffers -> BOOLEAN] /\ buf_y \in [Buffers -> Nat]
  /\ DOMAIN line_buf = Buffers /\ \A b \in Buffers : DOMAIN line_buf[b] = 0 .. LastWord
  /\ fill_active \in BOOLEAN /\ fill_buf \in Buffers /\ fill_y \in Nat /\ fill_x \in 0 .. LastWord
  /\ line_done_pending \in BOOLEAN
  /\ rd_x_hold \in 0 .. LastWord /\ rd_y_hold \in Nat /\ rd_buf_hold \in Buffers
  /\ mem_rd_req \in BOOLEAN /\ rd_valid \in BOOLEAN /\ state \in {"IDLE", "READ", "WRITE"}
  /\ pending_valid \in BOOLEAN /\ pending_consumed \in BOOLEAN /\ have_sram_frame \in BOOLEAN
  /\ scans \in 0 .. 2

(* No fetch under way, or one: about to ask for its first word, asking for    *)
(* it, or with the word rd_x_hold being read, or arriving.                  *)
Clear == ~fill_active /\ ~mem_rd_req /\ state # "READ" /\ ~rd_valid

Fresh ==
  ~mem_rd_req /\ state # "READ" /\ ~rd_valid /\ fill_x = 0 /\ ~line_done_pending
Asked ==
  mem_rd_req /\ state # "READ" /\ ~rd_valid /\ fill_x = 0 /\ ~line_done_pending
Took ==
  /\ rd_buf_hold = fill_buf /\ rd_y_hold = fill_y
  /\ line_done_pending <=> rd_x_hold = LastWord
  /\ fill_x = IF rd_x_hold = LastWord THEN LastWord ELSE rd_x_hold + 1
  /\ rd_x_hold >= 1 => buf_y[fill_buf] = fill_y
Reading == state = "READ" /\ ~rd_valid /\ ~mem_rd_req /\ Took
Arriving == state = "IDLE" /\ rd_valid /\ (mem_rd_req <=> rd_x_hold # LastWord) /\ Took

Fetching == fill_active /\ fill_y < Lines /\ (Fresh \/ Asked \/ Reading \/ Arriving)

(* How old a fetch is, in edges, from its state: one and a half for the first *)
(* word asked for, and two per word; a write that came before it costs one.  *)
Age == IF state = "READ" THEN 2 * rd_x_hold + 3
       ELSE IF rd_valid THEN 2 * rd_x_hold + 4
       ELSE IF ~mem_rd_req THEN 0
       ELSE IF state = "WRITE" THEN 1 ELSE 2

LastAge == 2 * LW + 2

(* Where in the current display line it began; before it if negative.         *)
BeganIn(lo, hi) ==
  /\ lo <= draw_x - Age /\ draw_x - Age <= hi
  /\ Age = 0 => lo < draw_x

Fetch(c, q, lo, hi) == Fetching /\ fill_buf = c /\ fill_y = q /\ BeganIn(lo, hi)
Rest(lo, hi) == Clear /\ lo <= draw_x /\ draw_x <= hi

(* The words are where they belong: those of a buffer that is good, and those *)
(* a fetch has brought so far; and its addresses are those of its line.      *)
Whole(b) ==
  \A x \in 0 .. LastWord : line_buf[b][x] = <<read_frame, buf_y[b], x>>

Stored == \A x \in 0 .. rd_x_hold - 1 : line_buf[fill_buf][x] = <<read_frame, fill_y, x>>

Addressed ==
  /\ Fresh => fill_addr = <<read_frame, fill_y, 0>>
  /\ Asked => fill_addr = <<read_frame, fill_y, 0>> /\ mem_rd_addr = <<read_frame, fill_y, 0>>
  /\ Reading => /\ SRAM_ADDR = <<read_frame, fill_y, rd_x_hold>> /\ Stored
                /\ rd_x_hold # LastWord => fill_addr = <<read_frame, fill_y, rd_x_hold + 1>>
  /\ Arriving => /\ rd_data = <<read_frame, fill_y, rd_x_hold>> /\ Stored
                 /\ rd_x_hold # LastWord => /\ mem_rd_addr = <<read_frame, fill_y, rd_x_hold + 1>>
                                            /\ fill_addr = <<read_frame, fill_y, rd_x_hold + 1>>

Content ==
  /\ Fetching => Addressed
  /\ \A b \in Buffers : buf_valid[b] /\ ~(fill_active /\ fill_buf = b) => Whole(b)
-----------------------------------------------------------------------------
(* The race at the top of a scan.  With no good buffer, line 0 is fetched,    *)
(* and at once line 1 over it, since the beam has not taken the buffer; so   *)
(* on, until a fetch is under way at a turn of the beam to the line it is    *)
(* fetching.  One disjunct per fetch and per edge at which the next begins.  *)

Old(c, y) == buf_valid[c] => buf_y[c] >= y
Refetch(d, q, lo, hi) == Fetch(d, q, lo, hi) /\ buf_valid[d]
Rested(d, q, lo, hi) == Rest(lo, hi) /\ Holds(d, q)

Race0(c, d) ==
  /\ Cur = c /\ draw_y = 0 /\ ~Lit /\ Old(c, 3)
  /\ \/ Rest(0, 1) /\ Old(d, 2)
     \/ Fetch(d, 0, 1, 3)
     \/ Rested(d, 0, 2 * LW + 4, 2 * LW + 6)
     \/ Refetch(d, 1, 2 * LW + 4, 2 * LW + 7)
Race1(c, d) ==
  /\ Cur = c /\ draw_y = 1 /\ ~Lit /\ Old(c, 3)
  /\ \/ Refetch(d, 1, 2 * LW + 4 - H, 2 * LW + 7 - H)
     \/ Rested(d, 1, 4 * LW + 7 - H, 4 * LW + 10 - H)
     \/ Refetch(d, 0, 4 * LW + 7 - H, 4 * LW + 11 - H)
Race2(c, d) ==
  /\ Cur = c /\ draw_y = 2 /\ ~Lit /\ Old(c, 3)
  /\ \/ Refetch(d, 0, 4 * LW + 7 - 2 * H, 4 * LW + 11 - 2 * H)
     \/ Rested(d, 0, 6 * LW + 10 - 2 * H, 6 * LW + 14 - 2 * H)
     \/ Refetch(d, 1, 6 * LW + 10 - 2 * H, 6 * LW + 15 - 2 * H)
Race3(c, d) ==
  /\ Cur = c /\ draw_y = 3 /\ Lit /\ Holds(c, 1)
  /\ \/ Fetch(c, 1, 6 * LW + 10 - 3 * H, 6 * LW + 15 - 3 * H) /\ Old(d, 3)
     \/ Rest(8 * LW + 13 - 3 * H, 8 * LW + 18 - 3 * H) /\ Old(d, 3)
     \/ Fetch(d, 2, 8 * LW + 13 - 3 * H, 8 * LW + 19 - 3 * H)
     \/ Rested(d, 2, 0, H - 1)
Race4(c, d) ==
  /\ Cur = c /\ draw_y = 4 /\ ~Lit /\ Holds(c, 1)
  /\ \/ Fetch(d, 2, 8 * LW + 13 - 4 * H, 8 * LW + 19 - 4 * H)
     \/ Rested(d, 2, 1, 10 * LW + 22 - 4 * H)
     \/ Refetch(d, 3, 1, 10 * LW + 23 - 4 * H)
     \/ Rested(d, 3, 2 * LW + 4, 12 * LW + 26 - 4 * H)
     \/ Refetch(d, 2, 2 * LW + 4, 12 * LW + 27 - 4 * H)

(* The race as it goes when the last word of a fetch for the store before     *)
(* comes just after the swap and makes its buffer good: line 1 is fetched     *)
(* first.                                                                  *)
Late0(c, d) ==
  /\ Cur = c /\ draw_y = 0 /\ ~Lit /\ ~buf_valid[c]
  /\ \/ Rested(d, 0, 1, 6)
     \/ Refetch(d, 1, 1, 7)
     \/ Rested(d, 1, 2 * LW + 4, 2 * LW + 10)
     \/ Refetch(d, 0, 2 * LW + 4, 2 * LW + 11)
Late1(c, d) ==
  /\ Cur = c /\ draw_y = 1 /\ Lit /\ Holds(c, 0) /\ ~buf_valid[d]
  /\ \/ Fetch(c, 0, 2 * LW + 4 - H, 2 * LW + 11 - H)
     \/ Rest(4 * LW + 7 - H, 4 * LW + 14 - H)
     \/ Fetch(d, 1, 4 * LW + 7 - H, 4 * LW + 15 - H)
Late2(c, d) ==
  /\ Cur = c /\ draw_y = 2 /\ ~Lit /\ Holds(c, 0)
  /\ \/ Fetch(d, 1, 4 * LW + 7 - 2 * H, 4 * LW + 15 - 2 * H)
     \/ Rested(d, 1, 6 * LW + 10 - 2 * H, 6 * LW + 18 - 2 * H)
     \/ Refetch(d, 2, 6 * LW + 10 - 2 * H, 6 * LW + 19 - 2 * H)
Late3(c, d) ==
  /\ Cur = c /\ draw_y = 3 /\ ~Lit /\ Holds(c, 0)
  /\ \/ Refetch(d, 2, 6 * LW + 10 - 3 * H, 6 * LW + 19 - 3 * H)
     \/ Rested(d, 2, 8 * LW + 13 - 3 * H, 8 * LW + 22 - 3 * H)
     \/ Refetch(d, 1, 8 * LW + 13 - 3 * H, 8 * LW + 23 - 3 * H)
     \/ Rested(d, 1, 10 * LW + 16 - 3 * H, 10 * LW + 26 - 3 * H)
     \/ Refetch(d, 2, 10 * LW + 16 - 3 * H, 10 * LW + 27 - 3 * H) /\ (Age < 5 => buf_y[d] = 1)
Late4(c, d) ==
  /\ Cur = c /\ draw_y = 4 /\ ~Lit /\ Holds(c, 0)
  /\ \/ Refetch(d, 1, 8 * LW + 13 - 4 * H, 8 * LW + 23 - 4 * H)
     \/ /\ Rested(d, 1, 0, 10 * LW + 27 - 4 * H)
        /\ draw_x = 0 => 4 * H <= 10 * LW + 26
     \/ Refetch(d, 2, 0 - 4, 10 * LW + 28 - 4 * H)
     \/ Rested(d, 2, 2 * LW - 1, 12 * LW + 31 - 4 * H)
     \/ Refetch(d, 3, 2 * LW - 1, 12 * LW + 32 - 4 * H)
Late5(c, d) ==
  /\ Cur = c /\ draw_y = 5 /\ ~Lit /\ Holds(c, 0)
  /\ \/ Refetch(d, 3, 2 * LW - 1 - H, 12 * LW + 32 - 5 * H)
     \/ Rested(d, 3, 4 * LW + 2 - H, 14 * LW + 35 - 5 * H)
     \/ Refetch(d, 2, 4 * LW + 2 - H, 14 * LW + 36 - 5 * H)
Late6(c, d) ==
  /\ Cur = c /\ draw_y = 6 /\ ~Lit /\ Holds(c, 0)
  /\ \/ Refetch(d, 2, 4 * LW + 2 - 2 * H, 14 * LW + 36 - 6 * H)
     \/ Rested(d, 2, 6 * LW + 5 - 2 * H, 16 * LW + 39 - 6 * H)
     \/ Refetch(d, 3, 6 * LW + 5 - 2 * H, 16 * LW + 40 - 6 * H)

(* The words of that fetch that are still on their way, in the first edges    *)
(* after the swap, and what the reader has begun meanwhile.                  *)
Orphan(d, n) == rd_buf_hold = d /\ rd_y_hold = 0 /\ (n = 0 => rd_x_hold = 0)
Begun(d, q) ==
  /\ fill_active /\ fill_buf = d /\ fill_y = q /\ fill_x = 0 /\ ~line_done_pending
  /\ fill_addr = <<read_frame, q, 0>>
Orphans(c, d) ==
  /\ Cur = c /\ draw_y = 0 /\ ~Lit /\ ~buf_valid[c]
  /\ \/ /\ draw_x \in 1 .. 2 /\ ~buf_valid[d] /\ Orphan(d, 1)
        /\ ~fill_active /\ ~mem_rd_req /\ state = "READ" /\ ~rd_valid
     \/ /\ draw_x = 1 /\ ~buf_valid[d] /\ Orphan(d, 1)
        /\ ~fill_active /\ state = "IDLE" /\ rd_valid
        /\ mem_rd_req <=> rd_x_hold # LastWord
        /\ fill_buf = d /\ fill_y = 0
     \/ /\ draw_x \in 2 .. 3 /\ ~buf_valid[d] /\ Orphan(d, 1)
        /\ Begun(d, 0) /\ ~mem_rd_req /\ state = "IDLE" /\ rd_valid
     \/ /\ draw_x \in 3 .. 5 /\ Holds(d, 0)
        /\ ~fill_active /\ mem_rd_req /\ state # "READ" /\ ~rd_valid
        /\ state = "WRITE" => draw_x <= 4
        /\ fill_x = 0 /\ fill_buf = d /\ fill_y = 0
     \/ /\ draw_x \in 4 .. 6 /\ Holds(d, 0) /\ Orphan(d, 0)
        /\ ~fill_active /\ ~mem_rd_req /\ state = "READ" /\ ~rd_valid
     \/ /\ draw_x \in 5 .. 7 /\ Holds(d, 0) /\ Orphan(d, 0)
        /\ Begun(d, 1) /\ ~mem_rd_req /\ state = "IDLE" /\ rd_valid

(* After the race each line is fetched while the one before it is shown.      *)
OldLine(d, p) == buf_y[d] < p /\ (p >= 4 => buf_y[d] = p - 1)
Steady(c, d, p) ==
  /\ Cur = c /\ draw_y \in {2 * p, 2 * p + 1} /\ p >= 2 /\ p < Lines
  /\ Lit /\ Holds(c, p) /\ buf_valid[d]
  /\ \/ Fetching /\ fill_buf = c /\ fill_y = p /\ draw_x + 5 <= Age /\ OldLine(d, p)
     \/ Clear /\ OldLine(d, p) /\ (p + 1 < Lines => draw_x <= 2 * LW - 2)
     \/ Fetching /\ fill_buf = d /\ fill_y = p + 1 /\ draw_x - Age <= 2 * LW - 1
     \/ Clear /\ p + 1 < Lines /\ Holds(d, p + 1)

(* Below the picture nothing is fetched.                                     *)
Blank(c, d) ==
  /\ Cur = c /\ draw_y >= 2 * Lines /\ ~Lit /\ Clear
  /\ Holds(c, Lines - 1) /\ Holds(d, Lines - 2)

Race(c, d) ==
  Race0(c, d) \/ Race1(c, d) \/ Race2(c, d) \/ Race3(c, d) \/ Race4(c, d)
Late(c, d) ==
  \/ Late0(c, d) \/ Late1(c, d) \/ Late2(c, d) \/ Late3(c, d)
  \/ Late4(c, d) \/ Late5(c, d) \/ Late6(c, d)
After(c, d) == Blank(c, d) \/ \E p \in 0 .. Lines : Steady(c, d, p)

(* The display has been enabled with an empty pair of buffers.                *)
Enabled == scans > 0 \/ read_frame # 0

(* A buffer made good by a word of the store before is never shown.           *)
Stale(c, d) == Late0(c, d) /\ Rested(d, 0, 1, 6)

EnabledInv ==
  /\ have_sram_frame /\ (draw_x = 0 => draw_x_d # 0)
  /\ \E c, d \in Buffers :
       /\ c # d
       /\ \/ (Race(c, d) \/ After(c, d)) /\ Content
          \/ scans < 2 /\ Late(c, d) /\ (Content \/ Stale(c, d))
          \/ scans < 2 /\ Orphans(c, d)

(* Before: one fetch waits for the display to be enabled, or has begun when    *)
(* it was, and the rest of the scan is as it may be.                        *)
Waiting ==
  /\ current_buf = 0 /\ \A b \in Buffers : ~buf_valid[b]
  /\ \/ Clear /\ draw_x = 0 /\ draw_y = 0 /\ draw_x_d = 0 /\ ~have_sram_frame
     \/ /\ Fetching /\ fill_buf = 1 /\ fill_y = 0
        /\ draw_x = 0 => draw_x_d # 0
        /\ Fresh => draw_y = 0 /\ draw_x > 0
        /\ ~have_sram_frame => Fresh \/ Asked
Partial ==
  /\ have_sram_frame /\ (draw_x = 0 => draw_x_d # 0)
  /\ \/ Clear
     \/ Fetching /\ (draw_y = 0 => draw_x # 0) /\ draw_y <= 2 * Lines
        /\ (draw_y = 2 * Lines => draw_x <= Age)

FirstInv ==
  /\ ~pending_consumed /\ (have_sram_frame => pending_valid)
  /\ pending_valid => pending_frame = 1
  /\ Waiting \/ Partial

ReaderInv ==
  /\ VarsOK
  /\ IF Enabled THEN EnabledInv ELSE FirstInv
-----------------------------------------------------------------------------
(* The frame of every step lemma: what the variables range over.              *)

LEMMA Geometry ==
  /\ LW \in Nat /\ LW >= 22 /\ H \in Nat /\ H > 2 * LW + 11
  /\ 5 * H >= 12 * LW + 40 /\ 3 * H <= 8 * LW + 7
  /\ Lines \in Nat /\ Lines >= 5 /\ VTotal \in Nat /\ VTotal > 2 * Lines
  /\ LastWord = LW - 1
  BY TimingAssumption, RaceAssumption DEF LW, H, LastWord

(* The reader's part of a step.                                              *)
Edge(wr_valid) ==
  /\ MoveBeam /\ TakePending /\ SelectBuffer /\ Fill /\ Request /\ Store
  /\ Arbitrate(wr_valid)

LEMMA VarsInit == Init => VarsOK
  <1>g. /\ LW \in Nat /\ LW >= 22 /\ H \in Nat /\ H > 2 * LW + 11 /\ HTotal = H
        /\ Lines \in Nat /\ VTotal \in Nat /\ VTotal > 2 * Lines /\ LastWord = LW - 1
    BY Geometry DEF H
  <1> SUFFICES ASSUME Init PROVE VarsOK
    OBVIOUS
  <1>1. DOMAIN line_buf = Buffers /\ \A b \in Buffers : DOMAIN line_buf[b] = 0 .. LastWord
    BY DEF Init
  <1>2. buf_valid \in [Buffers -> BOOLEAN] /\ buf_y \in [Buffers -> Nat]
    BY DEF Init
  <1>3. 0 \in 0 .. H - 1 /\ 0 \in 0 .. VTotal - 1 /\ 0 \in 0 .. LastWord
    BY <1>g
  <1>4. /\ draw_x \in 0 .. H - 1 /\ draw_y \in 0 .. VTotal - 1 /\ draw_x_d \in 0 .. H - 1
        /\ fill_x \in 0 .. LastWord /\ rd_x_hold \in 0 .. LastWord
    BY <1>3 DEF Init
  <1>5. /\ current_buf \in Buffers /\ fill_buf \in Buffers /\ fill_y \in Nat
        /\ rd_y_hold \in Nat /\ rd_buf_hold \in Buffers /\ state \in {"IDLE", "READ", "WRITE"}
        /\ scans \in 0 .. 2
    BY DEF Init, Buffers
  <1>6. current_valid \in BOOLEAN /\ fill_active \in BOOLEAN /\ line_done_pending \in BOOLEAN
    BY DEF Init
  <1>7. mem_rd_req \in BOOLEAN /\ rd_valid \in BOOLEAN
    BY DEF Init
  <1>8. pending_valid \in BOOLEAN /\ pending_consumed \in BOOLEAN /\ have_sram_frame \in BOOLEAN
    BY DEF Init
  <1> QED BY <1>1, <1>2, <1>4, <1>5, <1>6, <1>7, <1>8 DEF VarsOK

LEMMA VarsStep ==
  ASSUME VarsOK, Next
  PROVE  VarsOK'
  <1>g. /\ LW \in Nat /\ LW >= 22 /\ H \in Nat /\ H > 2 * LW + 11 /\ HTotal = H
        /\ Lines \in Nat /\ VTotal \in Nat /\ VTotal > 2 * Lines /\ LastWord = LW - 1
    BY Geometry DEF H
  <1> PICK wr_valid \in BOOLEAN, complete \in BOOLEAN :
        /\ Edge(wr_valid) /\ Offer(complete)
        /\ scans' = IF new_frame /\ have_sram_frame /\ scans < 2 THEN scans + 1 ELSE scans
    BY DEF Next, Edge
  <1>1. /\ draw_x' \in 0 .. H - 1 /\ draw_y' \in 0 .. VTotal - 1 /\ draw_x_d' \in 0 .. H - 1
    BY <1>g DEF VarsOK, Edge, MoveBeam
  <1>2. current_buf' \in Buffers
    BY DEF VarsOK, Edge, SelectBuffer, pixel_buf_sel, Buffers
  <1>13. current_valid' \in BOOLEAN
    <2>1. Swap \in BOOLEAN /\ buffer_has_y(PictureLine) \in BOOLEAN /\ current_valid \in BOOLEAN
      BY DEF VarsOK, Swap, buffer_has_y
    <2>2. pixel_line_valid \in BOOLEAN
      BY <2>1 DEF pixel_line_valid
    <2> QED BY <2>2 DEF Edge, SelectBuffer
  <1>3. buf_valid' \in [Buffers -> BOOLEAN]
    BY DEF VarsOK, Edge, Store, LineArrives, WordArrives, Swap, new_frame, new_line
  <1>4. buf_y' \in [Buffers -> Nat]
    BY DEF VarsOK, Edge, Store
  <1>5. DOMAIN line_buf' = Buffers /\ \A b \in Buffers : DOMAIN line_buf'[b] = 0 .. LastWord
    BY DEF VarsOK, Edge, Store
  <1>6. Wanted \in Nat
    BY DEF VarsOK, Wanted, PictureLine
  <1>7. fill_active' \in BOOLEAN /\ fill_buf' \in Buffers /\ fill_y' \in Nat
        /\ line_done_pending' \in BOOLEAN
    BY <1>6 DEF VarsOK, Edge, Fill, FreeBuffer, Buffers
  <1>8. fill_x' \in 0 .. LastWord
    BY <1>g DEF VarsOK, Edge, Fill
  <1>9. /\ rd_x_hold' \in 0 .. LastWord /\ rd_y_hold' \in Nat /\ rd_buf_hold' \in Buffers
        /\ mem_rd_req' \in BOOLEAN
    BY DEF VarsOK, Edge, Request
  <1>10. rd_valid' \in BOOLEAN /\ state' \in {"IDLE", "READ", "WRITE"}
    BY DEF VarsOK, Edge, Arbitrate
  <1>11. pending_valid' \in BOOLEAN /\ have_sram_frame' \in BOOLEAN
    BY DEF VarsOK, Offer
  <1>14. pending_consumed' \in BOOLEAN
    <2>1. Swap \in BOOLEAN
      BY DEF Swap
    <2> QED BY <2>1 DEF Edge, TakePending
  <1>12. scans' \in 0 .. 2
    BY DEF VarsOK
  <1> QED BY <1>1, <1>2, <1>3, <1>4, <1>5, <1>7, <1>8, <1>9, <1>10, <1>11, <1>12, <1>13, <1>14 DEF VarsOK
-----------------------------------------------------------------------------
(* The edges, seen from the race: how the beam goes on, and how the fetch.     *)

(* Where the beam is, and the word held.                                      *)
LEMMA Places ==
  VarsOK => draw_x \in Nat /\ draw_x < H /\ draw_y \in Nat /\ draw_y < VTotal /\ rd_x_hold \in Nat
  <1> SUFFICES ASSUME VarsOK
      PROVE draw_x \in Nat /\ draw_x < H /\ draw_y \in Nat /\ draw_y < VTotal /\ rd_x_hold \in Nat
    OBVIOUS
  <1>1. H \in Nat /\ VTotal \in Nat /\ LastWord \in Int
    BY Geometry
  <1>2. draw_x \in 0 .. H - 1 /\ draw_y \in 0 .. VTotal - 1 /\ rd_x_hold \in 0 .. LastWord
    BY DEF VarsOK
  <1> QED BY <1>1, <1>2

(* At a turn the beam takes a buffer that holds the line it turns to.          *)
Turn ==
  /\ (\A b \in Buffers : ~Holds(b, PictureLine)') => ~Lit' /\ Cur' = Cur
  /\ draw_y' # 0 /\ (\E b \in Buffers : Holds(b, PictureLine)') =>
       Lit' /\ Cur' \in Buffers /\ buf_valid'[Cur'] /\ buf_y'[Cur'] = PictureLine'

Beam ==
  IF draw_x + 1 # H
  THEN draw_x' = draw_x + 1 /\ draw_y' = draw_y /\ Cur' = Cur /\ (Lit' <=> Lit)
  ELSE draw_x' = 0 /\ draw_y' = (IF draw_y + 1 = VTotal THEN 0 ELSE draw_y + 1) /\ Turn

LEMMA CurType == VarsOK => Cur \in Buffers /\ Free \in Buffers /\ Free # Cur /\ Lit \in BOOLEAN
  <1> SUFFICES ASSUME VarsOK PROVE Cur \in Buffers /\ Free \in Buffers /\ Free # Cur /\ Lit \in BOOLEAN
    OBVIOUS
  <1>1. Cur \in Buffers
    BY DEF VarsOK, Cur, pixel_buf_sel, Buffers
  <1>2. Swap \in BOOLEAN /\ buffer_has_y(PictureLine) \in BOOLEAN /\ current_valid \in BOOLEAN
    BY DEF VarsOK, Swap, buffer_has_y
  <1>3. Lit \in BOOLEAN
    BY <1>2 DEF Lit, pixel_line_valid
  <1> QED BY <1>1, <1>3 DEF Free, Buffers

LEMMA BeamEdge ==
  ASSUME VarsOK, VarsOK', MoveBeam, SelectBuffer
  PROVE  Beam
  <1>g. H \in Nat /\ H > 1 /\ HTotal = H /\ draw_x \in 0 .. H - 1 /\ draw_y \in Nat
    <2>1. H \in Nat /\ H > 1 /\ HTotal = H
      BY Geometry DEF H
    <2>2. draw_x \in 0 .. H - 1
      BY DEF VarsOK
    <2> QED BY <2>1, <2>2, Places
  <1>1. current_buf' = Cur /\ current_valid' = Lit
    BY DEF SelectBuffer, Cur, Lit
  <1>2. CASE draw_x + 1 # H
    <2>1. draw_x' = draw_x + 1 /\ draw_y' = draw_y
      BY <1>g, <1>2 DEF MoveBeam
    <2>2. ~new_line'
      BY <1>g, <2>1 DEF new_line
    <2>3. Cur' = current_buf' /\ Lit' = current_valid'
      BY <2>2 DEF Cur, Lit, pixel_buf_sel, pixel_line_valid
    <2> QED BY <1>1, <1>2, <2>1, <2>3 DEF Beam
  <1>3. CASE draw_x + 1 = H
    <2>1. /\ draw_x' = 0 /\ draw_x_d' # 0
          /\ draw_y' = (IF draw_y + 1 = VTotal THEN 0 ELSE draw_y + 1)
      BY <1>g, <1>3 DEF MoveBeam
    <2>2. new_line'
      BY <2>1 DEF new_line
    <2>3. Swap' => draw_y' = 0
      BY DEF Swap, new_frame
    <2>4. ASSUME \A b \in Buffers : ~Holds(b, PictureLine)'
          PROVE  ~Lit' /\ Cur' = Cur
      <3>1. ~buffer_has_y(PictureLine)'
        BY <2>4 DEF buffer_has_y
      <3> QED BY <1>1, <2>2, <3>1 DEF Cur, Lit, pixel_buf_sel, pixel_line_valid
    <2>5. ASSUME draw_y' # 0, \E b \in Buffers : Holds(b, PictureLine)'
          PROVE  Lit' /\ Cur' \in Buffers /\ buf_valid'[Cur'] /\ buf_y'[Cur'] = PictureLine'
      <3>1. buffer_has_y(PictureLine)' /\ ~Swap'
        BY <2>3, <2>5 DEF buffer_has_y
      <3>2. Lit'
        BY <2>2, <3>1 DEF Lit, pixel_line_valid
      <3>3. Cur' = IF Holds(0, PictureLine)' THEN 0 ELSE 1
        BY <2>2, <3>1 DEF Cur, pixel_buf_sel
      <3>4. Holds(0, PictureLine)' \/ Holds(1, PictureLine)'
        BY <2>5 DEF Buffers
      <3> QED BY <3>2, <3>3, <3>4 DEF Buffers, Holds
    <2>6. Turn
      BY <2>4, <2>5 DEF Turn
    <2> QED BY <1>3, <2>1, <2>6 DEF Beam
  <1> QED BY <1>2, <1>3

(* The fetch: it goes on, ends with its last word, or one starts, or none is.  *)
Goes ==
  /\ Fetching /\ Age < LastAge /\ Fetching' /\ fill_buf' = fill_buf /\ fill_y' = fill_y
  /\ buf_valid' = buf_valid
  /\ IF Age = 0 THEN Age' = 1 \/ Age' = 2 ELSE Age' = Age + 1
  /\ buf_y' = IF Age = 4 THEN [buf_y EXCEPT ![fill_buf] = fill_y] ELSE buf_y
Ends ==
  /\ Fetching /\ Age = LastAge /\ Clear' /\ buf_y' = buf_y
  /\ buf_valid' = [buf_valid EXCEPT ![fill_buf] = TRUE]
Starts ==
  /\ Clear /\ StartFill /\ Fetching' /\ Age' = 0 /\ fill_buf' = Free /\ fill_y' = Wanted
  /\ buf_valid' = buf_valid /\ buf_y' = buf_y
Rests ==
  /\ Clear /\ ~StartFill /\ Clear' /\ buf_valid' = buf_valid /\ buf_y' = buf_y

LEMMA AgeRange ==
  ASSUME VarsOK
  PROVE  /\ Age \in Nat
         /\ Fetching => Age <= LastAge /\ fill_buf \in Buffers /\ fill_y \in Nat /\ fill_y < Lines
         /\ Fetching /\ Age >= 5 => buf_y[fill_buf] = fill_y
  <1>g. LW \in Nat /\ LW >= 22 /\ LastWord = LW - 1 /\ rd_x_hold \in 0 .. LastWord
    <2>1. LW \in Nat /\ LW >= 22 /\ LastWord = LW - 1
      BY Geometry
    <2>2. rd_x_hold \in 0 .. LastWord
      BY DEF VarsOK
    <2> QED BY <2>1, <2>2
  <1>1. Age \in Nat
    BY <1>g DEF Age
  <1>2. ASSUME Fetching
        PROVE  /\ Age <= LastAge /\ fill_buf \in Buffers /\ fill_y \in Nat /\ fill_y < Lines
               /\ Age >= 5 => buf_y[fill_buf] = fill_y
    <2>1. fill_buf \in Buffers /\ fill_y \in Nat /\ fill_y < Lines
      BY <1>2 DEF Fetching, VarsOK
    <2>2. CASE Fresh
      BY <1>g, <2>1, <2>2 DEF Fresh, Age, LastAge
    <2>3. CASE Asked
      BY <1>g, <2>1, <2>3 DEF Asked, Age, LastAge
    <2>4. CASE Reading
      BY <1>g, <2>1, <2>4 DEF Reading, Took, Age, LastAge
    <2>5. CASE Arriving
      BY <1>g, <2>1, <2>5 DEF Arriving, Took, Age, LastAge
    <2> QED BY <1>2, <2>2, <2>3, <2>4, <2>5 DEF Fetching
  <1> QED BY <1>1, <1>2

LEMMA GoesEdge ==
  ASSUME VarsOK, VarsOK', NEW wr_valid \in BOOLEAN, Edge(wr_valid), have_sram_frame, ~Swap,
         Fetching
  PROVE  Goes \/ Ends
  <1>g. LW \in Nat /\ LW >= 22 /\ LastWord = LW - 1
    BY Geometry
  <1>t. /\ fill_x \in 0 .. LastWord /\ rd_x_hold \in 0 .. LastWord
        /\ fill_buf \in Buffers /\ rd_buf_hold \in Buffers /\ fill_y \in Nat /\ rd_y_hold \in Nat
        /\ state \in {"IDLE", "READ", "WRITE"}
        /\ buf_valid \in [Buffers -> BOOLEAN] /\ buf_y \in [Buffers -> Nat]
    BY DEF VarsOK
  <1>f. fill_active /\ fill_y < Lines /\ (Fresh \/ Asked \/ Reading \/ Arriving) /\ ~StartFill
    BY DEF Fetching, StartFill
  <1>1. ASSUME ~WordArrives
        PROVE  buf_valid' = buf_valid /\ buf_y' = buf_y /\ ~LineArrives /\ fill_active'
               /\ fill_buf' = fill_buf /\ fill_y' = fill_y
    <2>1. ~LineArrives
      BY <1>1 DEF LineArrives
    <2>2. buf_y' = buf_y
      BY <1>1 DEF Edge, Store
    <2>3. \A b \in Buffers : buf_valid'[b] = buf_valid[b]
      BY <1>t, <2>1 DEF Edge, Store
    <2>4. buf_valid' = buf_valid
      <3>1. buf_valid \in [Buffers -> BOOLEAN] /\ buf_valid' \in [Buffers -> BOOLEAN]
        BY DEF VarsOK
      <3> QED BY <2>3, <3>1
    <2> QED BY <1>f, <2>1, <2>2, <2>4 DEF Edge, Fill
  <1>2. CASE Fresh
    <2>1. ~WordArrives /\ ~rd_accepted /\ ~rd_req
      BY <1>2 DEF Fresh, WordArrives, rd_accepted, rd_req
    <2>2. mem_rd_req' /\ state' # "READ" /\ ~rd_valid'
      BY <1>2, <1>f, <2>1 DEF Fresh, Edge, Request, RequestNext, Arbitrate
    <2>3. fill_x' = 0 /\ ~line_done_pending'
      BY <1>2, <1>f, <2>1 DEF Fresh, Edge, Fill
    <2>4. Asked' /\ Fetching'
      BY <1>1, <1>f, <2>1, <2>2, <2>3 DEF Asked, Fetching
    <2>5. Age = 0 /\ Age' \in {1, 2} /\ Age < LastAge
      BY <1>g, <1>2, <2>2 DEF Fresh, Age, LastAge
    <2> QED BY <1>1, <2>1, <2>4, <2>5 DEF Goes
  <1>3. CASE Asked /\ state # "IDLE"
    <2>1. ~WordArrives /\ ~rd_accepted /\ state = "WRITE"
      BY <1>3, <1>t DEF Asked, WordArrives, rd_accepted, rd_req
    <2>2. mem_rd_req' /\ state' = "IDLE" /\ ~rd_valid'
      BY <1>3, <1>f, <2>1 DEF Asked, Edge, Request, RequestNext, Arbitrate
    <2>3. fill_x' = 0 /\ ~line_done_pending'
      BY <1>3, <1>f, <2>1 DEF Asked, Edge, Fill
    <2>4. Asked' /\ Fetching'
      BY <1>1, <1>f, <2>1, <2>2, <2>3 DEF Asked, Fetching
    <2>5. Age = 1 /\ Age' = 2 /\ Age < LastAge
      BY <1>g, <1>3, <2>1, <2>2 DEF Asked, Age, LastAge
    <2> QED BY <1>1, <2>1, <2>4, <2>5 DEF Goes
  <1>4. CASE Asked /\ state = "IDLE"
    <2>1. ~WordArrives /\ rd_accepted /\ rd_req
      BY <1>4 DEF Asked, WordArrives, rd_accepted, rd_req
    <2>2. ~mem_rd_req' /\ state' = "READ" /\ ~rd_valid' /\ rd_x_hold' = 0
          /\ rd_buf_hold' = fill_buf /\ rd_y_hold' = fill_y
      BY <1>4, <1>f, <2>1 DEF Asked, Edge, Request, RequestNext, Arbitrate
    <2>3. fill_x' = 1 /\ ~line_done_pending'
      BY <1>g, <1>4, <1>f, <2>1 DEF Asked, Edge, Fill
    <2>4. Took'
      BY <1>g, <1>1, <2>1, <2>2, <2>3 DEF Took
    <2>5. Reading' /\ Fetching'
      BY <1>1, <1>f, <2>1, <2>2, <2>4 DEF Reading, Fetching
    <2>6. Age = 2 /\ Age' = 3 /\ Age < LastAge
      BY <1>g, <1>4, <2>2 DEF Asked, Age, LastAge
    <2> QED BY <1>1, <2>1, <2>5, <2>6 DEF Goes
  <1>5. CASE Reading
    <2>1. ~WordArrives /\ ~rd_accepted /\ ~rd_req
      BY <1>5 DEF Reading, WordArrives, rd_accepted, rd_req
    <2>2. state' = "IDLE" /\ rd_valid' /\ rd_x_hold' = rd_x_hold
          /\ rd_buf_hold' = rd_buf_hold /\ rd_y_hold' = rd_y_hold
      BY <1>5, <1>f, <2>1 DEF Reading, Edge, Request, Arbitrate
    <2>3. fill_x' = fill_x /\ (line_done_pending' <=> line_done_pending)
      BY <1>1, <1>5, <1>f, <2>1 DEF Reading, Edge, Fill
    <2>4. Took'
      BY <1>g, <1>1, <1>5, <2>1, <2>2, <2>3 DEF Took, Reading
    <2>5. mem_rd_req' <=> rd_x_hold' # LastWord
      BY <1>5, <1>f, <2>1, <2>2 DEF Reading, Took, Edge, Request, RequestNext
    <2>6. Arriving' /\ Fetching'
      BY <1>1, <1>f, <2>1, <2>2, <2>4, <2>5 DEF Arriving, Fetching
    <2>7. Age = 2 * rd_x_hold + 3 /\ Age' = 2 * rd_x_hold + 4
      BY <1>5, <2>2 DEF Reading, Age
    <2>8. Age < LastAge /\ Age # 0 /\ Age # 4 /\ Age' = Age + 1
      BY <1>g, <1>t, <2>7 DEF LastAge
    <2> QED BY <1>1, <2>1, <2>6, <2>8 DEF Goes
  <1>6. CASE Arriving
    <2>1. WordArrives /\ rd_buf_hold = fill_buf /\ rd_y_hold = fill_y
      BY <1>6 DEF Arriving, Took, WordArrives
    <2>2. buf_y' = [buf_y EXCEPT ![fill_buf] = fill_y]
      BY <2>1 DEF Edge, Store
    <2>3. Age = 2 * rd_x_hold + 4
      BY <1>6 DEF Arriving, Age
    <2>4. buf_y' = IF Age = 4 THEN [buf_y EXCEPT ![fill_buf] = fill_y] ELSE buf_y
      <3>1. rd_x_hold # 0 => buf_y[fill_buf] = fill_y
        BY <1>g, <1>t, <1>6 DEF Arriving, Took
      <3>2. CASE rd_x_hold = 0
        BY <2>2, <2>3, <3>2
      <3>3. CASE rd_x_hold # 0
        <4>1. Age # 4
          BY <1>t, <1>g, <2>3, <3>3
        <4>2. buf_y' = buf_y
          BY <1>t, <2>2, <3>1, <3>3
        <4> QED BY <4>1, <4>2
      <3> QED BY <3>2, <3>3
    <2>5. CASE rd_x_hold # LastWord
      <3>1. mem_rd_req /\ rd_accepted /\ ~LineArrives /\ rd_req /\ fill_x = rd_x_hold + 1
            /\ ~line_done_pending
        BY <1>6, <2>5 DEF Arriving, Took, rd_accepted, LineArrives, rd_req
      <3>2. ~mem_rd_req' /\ state' = "READ" /\ ~rd_valid' /\ rd_x_hold' = rd_x_hold + 1
            /\ rd_buf_hold' = fill_buf /\ rd_y_hold' = fill_y
        BY <1>6, <1>f, <3>1 DEF Arriving, Edge, Request, RequestNext, Arbitrate
      <3>3. fill_active' /\ fill_buf' = fill_buf /\ fill_y' = fill_y
        BY <1>f, <3>1 DEF Edge, Fill
      <3>4. fill_x' = IF fill_x = LastWord THEN LastWord ELSE fill_x + 1
        BY <1>f, <3>1 DEF Edge, Fill
      <3>5. line_done_pending' <=> fill_x = LastWord
        BY <1>f, <3>1 DEF Edge, Fill
      <3>6. buf_y'[fill_buf] = fill_y
        BY <1>t, <2>2
      <3>7. Took'
        BY <3>1, <3>2, <3>3, <3>4, <3>5, <3>6 DEF Took
      <3>8. Reading' /\ Fetching'
        BY <1>f, <3>2, <3>3, <3>7 DEF Reading, Fetching
      <3>9. Age' = 2 * rd_x_hold + 5
        BY <1>t, <1>g, <3>2 DEF Age
      <3>10. Age' = Age + 1 /\ Age < LastAge /\ Age # 0
        BY <1>t, <1>g, <2>3, <2>5, <3>9 DEF LastAge
      <3>11. \A b \in Buffers : buf_valid'[b] = buf_valid[b]
        BY <1>t, <3>1 DEF Edge, Store
      <3>12. buf_valid' = buf_valid
        <4>1. buf_valid \in [Buffers -> BOOLEAN] /\ buf_valid' \in [Buffers -> BOOLEAN]
          BY DEF VarsOK
        <4> QED BY <3>11, <4>1
      <3> QED BY <2>4, <3>3, <3>8, <3>10, <3>12 DEF Goes
    <2>6. CASE rd_x_hold = LastWord
      <3>1. ~mem_rd_req /\ ~rd_accepted /\ LineArrives /\ ~rd_req /\ line_done_pending
        BY <1>6, <2>1, <2>6 DEF Arriving, Took, rd_accepted, LineArrives, rd_req
      <3>2. Clear'
        BY <1>6, <3>1 DEF Clear, Arriving, Edge, Fill, Request, RequestNext, Arbitrate
      <3>3. Age = LastAge /\ Age # 4
        BY <1>g, <2>3, <2>6 DEF LastAge
      <3>4. \A b \in Buffers : buf_valid'[b] = (b = fill_buf \/ buf_valid[b])
        BY <2>1, <3>1 DEF Edge, Store
      <3>5. buf_valid' \in [Buffers -> BOOLEAN]
        BY DEF VarsOK
      <3>6. \A b \in Buffers : buf_valid'[b] = [buf_valid EXCEPT ![fill_buf] = TRUE][b]
        BY <1>t, <3>4, <3>5
      <3>7. buf_valid' = [buf_valid EXCEPT ![fill_buf] = TRUE]
        BY <1>t, <3>5, <3>6
      <3> QED BY <2>4, <3>2, <3>3, <3>7 DEF Ends
    <2> QED BY <2>5, <2>6
  <1> QED BY <1>f, <1>2, <1>3, <1>4, <1>5, <1>6

LEMMA StartsEdge ==
  ASSUME VarsOK, VarsOK', NEW wr_valid \in BOOLEAN, Edge(wr_valid), have_sram_frame, ~Swap, Clear
  PROVE  Starts \/ Rests
  <1>t. buf_valid \in [Buffers -> BOOLEAN] /\ buf_valid' \in [Buffers -> BOOLEAN]
    BY DEF VarsOK
  <1>1. ~WordArrives /\ ~LineArrives /\ ~rd_accepted /\ ~rd_req
    BY DEF Clear, WordArrives, LineArrives, rd_accepted, rd_req
  <1>2. buf_y' = buf_y
    BY <1>1 DEF Edge, Store
  <1>3. \A b \in Buffers : buf_valid'[b] = buf_valid[b]
    BY <1>t, <1>1 DEF Edge, Store
  <1>4. buf_valid' = buf_valid
    BY <1>t, <1>3
  <1>5. ~mem_rd_req' /\ state' # "READ" /\ ~rd_valid'
    BY <1>1 DEF Clear, Edge, Request, RequestNext, Arbitrate
  <1>6. CASE StartFill
    <2>1. fill_active' /\ fill_buf' = FreeBuffer /\ fill_y' = Wanted /\ fill_x' = 0
          /\ ~line_done_pending'
      BY <1>1, <1>6 DEF Edge, Fill
    <2>2. FreeBuffer = Free /\ Wanted < Lines
      BY <1>6 DEF StartFill, FreeBuffer, Free, Cur, pixel_buf_sel
    <2>3. Fresh' /\ Fetching'
      BY <1>5, <2>1, <2>2 DEF Fresh, Fetching
    <2>4. Age' = 0
      BY <1>5 DEF Age
    <2> QED BY <1>2, <1>4, <1>6, <2>1, <2>2, <2>3, <2>4 DEF Starts
  <1>7. CASE ~StartFill
    <2>1. ~fill_active'
      BY <1>7 DEF Clear, Edge, Fill
    <2> QED BY <1>2, <1>4, <1>5, <1>7, <2>1 DEF Rests, Clear
  <1> QED BY <1>6, <1>7

(* One edge of a reader that is clear or fetching.                            *)
Ahead == Beam /\ (Goes \/ Ends \/ Starts \/ Rests)

LEMMA AheadEdge ==
  ASSUME VarsOK, VarsOK', Next, have_sram_frame, ~Swap, Clear \/ Fetching
  PROVE  Ahead
  <1> PICK wr_valid \in BOOLEAN : Edge(wr_valid)
    BY DEF Next, Edge
  <1>1. Beam
    BY BeamEdge DEF Edge
  <1>2. Goes \/ Ends \/ Starts \/ Rests
    BY GoesEdge, StartsEdge
  <1> QED BY <1>1, <1>2 DEF Ahead

(* When a fetch starts, and of which line, when the beam is in picture line p. *)
LEMMA StartsWhen ==
  ASSUME VarsOK, draw_x = 0 => draw_x_d # 0, Clear, NEW p \in Nat, draw_y \in {2 * p, 2 * p + 1}
  PROVE  /\ Wanted = IF Holds(Cur, p) \/ Holds(Free, p) THEN p + 1 ELSE p
         /\ StartFill <=> /\ draw_x # 0 /\ Wanted < Lines
                         /\ ~Holds(Cur, Wanted) /\ ~Holds(Free, Wanted)
  <1>1. PictureLine = p
    BY DEF PictureLine
  <1>2. \A y : buffer_has_y(y) <=> Holds(Cur, y) \/ Holds(Free, y)
    <2>1. Buffers = {Cur, Free}
      BY CurType DEF Buffers, Free
    <2> QED BY <2>1 DEF buffer_has_y
  <1>3. Wanted = IF Holds(Cur, p) \/ Holds(Free, p) THEN p + 1 ELSE p
    BY <1>1, <1>2 DEF Wanted
  <1>4. new_line <=> draw_x = 0
    BY DEF new_line
  <1>5. Wanted < Lines => draw_y < 2 * Lines
    BY <1>3, Geometry
  <1> QED BY <1>2, <1>3, <1>4, <1>5 DEF StartFill, Clear

LEMMA Halves == \A p \in Nat : (2 * p) \div 2 = p /\ (2 * p + 1) \div 2 = p
  OBVIOUS

Ranges ==
  Cur \in Buffers /\ Age \in Nat /\ draw_x \in Nat /\ draw_x < H /\ draw_y \in Nat
  /\ draw_y < VTotal /\ rd_x_hold \in Nat

LEMMA RangesNext ==
  VarsOK' => /\ Cur' \in Buffers /\ Age' \in Nat /\ draw_x' \in Nat /\ draw_x' < H
             /\ draw_y' \in Nat /\ draw_y' < VTotal /\ rd_x_hold' \in Nat
  <1>1. VarsOK => Ranges
    BY CurType, AgeRange, Places DEF Ranges
  <1>2. VarsOK' => Ranges'
    BY <1>1, PTL
  <1> QED BY <1>2 DEF Ranges

Labelled == Fetching /\ Age >= 5 => buf_y[fill_buf] = fill_y

LEMMA LabelNext == VarsOK' => (Fetching' /\ Age' >= 5 => buf_y'[fill_buf'] = fill_y')
  <1>1. VarsOK => Labelled
    BY AgeRange DEF Labelled
  <1>2. VarsOK' => Labelled'
    BY <1>1, PTL
  <1> QED BY <1>2 DEF Labelled

(* At the turn to picture line p, c being the buffer shown until then.        *)
LEMMA TurnsTo ==
  ASSUME VarsOK, VarsOK', Turn, NEW p \in Nat, draw_y' \in {2 * p, 2 * p + 1},
         NEW c \in Buffers, NEW d \in Buffers, c = Cur, d = 1 - c
  PROVE  /\ ~Holds(c, p)' /\ ~Holds(d, p)' => ~Lit' /\ Cur' = c
         /\ draw_y' # 0 /\ Holds(c, p)' /\ ~Holds(d, p)' => Lit' /\ Cur' = c
         /\ draw_y' # 0 /\ Holds(d, p)' /\ ~Holds(c, p)' => Lit' /\ Cur' = d
  <1>0. Cur' \in Buffers
    BY RangesNext
  <1>1. PictureLine' = p
    BY Halves DEF PictureLine
  <1>2. Buffers = {c, d}
    BY DEF Buffers
  <1>3. \A b \in Buffers : Holds(b, PictureLine)' <=> Holds(b, p)'
    BY <1>1 DEF Holds
  <1> QED BY <1>0, <1>1, <1>2, <1>3 DEF Turn, Holds

(* The types the steps of the race need, and the two buffers, c being shown.   *)
LEMMA Types ==
  ASSUME VarsOK, VarsOK'
  PROVE  /\ draw_x \in Nat /\ draw_x < H /\ draw_y \in Nat /\ draw_y < VTotal
         /\ draw_x' \in Nat /\ draw_x' < H /\ draw_y' \in Nat /\ draw_y' < VTotal
         /\ Age \in Nat /\ Age' \in Nat
         /\ buf_valid \in [{0, 1} -> BOOLEAN] /\ buf_y \in [{0, 1} -> Nat]
         /\ buf_valid' \in [{0, 1} -> BOOLEAN] /\ buf_y' \in [{0, 1} -> Nat]
  <1>1. Buffers = {0, 1}
    BY DEF Buffers
  <1>2. /\ buf_valid \in [Buffers -> BOOLEAN] /\ buf_y \in [Buffers -> Nat]
        /\ buf_valid' \in [Buffers -> BOOLEAN] /\ buf_y' \in [Buffers -> Nat]
    BY DEF VarsOK
  <1> QED BY <1>1, <1>2, AgeRange, Places, RangesNext

(* A fetch of line q into b that began in a range, with the beam not at its    *)
(* turn: an edge later it is still under way, or the reader is clear and b is  *)
(* good; the other buffer is as it was.                                      *)
FetchGoesOn(b, o, q, lo, hi) ==
  /\ buf_valid'[o] = buf_valid[o] /\ buf_y'[o] = buf_y[o]
  /\ \/ Fetch(b, q, lo, hi)' /\ buf_valid'[b] = buf_valid[b]
        /\ (buf_y'[b] = buf_y[b] \/ buf_y'[b] = q)
     \/ /\ buf_valid'[b] /\ buf_y'[b] = q
        /\ Rest(lo + 2 * LW + 3, hi + 2 * LW + 3)'

(* At the turn, of a fetch that began early enough to have its first word, and *)
(* too late to be over.                                                     *)
FetchTurns(b, o, q, lo, hi) ==
  /\ buf_valid'[o] = buf_valid[o] /\ buf_y'[o] = buf_y[o]
  /\ buf_valid'[b] = buf_valid[b] /\ buf_y'[b] = q
  /\ Fetch(b, q, lo - H, hi - H)'

LEMMA FetchEdge ==
  ASSUME VarsOK, VarsOK', Ahead, NEW b \in Buffers, NEW q \in Nat, NEW lo \in Int, NEW hi \in Int,
         Fetch(b, q, lo, hi), NEW o \in Buffers, o # b
  PROVE  /\ buf_valid'[o] = buf_valid[o] /\ buf_y'[o] = buf_y[o]
         /\ \/ /\ buf_valid'[b] = buf_valid[b] /\ (buf_y'[b] = buf_y[b] \/ buf_y'[b] = q)
               /\ IF draw_x + 1 # H THEN Fetch(b, q, lo, hi)' ELSE Fetch(b, q, lo - H, hi - H)'
            \/ /\ buf_valid'[b] /\ buf_y'[b] = q
               /\ IF draw_x + 1 # H THEN Rest(lo + 2 * LW + 3, hi + 2 * LW + 3)'
                  ELSE Rest(lo + 2 * LW + 3 - H, hi + 2 * LW + 3 - H)'
  <1>g. LW \in Nat /\ LW >= 22 /\ H \in Nat /\ H > 2 * LW + 11 /\ Buffers = {0, 1}
    BY Geometry DEF Buffers
  <1>t. /\ draw_x \in Nat /\ draw_x < H /\ draw_x' \in Nat
        /\ Age \in Nat /\ Age' \in Nat
        /\ buf_valid \in [{0, 1} -> BOOLEAN] /\ buf_y \in [{0, 1} -> Nat]
        /\ buf_valid' \in [{0, 1} -> BOOLEAN] /\ buf_y' \in [{0, 1} -> Nat]
    BY Types
  <1>f. Fetching /\ fill_buf = b /\ fill_y = q /\ BeganIn(lo, hi)
    BY DEF Fetch
  <1>x. draw_x' = IF draw_x + 1 # H THEN draw_x + 1 ELSE 0
    BY DEF Ahead, Beam
  <1>1. Goes \/ Ends
    BY <1>f DEF Ahead, Starts, Rests, Clear, Fetching
  <1>2. CASE Goes
    <2>1. buf_valid' = buf_valid /\ buf_y' = (IF Age = 4 THEN [buf_y EXCEPT ![b] = q] ELSE buf_y)
      BY <1>2, <1>f DEF Goes
    <2>2. buf_y'[o] = buf_y[o] /\ (buf_y'[b] = buf_y[b] \/ buf_y'[b] = q)
      BY <1>g, <1>t, <2>1
    <2>3. Fetching' /\ fill_buf' = b /\ fill_y' = q
      BY <1>2, <1>f DEF Goes
    <2>4. /\ Age' # 0 /\ Age' >= Age + 1
          /\ Age' = Age + 1 \/ (Age = 0 /\ Age' = 2)
      BY <1>2, <1>t DEF Goes
    <2>5. /\ lo <= draw_x - Age /\ draw_x - Age <= hi
          /\ Age = 0 => lo < draw_x
      BY <1>f DEF BeganIn
    <2> PICK x \in Nat, a \in Nat, a1 \in Nat : x = draw_x /\ a = Age /\ a1 = Age'
      BY <1>t
    <2>s. lo <= x - a /\ x - a <= hi /\ (a1 = a + 1 \/ (a = 0 /\ a1 = 2)) /\ (a = 0 => lo < x)
      BY <2>4, <2>5
    <2>r. lo <= x + 1 - a1 /\ x + 1 - a1 <= hi
      <3>1. CASE a1 = a + 1
        <4>1. x + 1 - a1 = x - a
          BY <3>1
        <4> QED BY <2>s, <4>1
      <3>2. CASE a = 0 /\ a1 = 2
        <4>1. x + 1 - a1 = x - 1
          BY <3>2
        <4> QED BY <2>s, <3>2, <4>1
      <3> QED BY <2>s, <3>1, <3>2
    <2>6. draw_x + 1 # H => lo <= draw_x' - Age' /\ draw_x' - Age' <= hi
      <3>1. draw_x + 1 # H => draw_x' - Age' = x + 1 - a1
        BY <1>x
      <3> QED BY <2>r, <3>1
    <2>7. draw_x + 1 = H => lo - H <= draw_x' - Age' /\ draw_x' - Age' <= hi - H
      <3> SUFFICES ASSUME draw_x + 1 = H
                   PROVE  lo - H <= draw_x' - Age' /\ draw_x' - Age' <= hi - H
        OBVIOUS
      <3>1. draw_x' = 0 /\ H = x + 1
        BY <1>x
      <3>2. lo - (x + 1) <= 0 - a1 /\ 0 - a1 <= hi - (x + 1)
        <4>1. \A k, m \in Int : lo <= k /\ k <= hi => lo - m <= k - m /\ k - m <= hi - m
          OBVIOUS
        <4>2. (x + 1 - a1) - (x + 1) = 0 - a1 /\ x + 1 - a1 \in Int /\ x + 1 \in Int
          OBVIOUS
        <4> QED BY <2>r, <4>1, <4>2
      <3> QED BY <3>1, <3>2
    <2>8. IF draw_x + 1 # H THEN Fetch(b, q, lo, hi)' ELSE Fetch(b, q, lo - H, hi - H)'
      BY <2>3, <2>4, <2>6, <2>7 DEF Fetch, BeganIn
    <2> QED BY <2>1, <2>2, <2>8
  <1>3. CASE Ends
    <2>1. /\ buf_valid' = [buf_valid EXCEPT ![b] = TRUE] /\ buf_y' = buf_y /\ Clear'
          /\ Age = 2 * LW + 2
      BY <1>3, <1>f DEF Ends, LastAge
    <2>2. buf_y[b] = q
      BY <1>f, <1>g, <2>1, AgeRange
    <2>3. buf_valid'[b] /\ buf_valid'[o] = buf_valid[o]
      BY <1>g, <1>t, <2>1
    <2>4. lo <= draw_x - Age /\ draw_x - Age <= hi
      BY <1>f DEF BeganIn
    <2>5. draw_x + 1 # H => lo + 2 * LW + 3 <= draw_x' /\ draw_x' <= hi + 2 * LW + 3
      BY <1>g, <1>t, <1>x, <2>1, <2>4
    <2>6. draw_x + 1 = H => lo + 2 * LW + 3 - H <= draw_x' /\ draw_x' <= hi + 2 * LW + 3 - H
      BY <1>g, <1>t, <1>x, <2>1, <2>4
    <2>7. IF draw_x + 1 # H THEN Rest(lo + 2 * LW + 3, hi + 2 * LW + 3)'
          ELSE Rest(lo + 2 * LW + 3 - H, hi + 2 * LW + 3 - H)'
      BY <2>1, <2>5, <2>6 DEF Rest
    <2> QED BY <2>1, <2>2, <2>3, <2>7
  <1> QED BY <1>1, <1>2, <1>3

LEMMA FetchOn ==
  ASSUME VarsOK, VarsOK', Ahead, NEW b \in Buffers, NEW q \in Nat, NEW lo \in Int, NEW hi \in Int,
         Fetch(b, q, lo, hi), NEW o \in Buffers, o # b, draw_x + 1 # H
  PROVE  FetchGoesOn(b, o, q, lo, hi)
  BY FetchEdge DEF FetchGoesOn

(* At the turn, in general.                                                  *)
FetchLeaves(b, o, q, lo, hi) ==
  /\ buf_valid'[o] = buf_valid[o] /\ buf_y'[o] = buf_y[o]
  /\ \/ /\ buf_valid'[b] = buf_valid[b] /\ (buf_y'[b] = buf_y[b] \/ buf_y'[b] = q)
        /\ Fetch(b, q, lo - H, hi - H)'
     \/ /\ buf_valid'[b] /\ buf_y'[b] = q
        /\ Rest(lo + 2 * LW + 3 - H, hi + 2 * LW + 3 - H)'

LEMMA FetchLeave ==
  ASSUME VarsOK, VarsOK', Ahead, NEW b \in Buffers, NEW q \in Nat, NEW lo \in Int, NEW hi \in Int,
         Fetch(b, q, lo, hi), NEW o \in Buffers, o # b, draw_x + 1 = H
  PROVE  FetchLeaves(b, o, q, lo, hi)
  BY FetchEdge DEF FetchLeaves

LEMMA FetchTurn ==
  ASSUME VarsOK, VarsOK', Ahead, NEW b \in Buffers, NEW q \in Nat, NEW lo \in Int, NEW hi \in Int,
         Fetch(b, q, lo, hi), NEW o \in Buffers, o # b, draw_x + 1 = H,
         hi + 5 <= H, lo + 2 * LW + 3 > H
  PROVE  FetchTurns(b, o, q, lo, hi)
  <1>g. LW \in Nat /\ H \in Nat
    BY Geometry
  <1>t. draw_x' \in Nat /\ Age' \in Nat /\ draw_x' = 0
    BY Types DEF Ahead, Beam
  <1>1. /\ buf_valid'[o] = buf_valid[o] /\ buf_y'[o] = buf_y[o]
        /\ \/ Fetch(b, q, lo - H, hi - H)' /\ buf_valid'[b] = buf_valid[b]
           \/ Rest(lo + 2 * LW + 3 - H, hi + 2 * LW + 3 - H)'
    BY FetchLeave DEF FetchLeaves
  <1>2. ~Rest(lo + 2 * LW + 3 - H, hi + 2 * LW + 3 - H)'
    BY <1>g, <1>t DEF Rest
  <1>3. Fetching' /\ fill_buf' = b /\ fill_y' = q /\ 0 - Age' <= hi - H
    BY <1>1, <1>2, <1>t DEF Fetch, BeganIn
  <1>4. Age' >= 5
    <2>1. \A m \in Int : 0 - m <= hi - H => m >= 5
      BY <1>g
    <2> QED BY <1>t, <1>3, <2>1
  <1>5. buf_y'[b] = q
    BY <1>3, <1>4, LabelNext
  <1> QED BY <1>1, <1>2, <1>5 DEF FetchTurns

(* The same when the fetch may be over by the turn.                           *)
FetchTurnsOrEnds(b, o, q, lo, hi) ==
  /\ buf_valid'[o] = buf_valid[o] /\ buf_y'[o] = buf_y[o] /\ buf_y'[b] = q
  /\ \/ buf_valid'[b] = buf_valid[b] /\ Fetch(b, q, lo - H, hi - H)'
     \/ buf_valid'[b] /\ Rest(lo + 2 * LW + 3 - H, hi + 2 * LW + 3 - H)'

LEMMA FetchTurnOrEnd ==
  ASSUME VarsOK, VarsOK', Ahead, NEW b \in Buffers, NEW q \in Nat, NEW lo \in Int, NEW hi \in Int,
         Fetch(b, q, lo, hi), NEW o \in Buffers, o # b, draw_x + 1 = H, hi + 5 <= H
  PROVE  FetchTurnsOrEnds(b, o, q, lo, hi)
  <1>g. LW \in Nat /\ H \in Nat
    BY Geometry
  <1>t. draw_x' \in Nat /\ Age' \in Nat /\ draw_x' = 0
    BY Types DEF Ahead, Beam
  <1>1. /\ buf_valid'[o] = buf_valid[o] /\ buf_y'[o] = buf_y[o]
        /\ \/ Fetch(b, q, lo - H, hi - H)' /\ buf_valid'[b] = buf_valid[b]
           \/ /\ Rest(lo + 2 * LW + 3 - H, hi + 2 * LW + 3 - H)'
              /\ buf_valid'[b] /\ buf_y'[b] = q
    BY FetchLeave DEF FetchLeaves
  <1>2. ASSUME Fetch(b, q, lo - H, hi - H)'
        PROVE  buf_y'[b] = q
    <2>1. Fetching' /\ fill_buf' = b /\ fill_y' = q /\ 0 - Age' <= hi - H
      BY <1>2, <1>t DEF Fetch, BeganIn
    <2>2. \A m \in Int : 0 - m <= hi - H => m >= 5
      BY <1>g
    <2>3. Age' >= 5
      BY <1>t, <2>1, <2>2
    <2> QED BY <2>1, <2>3, LabelNext
  <1> QED BY <1>1, <1>2 DEF FetchTurnsOrEnds

(* A fetch known to have begun in a range began in any wider one, and one that *)
(* began five clocks before the line began is ahead of the beam.             *)
LEMMA Widen ==
  ASSUME VarsOK', NEW b, NEW q, NEW lo \in Int, NEW hi \in Int, Fetch(b, q, lo, hi)',
         NEW lo1 \in Int, NEW hi1 \in Int, lo1 <= lo, hi <= hi1
  PROVE  Fetch(b, q, lo1, hi1)'
  <1>1. draw_x' \in Int /\ Age' \in Int
    BY RangesNext
  <1>2. draw_x' - Age' \in Int
    BY <1>1
  <1>3. /\ Fetching' /\ fill_buf' = b /\ fill_y' = q
        /\ lo <= draw_x' - Age' /\ draw_x' - Age' <= hi /\ (Age' = 0 => lo < draw_x')
    BY DEF Fetch, BeganIn
  <1>4. lo1 <= draw_x' - Age' /\ draw_x' - Age' <= hi1
    BY <1>2, <1>3
  <1>5. Age' = 0 => lo1 < draw_x'
    BY <1>1, <1>3
  <1> QED BY <1>3, <1>4, <1>5 DEF Fetch, BeganIn

LEMMA FarAhead ==
  ASSUME VarsOK', NEW b, NEW q, NEW lo \in Int, NEW hi \in Int, Fetch(b, q, lo, hi)', hi + 5 <= 0
  PROVE  Fetching' /\ fill_buf' = b /\ fill_y' = q /\ draw_x' + 5 <= Age'
  <1>1. draw_x' \in Int /\ Age' \in Int
    BY RangesNext
  <1>2. draw_x' - Age' \in Int
    BY <1>1
  <1>3. Fetching' /\ fill_buf' = b /\ fill_y' = q /\ draw_x' - Age' <= hi
    BY DEF Fetch, BeganIn
  <1>4. \A x, a \in Int : x - a <= hi => x + 5 <= a
    OBVIOUS
  <1>5. draw_x' + 5 <= Age'
    BY <1>1, <1>3, <1>4
  <1> QED BY <1>3, <1>5

(* A label is as it was until the first word has come.                        *)
LEMMA LabelKept ==
  ASSUME VarsOK, VarsOK', Ahead, Fetching, Fetching', Age' < 5
  PROVE  Age < 5 /\ buf_y' = buf_y
  <1>1. Goes
    BY DEF Ahead, Goes, Ends, Starts, Rests, Clear, Fetching
  <1>2. Age \in Nat /\ Age' \in Nat
    BY Types
  <1>3. Age < 4
    BY <1>1, <1>2 DEF Goes
  <1> QED BY <1>1, <1>2, <1>3 DEF Goes

(* A clear reader, in picture line p: it starts the fetch of the line wanted,  *)
(* or has none to start.                                                    *)
LEMMA RestOn ==
  ASSUME VarsOK, VarsOK', Ahead, draw_x = 0 => draw_x_d # 0,
         NEW c \in Buffers, NEW d \in Buffers, c # d, Cur = c,
         NEW lo \in Int, NEW hi \in Int, Rest(lo, hi),
         NEW p \in Nat, draw_y \in {2 * p, 2 * p + 1}
  PROVE  /\ buf_valid' = buf_valid /\ buf_y' = buf_y
         /\ \/ /\ draw_x # 0
               /\ \E q \in Nat :
                    /\ q = IF Holds(c, p) \/ Holds(d, p) THEN p + 1 ELSE p
                    /\ q < Lines /\ ~Holds(c, q) /\ ~Holds(d, q)
                    /\ IF draw_x + 1 # H THEN Fetch(d, q, lo, hi + 1)'
                       ELSE Fetch(d, q, lo - H, hi + 1 - H)'
               /\ Age' = 0
            \/ /\ Clear'
               /\ draw_x = 0 \/ \E q \in Nat :
                    /\ q = IF Holds(c, p) \/ Holds(d, p) THEN p + 1 ELSE p
                    /\ q >= Lines \/ Holds(c, q) \/ Holds(d, q)
  <1>g. LW \in Nat /\ LW >= 22 /\ H \in Nat /\ Buffers = {0, 1} /\ Lines \in Nat
    BY Geometry DEF Buffers
  <1>t. draw_x \in Nat /\ draw_x < H /\ draw_x' \in Nat /\ Wanted \in Nat
    <2>1. draw_y \in Nat
      BY Types
    <2>2. PictureLine \in Nat
      BY <2>1 DEF PictureLine
    <2> QED BY Types, <2>2 DEF Wanted
  <1>c. Clear /\ lo <= draw_x /\ draw_x <= hi /\ Free = d
    BY <1>g DEF Rest, Free
  <1>x. draw_x' = IF draw_x + 1 # H THEN draw_x + 1 ELSE 0
    BY DEF Ahead, Beam
  <1>w. /\ Wanted = IF Holds(c, p) \/ Holds(d, p) THEN p + 1 ELSE p
        /\ StartFill <=> draw_x # 0 /\ Wanted < Lines /\ ~Holds(c, Wanted) /\ ~Holds(d, Wanted)
    BY <1>c, StartsWhen
  <1>1. Starts \/ Rests
    BY <1>c DEF Ahead, Goes, Ends, Clear, Fetching
  <1>2. CASE Starts
    <2>1. /\ buf_valid' = buf_valid /\ buf_y' = buf_y /\ Age' = 0
          /\ Fetching' /\ fill_buf' = d /\ fill_y' = Wanted /\ StartFill
      BY <1>2, <1>c DEF Starts
    <2>2. draw_x + 1 # H => lo <= draw_x' - 0 /\ draw_x' - 0 <= hi + 1 /\ lo < draw_x'
      BY <1>t, <1>c, <1>x
    <2>3. draw_x + 1 = H => lo - H <= draw_x' - 0 /\ draw_x' - 0 <= hi + 1 - H /\ lo - H < draw_x'
      BY <1>g, <1>t, <1>c, <1>x
    <2> PICK q \in Nat : q = Wanted
      BY <1>t
    <2>4. Fetching' /\ fill_buf' = d /\ fill_y' = q
      BY <2>1
    <2>5. IF draw_x + 1 # H THEN Fetch(d, q, lo, hi + 1)'
          ELSE Fetch(d, q, lo - H, hi + 1 - H)'
      BY <2>1, <2>2, <2>3, <2>4 DEF Fetch, BeganIn
    <2> QED BY <1>w, <2>1, <2>5
  <1>3. CASE Rests
    <2>1. buf_valid' = buf_valid /\ buf_y' = buf_y /\ Clear' /\ ~StartFill
      BY <1>3 DEF Rests
    <2>2. ~(Wanted < Lines) => Wanted >= Lines
      BY <1>g, <1>t
    <2> QED BY <1>t, <1>w, <2>1, <2>2
  <1> QED BY <1>1, <1>2, <1>3

(* How far the beam is, then.                                                *)
LEMMA FetchSpan ==
  ASSUME VarsOK, NEW b, NEW q, NEW lo \in Int, NEW hi \in Int, Fetch(b, q, lo, hi)
  PROVE  lo <= draw_x /\ draw_x <= hi + 2 * LW + 2
  <1>1. LW \in Nat /\ draw_x \in Int /\ Age \in Nat /\ Age <= 2 * LW + 2
    BY Geometry, Places, AgeRange DEF Fetch, LastAge
  <1>2. lo <= draw_x - Age /\ draw_x - Age <= hi
    BY DEF Fetch, BeganIn
  <1> QED BY <1>1, <1>2

LEMMA Race0Step ==
  ASSUME VarsOK, VarsOK', Ahead, draw_x = 0 => draw_x_d # 0,
         NEW c \in Buffers, NEW d \in Buffers, c # d, Race0(c, d)
  PROVE  Race0(c, d)' \/ Race1(c, d)'
  <1>g. LW \in Nat /\ LW >= 22 /\ H \in Nat /\ Lines \in Nat /\ Lines >= 5 /\ Buffers = {0, 1}
        /\ VTotal \in Nat /\ VTotal > 10 /\ 5 * H >= 12 * LW + 40 /\ 3 * H <= 8 * LW + 7
        /\ d = 1 - c
    BY Geometry DEF Buffers
  <1>t. draw_x \in Nat /\ draw_y \in Nat /\ draw_x' \in Nat /\ draw_x' < H /\ draw_x < H
        /\ buf_valid \in [{0, 1} -> BOOLEAN] /\ buf_y \in [{0, 1} -> Nat]
        /\ buf_y' \in [{0, 1} -> Nat] /\ Age' \in Nat
    BY Types
  <1>m. Cur = c /\ draw_y = 0 /\ ~Lit /\ Old(c, 3)
    BY DEF Race0
  <1>b. draw_x + 1 # H => draw_x' = draw_x + 1 /\ draw_y' = 0 /\ Cur' = c /\ ~Lit'
    BY <1>m DEF Ahead, Beam
  <1>n. draw_x + 1 = H => draw_x' = 0 /\ draw_y' = 1 /\ Turn
    BY <1>m, <1>g DEF Ahead, Beam
  <1>1. CASE Rest(0, 1) /\ Old(d, 2)
    <2>1. draw_x <= 1 /\ draw_x + 1 # H
      BY <1>1, <1>g, <1>t DEF Rest
    <2>2. ~Holds(c, 0) /\ ~Holds(d, 0)
      BY <1>1, <1>m, <1>t, <1>g DEF Old, Holds
    <2>3. buf_valid' = buf_valid /\ buf_y' = buf_y
          /\ ((draw_x = 1 /\ Fetch(d, 0, 0, 1 + 1)' /\ Age' = 0) \/ (draw_x = 0 /\ Clear'))
      BY <1>1, <1>m, <1>t, <1>g, <2>1, <2>2, RestOn
    <2>4. CASE draw_x = 1 /\ Fetch(d, 0, 0, 1 + 1)' /\ Age' = 0
      <3>1. Fetch(d, 0, 1, 3)'
        BY <1>b, <2>1, <2>4 DEF Fetch, BeganIn
      <3> QED BY <1>b, <1>m, <2>1, <2>3, <3>1 DEF Race0, Old
    <2>5. CASE draw_x = 0 /\ Clear'
      <3>1. Rest(0, 1)'
        BY <1>b, <2>1, <2>5 DEF Rest
      <3> QED BY <1>1, <1>b, <1>m, <2>1, <2>3, <3>1 DEF Race0, Old
    <2> QED BY <2>3, <2>4, <2>5
  <1>2. CASE Fetch(d, 0, 1, 3)
    <2>1. draw_x + 1 # H
      BY <1>2, <1>g, <1>t, FetchSpan
    <2>i. 0 \in Nat /\ 1 \in Int /\ 3 \in Int
      BY <1>g
    <2>2. FetchGoesOn(d, c, 0, 1, 3)
      BY <1>2, <2>1, <2>i, FetchOn
    <2>3. Rest(1 + 2 * LW + 3, 3 + 2 * LW + 3)' => Rest(2 * LW + 4, 2 * LW + 6)'
      BY <1>b, <1>g, <1>t, <2>1 DEF Rest
    <2> QED BY <1>2, <1>b, <1>m, <2>1, <2>2, <2>3 DEF FetchGoesOn, Race0, Rested, Old, Holds
  <1>3. CASE Rested(d, 0, 2 * LW + 4, 2 * LW + 6)
    <2>1. 2 * LW + 4 <= draw_x /\ draw_x <= 2 * LW + 6 /\ draw_x + 1 # H /\ draw_x # 0
      BY <1>3, <1>g, <1>t DEF Rested, Rest
    <2>2. Holds(d, 0) /\ ~Holds(c, 1) /\ ~Holds(d, 1)
      BY <1>3, <1>m, <1>t, <1>g DEF Old, Holds, Rested
    <2>3. buf_valid' = buf_valid /\ buf_y' = buf_y /\ Age' = 0
          /\ Fetch(d, 1, 2 * LW + 4, 2 * LW + 6 + 1)'
      BY <1>3, <1>m, <1>g, <2>1, <2>2, RestOn DEF Rested
    <2> QED BY <1>b, <1>m, <1>g, <1>t, <2>1, <2>2, <2>3 DEF Race0, Refetch, Fetch, BeganIn, Old, Holds
  <1>4. CASE Refetch(d, 1, 2 * LW + 4, 2 * LW + 7)
    <2>i. 1 \in Nat /\ 2 * LW + 4 \in Int /\ 2 * LW + 7 \in Int
      BY <1>g
    <2>s. 2 * LW + 7 + 5 <= H /\ 2 * LW + 4 + 2 * LW + 3 > H
      BY <1>g
    <2>1. CASE draw_x + 1 # H
      <3>1. FetchGoesOn(d, c, 1, 2 * LW + 4, 2 * LW + 7)
        BY <1>4, <2>1, <2>i, FetchOn DEF Refetch
      <3>2. ~Rest(2 * LW + 4 + 2 * LW + 3, 2 * LW + 7 + 2 * LW + 3)'
        BY <1>g, <1>t DEF Rest
      <3> QED BY <1>4, <1>b, <1>m, <1>g, <1>t, <2>1, <3>1, <3>2 DEF FetchGoesOn, Race0, Refetch, Old
    <2>2. CASE draw_x + 1 = H
      <3>1. FetchTurns(d, c, 1, 2 * LW + 4, 2 * LW + 7)
        BY <1>4, <2>2, <2>i, <2>s, FetchTurn DEF Refetch
      <3>h. ~Holds(c, 0)' /\ ~Holds(d, 0)'
        BY <1>4, <1>m, <1>g, <1>t, <3>1 DEF FetchTurns, Holds, Old, Refetch
      <3>y. 0 \in Nat /\ draw_y' \in {2 * 0, 2 * 0 + 1} /\ draw_y' # 0 /\ Turn
        BY <1>n, <2>2
      <3>c. c = Cur /\ d = 1 - c
        BY <1>m, <1>g
      <3>2. ~Lit' /\ Cur' = c
        BY <3>h, <3>y, <3>c, TurnsTo
      <3>3. Fetch(d, 1, 2 * LW + 4 - H, 2 * LW + 7 - H)'
        <4>1. /\ 1 \in Nat /\ (2 * LW + 4) - H \in Int /\ (2 * LW + 7) - H \in Int
              /\ 2 * LW + 4 - H \in Int /\ 2 * LW + 7 - H \in Int
              /\ 2 * LW + 4 - H <= (2 * LW + 4) - H /\ (2 * LW + 7) - H <= 2 * LW + 7 - H
          BY <1>g
        <4>2. Fetch(d, 1, (2 * LW + 4) - H, (2 * LW + 7) - H)'
          BY <3>1 DEF FetchTurns
        <4> QED BY <4>1, <4>2, Widen
      <3> QED BY <1>4, <1>n, <1>m, <1>g, <1>t, <2>2, <3>1, <3>2, <3>3 DEF FetchTurns, Race1, Refetch, Old
    <2> QED BY <2>1, <2>2
  <1> QED BY <1>1, <1>2, <1>3, <1>4 DEF Race0

LEMMA Race1Step ==
  ASSUME VarsOK, VarsOK', Ahead, draw_x = 0 => draw_x_d # 0,
         NEW c \in Buffers, NEW d \in Buffers, c # d, Race1(c, d)
  PROVE  Race1(c, d)' \/ Race2(c, d)'
  <1>g. LW \in Nat /\ LW >= 22 /\ H \in Nat /\ Lines \in Nat /\ Lines >= 5 /\ Buffers = {0, 1}
        /\ VTotal \in Nat /\ VTotal > 10 /\ 5 * H >= 12 * LW + 40 /\ 3 * H <= 8 * LW + 7
        /\ d = 1 - c
    BY Geometry DEF Buffers
  <1>t. draw_x \in Nat /\ draw_y \in Nat /\ draw_x' \in Nat /\ draw_x' < H /\ draw_x < H
        /\ buf_valid \in [{0, 1} -> BOOLEAN] /\ buf_y \in [{0, 1} -> Nat]
        /\ buf_y' \in [{0, 1} -> Nat] /\ Age' \in Nat
    BY Types
  <1>m. Cur = c /\ draw_y = 1 /\ ~Lit /\ Old(c, 3)
    BY DEF Race1
  <1>b. draw_x + 1 # H => draw_x' = draw_x + 1 /\ draw_y' = 1 /\ Cur' = c /\ ~Lit'
    BY <1>m DEF Ahead, Beam
  <1>n. draw_x + 1 = H => draw_x' = 0 /\ draw_y' = 2 /\ Turn
    BY <1>m, <1>g DEF Ahead, Beam
  <1>1. CASE Refetch(d, 1, 2 * LW + 4 - H, 2 * LW + 7 - H)
    <2>1. draw_x + 1 # H
      BY <1>1, <1>g, <1>t, FetchSpan DEF Refetch
    <2>i. 1 \in Nat /\ 2 * LW + 4 - H \in Int /\ 2 * LW + 7 - H \in Int
      BY <1>g
    <2>2. FetchGoesOn(d, c, 1, 2 * LW + 4 - H, 2 * LW + 7 - H)
      BY <1>1, <2>1, <2>i, FetchOn DEF Refetch
    <2>3. Rest(2 * LW + 4 - H + 2 * LW + 3, 2 * LW + 7 - H + 2 * LW + 3)' => Rest(4 * LW + 7 - H, 4 * LW + 10 - H)'
      BY <1>b, <1>g, <1>t, <2>1 DEF Rest
    <2> QED BY <1>1, <1>b, <1>m, <2>1, <2>2, <2>3 DEF FetchGoesOn, Race1, Refetch, Rested, Old, Holds
  <1>2. CASE Rested(d, 1, 4 * LW + 7 - H, 4 * LW + 10 - H)
    <2>1. 4 * LW + 7 - H <= draw_x /\ draw_x <= 4 * LW + 10 - H /\ draw_x + 1 # H /\ draw_x # 0
      BY <1>2, <1>g, <1>t DEF Rested, Rest
    <2>2. Holds(d, 1) /\ ~Holds(c, 0) /\ ~Holds(d, 0)
      BY <1>2, <1>m, <1>t, <1>g DEF Old, Holds, Rested
    <2>3. buf_valid' = buf_valid /\ buf_y' = buf_y /\ Age' = 0
          /\ Fetch(d, 0, 4 * LW + 7 - H, 4 * LW + 10 - H + 1)'
      BY <1>2, <1>m, <1>g, <2>1, <2>2, RestOn DEF Rested
    <2> QED BY <1>b, <1>m, <1>g, <1>t, <2>1, <2>2, <2>3 DEF Race1, Refetch, Fetch, BeganIn, Old, Holds
  <1>3. CASE Refetch(d, 0, 4 * LW + 7 - H, 4 * LW + 11 - H)
    <2>i. 0 \in Nat /\ 4 * LW + 7 - H \in Int /\ 4 * LW + 11 - H \in Int
      BY <1>g
    <2>s. 4 * LW + 11 - H + 5 <= H /\ 4 * LW + 7 - H + 2 * LW + 3 > H
      BY <1>g
    <2>1. CASE draw_x + 1 # H
      <3>1. FetchGoesOn(d, c, 0, 4 * LW + 7 - H, 4 * LW + 11 - H)
        BY <1>3, <2>1, <2>i, FetchOn DEF Refetch
      <3>2. ~Rest(4 * LW + 7 - H + 2 * LW + 3, 4 * LW + 11 - H + 2 * LW + 3)'
        BY <1>g, <1>t DEF Rest
      <3> QED BY <1>3, <1>b, <1>m, <1>g, <1>t, <2>1, <3>1, <3>2 DEF FetchGoesOn, Race1, Refetch, Old
    <2>2. CASE draw_x + 1 = H
      <3>1. FetchTurns(d, c, 0, 4 * LW + 7 - H, 4 * LW + 11 - H)
        BY <1>3, <2>2, <2>i, <2>s, FetchTurn DEF Refetch
      <3>h. ~Holds(c, 1)' /\ ~Holds(d, 1)'
        BY <1>3, <1>m, <1>g, <1>t, <3>1 DEF FetchTurns, Holds, Old, Refetch
      <3>y. 1 \in Nat /\ draw_y' \in {2 * 1, 2 * 1 + 1} /\ draw_y' # 0 /\ Turn
        BY <1>n, <2>2
      <3>c. c = Cur /\ d = 1 - c
        BY <1>m, <1>g
      <3>2. ~Lit' /\ Cur' = c
        BY <3>h, <3>y, <3>c, TurnsTo
      <3>3. Fetch(d, 0, 4 * LW + 7 - 2 * H, 4 * LW + 11 - 2 * H)'
        <4>1. /\ 0 \in Nat /\ (4 * LW + 7 - H) - H \in Int /\ (4 * LW + 11 - H) - H \in Int
              /\ 4 * LW + 7 - 2 * H \in Int /\ 4 * LW + 11 - 2 * H \in Int
              /\ 4 * LW + 7 - 2 * H <= (4 * LW + 7 - H) - H /\ (4 * LW + 11 - H) - H <= 4 * LW + 11 - 2 * H
          BY <1>g
        <4>2. Fetch(d, 0, (4 * LW + 7 - H) - H, (4 * LW + 11 - H) - H)'
          BY <3>1 DEF FetchTurns
        <4> QED BY <4>1, <4>2, Widen
      <3> QED BY <1>3, <1>n, <1>m, <1>g, <1>t, <2>2, <3>1, <3>2, <3>3 DEF FetchTurns, Race2, Refetch, Old
    <2> QED BY <2>1, <2>2
  <1> QED BY <1>1, <1>2, <1>3 DEF Race1

LEMMA Race2Step ==
  ASSUME VarsOK, VarsOK', Ahead, draw_x = 0 => draw_x_d # 0,
         NEW c \in Buffers, NEW d \in Buffers, c # d, Race2(c, d)
  PROVE  Race2(c, d)' \/ Race3(d, c)'
  <1>g. LW \in Nat /\ LW >= 22 /\ H \in Nat /\ Lines \in Nat /\ Lines >= 5 /\ Buffers = {0, 1}
        /\ VTotal \in Nat /\ VTotal > 10 /\ 5 * H >= 12 * LW + 40 /\ 3 * H <= 8 * LW + 7
        /\ d = 1 - c
    BY Geometry DEF Buffers
  <1>t. draw_x \in Nat /\ draw_y \in Nat /\ draw_x' \in Nat /\ draw_x' < H /\ draw_x < H
        /\ buf_valid \in [{0, 1} -> BOOLEAN] /\ buf_y \in [{0, 1} -> Nat]
        /\ buf_y' \in [{0, 1} -> Nat] /\ Age' \in Nat
    BY Types
  <1>m. Cur = c /\ draw_y = 2 /\ ~Lit /\ Old(c, 3)
    BY DEF Race2
  <1>b. draw_x + 1 # H => draw_x' = draw_x + 1 /\ draw_y' = 2 /\ Cur' = c /\ ~Lit'
    BY <1>m DEF Ahead, Beam
  <1>n. draw_x + 1 = H => draw_x' = 0 /\ draw_y' = 3 /\ Turn
    BY <1>m, <1>g DEF Ahead, Beam
  <1>1. CASE Refetch(d, 0, 4 * LW + 7 - 2 * H, 4 * LW + 11 - 2 * H)
    <2>1. draw_x + 1 # H
      BY <1>1, <1>g, <1>t, FetchSpan DEF Refetch
    <2>i. 0 \in Nat /\ 4 * LW + 7 - 2 * H \in Int /\ 4 * LW + 11 - 2 * H \in Int
      BY <1>g
    <2>2. FetchGoesOn(d, c, 0, 4 * LW + 7 - 2 * H, 4 * LW + 11 - 2 * H)
      BY <1>1, <2>1, <2>i, FetchOn DEF Refetch
    <2>3. Rest(4 * LW + 7 - 2 * H + 2 * LW + 3, 4 * LW + 11 - 2 * H + 2 * LW + 3)' => Rest(6 * LW + 10 - 2 * H, 6 * LW + 14 - 2 * H)'
      BY <1>b, <1>g, <1>t, <2>1 DEF Rest
    <2> QED BY <1>1, <1>b, <1>m, <2>1, <2>2, <2>3 DEF FetchGoesOn, Race2, Refetch, Rested, Old, Holds
  <1>2. CASE Rested(d, 0, 6 * LW + 10 - 2 * H, 6 * LW + 14 - 2 * H)
    <2>1. 6 * LW + 10 - 2 * H <= draw_x /\ draw_x <= 6 * LW + 14 - 2 * H /\ draw_x + 1 # H /\ draw_x # 0
      BY <1>2, <1>g, <1>t DEF Rested, Rest
    <2>2. Holds(d, 0) /\ ~Holds(c, 1) /\ ~Holds(d, 1)
      BY <1>2, <1>m, <1>t, <1>g DEF Old, Holds, Rested
    <2>3. buf_valid' = buf_valid /\ buf_y' = buf_y /\ Age' = 0
          /\ Fetch(d, 1, 6 * LW + 10 - 2 * H, 6 * LW + 14 - 2 * H + 1)'
      BY <1>2, <1>m, <1>g, <2>1, <2>2, RestOn DEF Rested
    <2> QED BY <1>b, <1>m, <1>g, <1>t, <2>1, <2>2, <2>3 DEF Race2, Refetch, Fetch, BeganIn, Old, Holds
  <1>3. CASE Refetch(d, 1, 6 * LW + 10 - 2 * H, 6 * LW + 15 - 2 * H)
    <2>i. 1 \in Nat /\ 6 * LW + 10 - 2 * H \in Int /\ 6 * LW + 15 - 2 * H \in Int
      BY <1>g
    <2>s. 6 * LW + 15 - 2 * H + 5 <= H /\ 6 * LW + 10 - 2 * H + 2 * LW + 3 > H
      BY <1>g
    <2>1. CASE draw_x + 1 # H
      <3>1. FetchGoesOn(d, c, 1, 6 * LW + 10 - 2 * H, 6 * LW + 15 - 2 * H)
        BY <1>3, <2>1, <2>i, FetchOn DEF Refetch
      <3>2. ~Rest(6 * LW + 10 - 2 * H + 2 * LW + 3, 6 * LW + 15 - 2 * H + 2 * LW + 3)'
        BY <1>g, <1>t DEF Rest
      <3> QED BY <1>3, <1>b, <1>m, <1>g, <1>t, <2>1, <3>1, <3>2 DEF FetchGoesOn, Race2, Refetch, Old
    <2>2. CASE draw_x + 1 = H
      <3>1. FetchTurns(d, c, 1, 6 * LW + 10 - 2 * H, 6 * LW + 15 - 2 * H)
        BY <1>3, <2>2, <2>i, <2>s, FetchTurn DEF Refetch
      <3>h. Holds(d, 1)' /\ ~Holds(c, 1)'
        BY <1>3, <1>m, <1>g, <1>t, <3>1 DEF FetchTurns, Holds, Old, Refetch
      <3>y. 1 \in Nat /\ draw_y' \in {2 * 1, 2 * 1 + 1} /\ draw_y' # 0 /\ Turn
        BY <1>n, <2>2
      <3>c. c = Cur /\ d = 1 - c
        BY <1>m, <1>g
      <3>2. Lit' /\ Cur' = d
        BY <3>h, <3>y, <3>c, TurnsTo
      <3>3. Fetch(d, 1, 6 * LW + 10 - 3 * H, 6 * LW + 15 - 3 * H)'
        <4>1. /\ 1 \in Nat /\ (6 * LW + 10 - 2 * H) - H \in Int /\ (6 * LW + 15 - 2 * H) - H \in Int
              /\ 6 * LW + 10 - 3 * H \in Int /\ 6 * LW + 15 - 3 * H \in Int
              /\ 6 * LW + 10 - 3 * H <= (6 * LW + 10 - 2 * H) - H /\ (6 * LW + 15 - 2 * H) - H <= 6 * LW + 15 - 3 * H
          BY <1>g
        <4>2. Fetch(d, 1, (6 * LW + 10 - 2 * H) - H, (6 * LW + 15 - 2 * H) - H)'
          BY <3>1 DEF FetchTurns
        <4> QED BY <4>1, <4>2, Widen
      <3> QED BY <1>3, <1>n, <1>m, <1>g, <1>t, <2>2, <3>1, <3>2, <3>3 DEF FetchTurns, Race3, Refetch, Old, Holds
    <2> QED BY <2>1, <2>2
  <1> QED BY <1>1, <1>2, <1>3 DEF Race2

LEMMA Race3Step ==
  ASSUME VarsOK, VarsOK', Ahead, draw_x = 0 => draw_x_d # 0,
         NEW c \in Buffers, NEW d \in Buffers, c # d, Race3(c, d)
  PROVE  Race3(c, d)' \/ Race4(c, d)' \/ Steady(d, c, 2)'
  <1>g. LW \in Nat /\ LW >= 22 /\ H \in Nat /\ Lines \in Nat /\ Lines >= 5 /\ Buffers = {0, 1}
        /\ VTotal \in Nat /\ VTotal > 10 /\ 5 * H >= 12 * LW + 40 /\ 3 * H <= 8 * LW + 7
        /\ d = 1 - c
    BY Geometry DEF Buffers
  <1>t. draw_x \in Nat /\ draw_y \in Nat /\ draw_x' \in Nat /\ draw_x' < H /\ draw_x < H
        /\ buf_valid \in [{0, 1} -> BOOLEAN] /\ buf_y \in [{0, 1} -> Nat]
        /\ buf_y' \in [{0, 1} -> Nat] /\ Age' \in Nat
    BY Types
  <1>m. Cur = c /\ draw_y = 3 /\ Lit /\ Holds(c, 1)
    BY DEF Race3
  <1>b. draw_x + 1 # H => draw_x' = draw_x + 1 /\ draw_y' = 3 /\ Cur' = c /\ Lit'
    BY <1>m DEF Ahead, Beam
  <1>n. draw_x + 1 = H => draw_x' = 0 /\ draw_y' = 4 /\ Turn
    BY <1>m, <1>g DEF Ahead, Beam
  <1>1. CASE Fetch(c, 1, 6 * LW + 10 - 3 * H, 6 * LW + 15 - 3 * H) /\ Old(d, 3)
    <2>1. draw_x + 1 # H
      BY <1>1, <1>g, <1>t, FetchSpan
    <2>i. 1 \in Nat /\ 6 * LW + 10 - 3 * H \in Int /\ 6 * LW + 15 - 3 * H \in Int
      BY <1>g
    <2>2. FetchGoesOn(c, d, 1, 6 * LW + 10 - 3 * H, 6 * LW + 15 - 3 * H)
      BY <1>1, <2>1, <2>i, FetchOn
    <2>3. Rest(6 * LW + 10 - 3 * H + 2 * LW + 3, 6 * LW + 15 - 3 * H + 2 * LW + 3)' => Rest(8 * LW + 13 - 3 * H, 8 * LW + 18 - 3 * H)'
      BY <1>b, <1>g, <1>t, <2>1 DEF Rest
    <2> QED BY <1>1, <1>b, <1>m, <2>1, <2>2, <2>3 DEF FetchGoesOn, Race3, Old, Holds
  <1>2. CASE Rest(8 * LW + 13 - 3 * H, 8 * LW + 18 - 3 * H) /\ Old(d, 3)
    <2>1. 8 * LW + 13 - 3 * H <= draw_x /\ draw_x <= 8 * LW + 18 - 3 * H /\ draw_x + 1 # H /\ draw_x # 0
      BY <1>2, <1>g, <1>t DEF Rested, Rest
    <2>2. Holds(c, 1) /\ ~Holds(c, 2) /\ ~Holds(d, 2)
      BY <1>2, <1>m, <1>t, <1>g DEF Old, Holds, Rested
    <2>3. buf_valid' = buf_valid /\ buf_y' = buf_y /\ Age' = 0
          /\ Fetch(d, 2, 8 * LW + 13 - 3 * H, 8 * LW + 18 - 3 * H + 1)'
      BY <1>2, <1>m, <1>g, <2>1, <2>2, RestOn DEF Rested
    <2> QED BY <1>b, <1>m, <1>g, <1>t, <2>1, <2>2, <2>3 DEF Race3, Refetch, Fetch, BeganIn, Old, Holds
  <1>3. CASE Fetch(d, 2, 8 * LW + 13 - 3 * H, 8 * LW + 19 - 3 * H)
    <2>i. 2 \in Nat /\ 8 * LW + 13 - 3 * H \in Int /\ 8 * LW + 19 - 3 * H \in Int
      BY <1>g
    <2>1. CASE draw_x + 1 # H
      <3>1. FetchGoesOn(d, c, 2, 8 * LW + 13 - 3 * H, 8 * LW + 19 - 3 * H)
        BY <1>3, <2>1, <2>i, FetchOn
      <3>2. Rest(8 * LW + 13 - 3 * H + 2 * LW + 3, 8 * LW + 19 - 3 * H + 2 * LW + 3)' => Rest(0, H - 1)'
        BY <1>g, <1>t DEF Rest
      <3> QED BY <1>3, <1>b, <1>m, <2>1, <3>1, <3>2 DEF FetchGoesOn, Race3, Rested, Holds
    <2>2. CASE draw_x + 1 = H
      <3>s. 8 * LW + 19 - 3 * H + 5 <= H
        BY <1>g
      <3>1. FetchTurnsOrEnds(d, c, 2, 8 * LW + 13 - 3 * H, 8 * LW + 19 - 3 * H)
        BY <1>3, <2>2, <2>i, <3>s, FetchTurnOrEnd
      <3>y. 2 \in Nat /\ draw_y' \in {2 * 2, 2 * 2 + 1} /\ draw_y' # 0 /\ Turn
        BY <1>n, <2>2
      <3>c. c = Cur /\ d = 1 - c
        BY <1>m, <1>g
      <3>2. CASE buf_valid'[d]
        <4>h. Holds(d, 2)' /\ ~Holds(c, 2)'
          BY <1>m, <1>g, <1>t, <3>1, <3>2 DEF FetchTurnsOrEnds, Holds
        <4>1. Lit' /\ Cur' = d
          BY <3>y, <3>c, <4>h, TurnsTo
        <4>2. Fetch(d, 2, (8 * LW + 13 - 3 * H) - H, (8 * LW + 19 - 3 * H) - H)' => Fetching' /\ fill_buf' = d /\ fill_y' = 2 /\ draw_x' + 5 <= Age'
          <5>1. 2 \in Nat /\ (8 * LW + 13 - 3 * H) - H \in Int /\ (8 * LW + 19 - 3 * H) - H \in Int /\ (8 * LW + 19 - 3 * H) - H + 5 <= 0
            BY <1>g
          <5> QED BY <5>1, FarAhead
        <4>3. OldLine(c, 2)' /\ Holds(c, 1)'
          BY <1>m, <1>g, <1>t, <3>1 DEF FetchTurnsOrEnds, OldLine, Holds
        <4>4. 2 >= 2 /\ 2 < Lines /\ draw_x' <= 2 * LW - 2
          BY <1>n, <2>2, <1>g
        <4>5. CASE Fetch(d, 2, (8 * LW + 13 - 3 * H) - H, (8 * LW + 19 - 3 * H) - H)'
          BY <3>1, <3>y, <4>h, <4>1, <4>2, <4>3, <4>4, <4>5 DEF Steady, Holds
        <4>6. CASE Rest(8 * LW + 13 - 3 * H + 2 * LW + 3 - H, 8 * LW + 19 - 3 * H + 2 * LW + 3 - H)'
          BY <3>1, <3>y, <4>h, <4>1, <4>3, <4>4, <4>6 DEF Steady, Holds, Rest
        <4> QED BY <3>1, <4>5, <4>6 DEF FetchTurnsOrEnds
      <3>3. CASE ~buf_valid'[d]
        <4>h. ~Holds(d, 2)' /\ ~Holds(c, 2)' /\ Holds(c, 1)'
          BY <1>m, <1>g, <1>t, <3>1, <3>3 DEF FetchTurnsOrEnds, Holds
        <4>1. ~Lit' /\ Cur' = c
          BY <3>y, <3>c, <4>h, TurnsTo
        <4>2. Fetch(d, 2, (8 * LW + 13 - 3 * H) - H, (8 * LW + 19 - 3 * H) - H)' => Fetch(d, 2, 8 * LW + 13 - 4 * H, 8 * LW + 19 - 4 * H)'
          <5>1. /\ 2 \in Nat /\ (8 * LW + 13 - 3 * H) - H \in Int /\ (8 * LW + 19 - 3 * H) - H \in Int
                /\ 8 * LW + 13 - 4 * H \in Int /\ 8 * LW + 19 - 4 * H \in Int
                /\ 8 * LW + 13 - 4 * H <= (8 * LW + 13 - 3 * H) - H /\ (8 * LW + 19 - 3 * H) - H <= 8 * LW + 19 - 4 * H
            BY <1>g
          <5> QED BY <5>1, Widen
        <4> QED BY <1>n, <2>2, <3>1, <3>3, <4>h, <4>1, <4>2 DEF FetchTurnsOrEnds, Race4
      <3> QED BY <3>2, <3>3
    <2> QED BY <2>1, <2>2
  <1>4. CASE Rested(d, 2, 0, H - 1)
    <2>i. 1 \in Nat /\ draw_y \in {2 * 1, 2 * 1 + 1} /\ 0 \in Int /\ H - 1 \in Int
      BY <1>m, <1>g
    <2>h. Holds(d, 2) /\ Rest(0, H - 1)
      BY <1>4 DEF Rested
    <2>1. buf_valid' = buf_valid /\ buf_y' = buf_y /\ Clear'
      BY <1>m, <2>i, <2>h, RestOn
    <2>2. CASE draw_x + 1 # H
      <3>1. Rest(0, H - 1)'
        BY <1>g, <1>t, <2>1 DEF Rest
      <3> QED BY <1>b, <1>m, <2>1, <2>2, <2>h, <3>1 DEF Race3, Rested, Holds
    <2>3. CASE draw_x + 1 = H
      <3>y. 2 \in Nat /\ draw_y' \in {2 * 2, 2 * 2 + 1} /\ draw_y' # 0 /\ Turn
        BY <1>n, <2>3
      <3>c. c = Cur /\ d = 1 - c
        BY <1>m, <1>g
      <3>h. Holds(d, 2)' /\ ~Holds(c, 2)' /\ Holds(c, 1)'
        BY <1>m, <2>1, <2>h DEF Holds
      <3>1. Lit' /\ Cur' = d
        BY <3>y, <3>c, <3>h, TurnsTo
      <3>2. 2 >= 2 /\ 2 < Lines /\ draw_x' <= 2 * LW - 2 /\ OldLine(c, 2)'
        BY <1>n, <2>3, <1>g, <3>h DEF OldLine, Holds
      <3> QED BY <2>1, <3>y, <3>h, <3>1, <3>2 DEF Steady, Holds
    <2> QED BY <2>2, <2>3
  <1> QED BY <1>1, <1>2, <1>3, <1>4 DEF Race3

LEMMA Race4Step ==
  ASSUME VarsOK, VarsOK', Ahead, draw_x = 0 => draw_x_d # 0,
         NEW c \in Buffers, NEW d \in Buffers, c # d, Race4(c, d)
  PROVE  Race4(c, d)' \/ Steady(d, c, 2)'
  <1>g. LW \in Nat /\ LW >= 22 /\ H \in Nat /\ Lines \in Nat /\ Lines >= 5 /\ Buffers = {0, 1}
        /\ VTotal \in Nat /\ VTotal > 10 /\ 5 * H >= 12 * LW + 40 /\ 3 * H <= 8 * LW + 7
        /\ d = 1 - c
    BY Geometry DEF Buffers
  <1>t. draw_x \in Nat /\ draw_y \in Nat /\ draw_x' \in Nat /\ draw_x' < H /\ draw_x < H
        /\ buf_valid \in [{0, 1} -> BOOLEAN] /\ buf_y \in [{0, 1} -> Nat]
        /\ buf_y' \in [{0, 1} -> Nat] /\ Age' \in Nat
    BY Types
  <1>m. Cur = c /\ draw_y = 4 /\ ~Lit /\ Holds(c, 1)
    BY DEF Race4
  <1>b. draw_x + 1 # H => draw_x' = draw_x + 1 /\ draw_y' = 4 /\ Cur' = c /\ ~Lit'
    BY <1>m DEF Ahead, Beam
  <1>n. draw_x + 1 = H => draw_x' = 0 /\ draw_y' = 5 /\ Turn
    BY <1>m, <1>g DEF Ahead, Beam
  <1>1. CASE Fetch(d, 2, 8 * LW + 13 - 4 * H, 8 * LW + 19 - 4 * H)
    <2>1. draw_x + 1 # H
      BY <1>1, <1>g, <1>t, FetchSpan
    <2>i. 2 \in Nat /\ 8 * LW + 13 - 4 * H \in Int /\ 8 * LW + 19 - 4 * H \in Int
      BY <1>g
    <2>2. FetchGoesOn(d, c, 2, 8 * LW + 13 - 4 * H, 8 * LW + 19 - 4 * H)
      BY <1>1, <2>1, <2>i, FetchOn
    <2>3. Rest(8 * LW + 13 - 4 * H + 2 * LW + 3, 8 * LW + 19 - 4 * H + 2 * LW + 3)' => Rest(1, 10 * LW + 22 - 4 * H)'
      BY <1>b, <1>g, <1>t, <2>1 DEF Rest
    <2> QED BY <1>1, <1>b, <1>m, <2>1, <2>2, <2>3 DEF FetchGoesOn, Race4, Rested, Holds
  <1>2. CASE Rested(d, 2, 1, 10 * LW + 22 - 4 * H)
    <2>1. 1 <= draw_x /\ draw_x <= 10 * LW + 22 - 4 * H /\ draw_x + 1 # H /\ draw_x # 0
      BY <1>2, <1>g, <1>t DEF Rested, Rest
    <2>2. Holds(d, 2) /\ ~Holds(c, 3) /\ ~Holds(d, 3)
      BY <1>2, <1>m, <1>t, <1>g DEF Old, Holds, Rested
    <2>3. buf_valid' = buf_valid /\ buf_y' = buf_y /\ Age' = 0
          /\ Fetch(d, 3, 1, 10 * LW + 22 - 4 * H + 1)'
      BY <1>2, <1>m, <1>g, <2>1, <2>2, RestOn DEF Rested
    <2> QED BY <1>b, <1>m, <1>g, <1>t, <2>1, <2>2, <2>3 DEF Race4, Refetch, Fetch, BeganIn, Old, Holds
  <1>3. CASE Refetch(d, 3, 1, 10 * LW + 23 - 4 * H)
    <2>1. draw_x + 1 # H
      BY <1>3, <1>g, <1>t, FetchSpan DEF Refetch
    <2>i. 3 \in Nat /\ 1 \in Int /\ 10 * LW + 23 - 4 * H \in Int
      BY <1>g
    <2>2. FetchGoesOn(d, c, 3, 1, 10 * LW + 23 - 4 * H)
      BY <1>3, <2>1, <2>i, FetchOn DEF Refetch
    <2>3. Rest(1 + 2 * LW + 3, 10 * LW + 23 - 4 * H + 2 * LW + 3)' => Rest(2 * LW + 4, 12 * LW + 26 - 4 * H)'
      BY <1>b, <1>g, <1>t, <2>1 DEF Rest
    <2> QED BY <1>3, <1>b, <1>m, <2>1, <2>2, <2>3 DEF FetchGoesOn, Race4, Rested, Refetch, Holds
  <1>4. CASE Rested(d, 3, 2 * LW + 4, 12 * LW + 26 - 4 * H)
    <2>1. 2 * LW + 4 <= draw_x /\ draw_x <= 12 * LW + 26 - 4 * H /\ draw_x + 1 # H /\ draw_x # 0
      BY <1>4, <1>g, <1>t DEF Rested, Rest
    <2>2. Holds(d, 3) /\ ~Holds(c, 2) /\ ~Holds(d, 2)
      BY <1>4, <1>m, <1>t, <1>g DEF Old, Holds, Rested
    <2>3. buf_valid' = buf_valid /\ buf_y' = buf_y /\ Age' = 0
          /\ Fetch(d, 2, 2 * LW + 4, 12 * LW + 26 - 4 * H + 1)'
      BY <1>4, <1>m, <1>g, <2>1, <2>2, RestOn DEF Rested
    <2> QED BY <1>b, <1>m, <1>g, <1>t, <2>1, <2>2, <2>3 DEF Race4, Refetch, Fetch, BeganIn, Old, Holds
  <1>5. CASE Refetch(d, 2, 2 * LW + 4, 12 * LW + 27 - 4 * H)
    <2>i. 2 \in Nat /\ 2 * LW + 4 \in Int /\ 12 * LW + 27 - 4 * H \in Int
      BY <1>g
    <2>s. 12 * LW + 27 - 4 * H + 5 <= H /\ 2 * LW + 4 + 2 * LW + 3 > H
      BY <1>g
    <2>1. CASE draw_x + 1 # H
      <3>1. FetchGoesOn(d, c, 2, 2 * LW + 4, 12 * LW + 27 - 4 * H)
        BY <1>5, <2>1, <2>i, FetchOn DEF Refetch
      <3>2. ~Rest(2 * LW + 4 + 2 * LW + 3, 12 * LW + 27 - 4 * H + 2 * LW + 3)'
        BY <1>g, <1>t DEF Rest
      <3> QED BY <1>5, <1>b, <1>m, <1>g, <1>t, <2>1, <3>1, <3>2 DEF FetchGoesOn, Race4, Refetch, Holds
    <2>2. CASE draw_x + 1 = H
      <3>1. FetchTurns(d, c, 2, 2 * LW + 4, 12 * LW + 27 - 4 * H)
        BY <1>5, <2>2, <2>i, <2>s, FetchTurn DEF Refetch
      <3>h. Holds(d, 2)' /\ ~Holds(c, 2)'
        BY <1>5, <1>m, <1>g, <1>t, <3>1 DEF FetchTurns, Holds, Old, Refetch
      <3>y. 2 \in Nat /\ draw_y' \in {2 * 2, 2 * 2 + 1} /\ draw_y' # 0 /\ Turn
        BY <1>n, <2>2
      <3>c. c = Cur /\ d = 1 - c
        BY <1>m, <1>g
      <3>2. Lit' /\ Cur' = d
        BY <3>h, <3>y, <3>c, TurnsTo
      <3>4. Fetching' /\ fill_buf' = d /\ fill_y' = 2 /\ draw_x' + 5 <= Age'
        <4>1. 2 \in Nat /\ (2 * LW + 4) - H \in Int /\ (12 * LW + 27 - 4 * H) - H \in Int /\ (12 * LW + 27 - 4 * H) - H + 5 <= 0
          BY <1>g
        <4>2. Fetch(d, 2, (2 * LW + 4) - H, (12 * LW + 27 - 4 * H) - H)'
          BY <3>1 DEF FetchTurns
        <4> QED BY <4>1, <4>2, FarAhead
      <3>5. OldLine(c, 2)' /\ Holds(c, 1)'
        BY <1>m, <1>g, <1>t, <3>1 DEF FetchTurns, OldLine, Holds
      <3>6. 2 >= 2 /\ 2 < Lines
        BY <1>g
      <3> QED BY <3>1, <3>y, <3>h, <3>2, <3>4, <3>5, <3>6 DEF FetchTurns, Steady, Holds
    <2> QED BY <2>1, <2>2
  <1> QED BY <1>1, <1>2, <1>3, <1>4, <1>5 DEF Race4

LEMMA Late0Step ==
  ASSUME VarsOK, VarsOK', Ahead, draw_x = 0 => draw_x_d # 0,
         NEW c \in Buffers, NEW d \in Buffers, c # d, Late0(c, d)
  PROVE  Late0(c, d)' \/ Late1(d, c)'
  <1>g. LW \in Nat /\ LW >= 22 /\ H \in Nat /\ Lines \in Nat /\ Lines >= 5 /\ Buffers = {0, 1}
        /\ VTotal \in Nat /\ VTotal > 10 /\ 5 * H >= 12 * LW + 40 /\ 3 * H <= 8 * LW + 7
        /\ d = 1 - c
    BY Geometry DEF Buffers
  <1>t. draw_x \in Nat /\ draw_y \in Nat /\ draw_x' \in Nat /\ draw_x' < H /\ draw_x < H
        /\ buf_valid \in [{0, 1} -> BOOLEAN] /\ buf_y \in [{0, 1} -> Nat]
        /\ buf_y' \in [{0, 1} -> Nat] /\ Age' \in Nat
    BY Types
  <1>m. Cur = c /\ draw_y = 0 /\ ~Lit /\ ~buf_valid[c]
    BY DEF Late0
  <1>b. draw_x + 1 # H => draw_x' = draw_x + 1 /\ draw_y' = 0 /\ Cur' = c /\ ~Lit'
    BY <1>m DEF Ahead, Beam
  <1>n. draw_x + 1 = H => draw_x' = 0 /\ draw_y' = 1 /\ Turn
    BY <1>m, <1>g DEF Ahead, Beam
  <1>1. CASE Rested(d, 0, 1, 6)
    <2>1. 1 <= draw_x /\ draw_x <= 6 /\ draw_x + 1 # H /\ draw_x # 0
      BY <1>1, <1>g, <1>t DEF Rested, Rest
    <2>2. Holds(d, 0) /\ ~Holds(c, 1) /\ ~Holds(d, 1)
      BY <1>1, <1>m, <1>t, <1>g DEF Old, Holds, Rested
    <2>3. buf_valid' = buf_valid /\ buf_y' = buf_y /\ Age' = 0
          /\ Fetch(d, 1, 1, 6 + 1)'
      BY <1>1, <1>m, <1>g, <2>1, <2>2, RestOn DEF Rested
    <2> QED BY <1>b, <1>m, <1>g, <1>t, <2>1, <2>2, <2>3 DEF Late0, Refetch, Fetch, BeganIn, Holds
  <1>2. CASE Refetch(d, 1, 1, 7)
    <2>1. draw_x + 1 # H
      BY <1>2, <1>g, <1>t, FetchSpan DEF Refetch
    <2>i. 1 \in Nat /\ 1 \in Int /\ 7 \in Int
      BY <1>g
    <2>2. FetchGoesOn(d, c, 1, 1, 7)
      BY <1>2, <2>1, <2>i, FetchOn DEF Refetch
    <2>3. Rest(1 + 2 * LW + 3, 7 + 2 * LW + 3)' => Rest(2 * LW + 4, 2 * LW + 10)'
      BY <1>b, <1>g, <1>t, <2>1 DEF Rest
    <2> QED BY <1>2, <1>b, <1>m, <2>1, <2>2, <2>3 DEF FetchGoesOn, Late0, Rested, Refetch, Holds
  <1>3. CASE Rested(d, 1, 2 * LW + 4, 2 * LW + 10)
    <2>1. 2 * LW + 4 <= draw_x /\ draw_x <= 2 * LW + 10 /\ draw_x + 1 # H /\ draw_x # 0
      BY <1>3, <1>g, <1>t DEF Rested, Rest
    <2>2. Holds(d, 1) /\ ~Holds(c, 0) /\ ~Holds(d, 0)
      BY <1>3, <1>m, <1>t, <1>g DEF Old, Holds, Rested
    <2>3. buf_valid' = buf_valid /\ buf_y' = buf_y /\ Age' = 0
          /\ Fetch(d, 0, 2 * LW + 4, 2 * LW + 10 + 1)'
      BY <1>3, <1>m, <1>g, <2>1, <2>2, RestOn DEF Rested
    <2> QED BY <1>b, <1>m, <1>g, <1>t, <2>1, <2>2, <2>3 DEF Late0, Refetch, Fetch, BeganIn, Holds
  <1>4. CASE Refetch(d, 0, 2 * LW + 4, 2 * LW + 11)
    <2>i. 0 \in Nat /\ 2 * LW + 4 \in Int /\ 2 * LW + 11 \in Int
      BY <1>g
    <2>s. 2 * LW + 11 + 5 <= H /\ 2 * LW + 4 + 2 * LW + 3 > H
      BY <1>g
    <2>1. CASE draw_x + 1 # H
      <3>1. FetchGoesOn(d, c, 0, 2 * LW + 4, 2 * LW + 11)
        BY <1>4, <2>1, <2>i, FetchOn DEF Refetch
      <3>2. ~Rest(2 * LW + 4 + 2 * LW + 3, 2 * LW + 11 + 2 * LW + 3)'
        BY <1>g, <1>t DEF Rest
      <3> QED BY <1>4, <1>b, <1>m, <1>g, <1>t, <2>1, <3>1, <3>2 DEF FetchGoesOn, Late0, Refetch
    <2>2. CASE draw_x + 1 = H
      <3>1. FetchTurns(d, c, 0, 2 * LW + 4, 2 * LW + 11)
        BY <1>4, <2>2, <2>i, <2>s, FetchTurn DEF Refetch
      <3>h. Holds(d, 0)' /\ ~Holds(c, 0)'
        BY <1>4, <1>m, <1>g, <1>t, <3>1 DEF FetchTurns, Holds, Old, Refetch
      <3>y. 0 \in Nat /\ draw_y' \in {2 * 0, 2 * 0 + 1} /\ draw_y' # 0 /\ Turn
        BY <1>n, <2>2
      <3>c. c = Cur /\ d = 1 - c
        BY <1>m, <1>g
      <3>2. Lit' /\ Cur' = d
        BY <3>h, <3>y, <3>c, TurnsTo
      <3>3. Fetch(d, 0, 2 * LW + 4 - H, 2 * LW + 11 - H)'
        <4>1. /\ 0 \in Nat /\ (2 * LW + 4) - H \in Int /\ (2 * LW + 11) - H \in Int
              /\ 2 * LW + 4 - H \in Int /\ 2 * LW + 11 - H \in Int
              /\ 2 * LW + 4 - H <= (2 * LW + 4) - H /\ (2 * LW + 11) - H <= 2 * LW + 11 - H
          BY <1>g
        <4>2. Fetch(d, 0, (2 * LW + 4) - H, (2 * LW + 11) - H)'
          BY <3>1 DEF FetchTurns
        <4> QED BY <4>1, <4>2, Widen
      <3> QED BY <1>4, <1>n, <1>m, <1>g, <1>t, <2>2, <3>1, <3>2, <3>3 DEF FetchTurns, Late1, Refetch, Holds
    <2> QED BY <2>1, <2>2
  <1> QED BY <1>1, <1>2, <1>3, <1>4 DEF Late0

LEMMA Late1Step ==
  ASSUME VarsOK, VarsOK', Ahead, draw_x = 0 => draw_x_d # 0,
         NEW c \in Buffers, NEW d \in Buffers, c # d, Late1(c, d)
  PROVE  Late1(c, d)' \/ Late2(c, d)'
  <1>g. LW \in Nat /\ LW >= 22 /\ H \in Nat /\ Lines \in Nat /\ Lines >= 5 /\ Buffers = {0, 1}
        /\ VTotal \in Nat /\ VTotal > 10 /\ 5 * H >= 12 * LW + 40 /\ 3 * H <= 8 * LW + 7
        /\ d = 1 - c
    BY Geometry DEF Buffers
  <1>t. draw_x \in Nat /\ draw_y \in Nat /\ draw_x' \in Nat /\ draw_x' < H /\ draw_x < H
        /\ buf_valid \in [{0, 1} -> BOOLEAN] /\ buf_y \in [{0, 1} -> Nat]
        /\ buf_y' \in [{0, 1} -> Nat] /\ Age' \in Nat
    BY Types
  <1>m. Cur = c /\ draw_y = 1 /\ Lit /\ Holds(c, 0) /\ ~buf_valid[d]
    BY DEF Late1
  <1>b. draw_x + 1 # H => draw_x' = draw_x + 1 /\ draw_y' = 1 /\ Cur' = c /\ Lit'
    BY <1>m DEF Ahead, Beam
  <1>n. draw_x + 1 = H => draw_x' = 0 /\ draw_y' = 2 /\ Turn
    BY <1>m, <1>g DEF Ahead, Beam
  <1>1. CASE Fetch(c, 0, 2 * LW + 4 - H, 2 * LW + 11 - H)
    <2>1. draw_x + 1 # H
      BY <1>1, <1>g, <1>t, FetchSpan
    <2>i. 0 \in Nat /\ 2 * LW + 4 - H \in Int /\ 2 * LW + 11 - H \in Int
      BY <1>g
    <2>2. FetchGoesOn(c, d, 0, 2 * LW + 4 - H, 2 * LW + 11 - H)
      BY <1>1, <2>1, <2>i, FetchOn
    <2>3. Rest(2 * LW + 4 - H + 2 * LW + 3, 2 * LW + 11 - H + 2 * LW + 3)' => Rest(4 * LW + 7 - H, 4 * LW + 14 - H)'
      BY <1>b, <1>g, <1>t, <2>1 DEF Rest
    <2> QED BY <1>1, <1>b, <1>m, <2>1, <2>2, <2>3 DEF FetchGoesOn, Late1, Holds
  <1>2. CASE Rest(4 * LW + 7 - H, 4 * LW + 14 - H)
    <2>1. 4 * LW + 7 - H <= draw_x /\ draw_x <= 4 * LW + 14 - H /\ draw_x + 1 # H /\ draw_x # 0
      BY <1>2, <1>g, <1>t DEF Rested, Rest
    <2>2. Holds(c, 0) /\ ~Holds(c, 1) /\ ~Holds(d, 1)
      BY <1>2, <1>m, <1>t, <1>g DEF Old, Holds, Rested
    <2>3. buf_valid' = buf_valid /\ buf_y' = buf_y /\ Age' = 0
          /\ Fetch(d, 1, 4 * LW + 7 - H, 4 * LW + 14 - H + 1)'
      BY <1>2, <1>m, <1>g, <2>1, <2>2, RestOn DEF Rested
    <2> QED BY <1>b, <1>m, <1>g, <1>t, <2>1, <2>2, <2>3 DEF Late1, Refetch, Fetch, BeganIn, Holds
  <1>3. CASE Fetch(d, 1, 4 * LW + 7 - H, 4 * LW + 15 - H)
    <2>i. 1 \in Nat /\ 4 * LW + 7 - H \in Int /\ 4 * LW + 15 - H \in Int
      BY <1>g
    <2>s. 4 * LW + 15 - H + 5 <= H /\ 4 * LW + 7 - H + 2 * LW + 3 > H
      BY <1>g
    <2>1. CASE draw_x + 1 # H
      <3>1. FetchGoesOn(d, c, 1, 4 * LW + 7 - H, 4 * LW + 15 - H)
        BY <1>3, <2>1, <2>i, FetchOn
      <3>2. ~Rest(4 * LW + 7 - H + 2 * LW + 3, 4 * LW + 15 - H + 2 * LW + 3)'
        BY <1>g, <1>t DEF Rest
      <3> QED BY <1>3, <1>b, <1>m, <1>g, <1>t, <2>1, <3>1, <3>2 DEF FetchGoesOn, Late1, Holds
    <2>2. CASE draw_x + 1 = H
      <3>1. FetchTurns(d, c, 1, 4 * LW + 7 - H, 4 * LW + 15 - H)
        BY <1>3, <2>2, <2>i, <2>s, FetchTurn
      <3>h. ~Holds(c, 1)' /\ ~Holds(d, 1)'
        BY <1>3, <1>m, <1>g, <1>t, <3>1 DEF FetchTurns, Holds, Old, Refetch
      <3>y. 1 \in Nat /\ draw_y' \in {2 * 1, 2 * 1 + 1} /\ draw_y' # 0 /\ Turn
        BY <1>n, <2>2
      <3>c. c = Cur /\ d = 1 - c
        BY <1>m, <1>g
      <3>2. ~Lit' /\ Cur' = c
        BY <3>h, <3>y, <3>c, TurnsTo
      <3>3. Fetch(d, 1, 4 * LW + 7 - 2 * H, 4 * LW + 15 - 2 * H)'
        <4>1. /\ 1 \in Nat /\ (4 * LW + 7 - H) - H \in Int /\ (4 * LW + 15 - H) - H \in Int
              /\ 4 * LW + 7 - 2 * H \in Int /\ 4 * LW + 15 - 2 * H \in Int
              /\ 4 * LW + 7 - 2 * H <= (4 * LW + 7 - H) - H /\ (4 * LW + 15 - H) - H <= 4 * LW + 15 - 2 * H
          BY <1>g
        <4>2. Fetch(d, 1, (4 * LW + 7 - H) - H, (4 * LW + 15 - H) - H)'
          BY <3>1 DEF FetchTurns
        <4> QED BY <4>1, <4>2, Widen
      <3> QED BY <1>3, <1>n, <1>m, <1>g, <1>t, <2>2, <3>1, <3>2, <3>3 DEF FetchTurns, Late2, Holds
    <2> QED BY <2>1, <2>2
  <1> QED BY <1>1, <1>2, <1>3 DEF Late1

LEMMA Late2Step ==
  ASSUME VarsOK, VarsOK', Ahead, draw_x = 0 => draw_x_d # 0,
         NEW c \in Buffers, NEW d \in Buffers, c # d, Late2(c, d)
  PROVE  Late2(c, d)' \/ Late3(c, d)'
  <1>g. LW \in Nat /\ LW >= 22 /\ H \in Nat /\ Lines \in Nat /\ Lines >= 5 /\ Buffers = {0, 1}
        /\ VTotal \in Nat /\ VTotal > 10 /\ 5 * H >= 12 * LW + 40 /\ 3 * H <= 8 * LW + 7
        /\ d = 1 - c
    BY Geometry DEF Buffers
  <1>t. draw_x \in Nat /\ draw_y \in Nat /\ draw_x' \in Nat /\ draw_x' < H /\ draw_x < H
        /\ buf_valid \in [{0, 1} -> BOOLEAN] /\ buf_y \in [{0, 1} -> Nat]
        /\ buf_y' \in [{0, 1} -> Nat] /\ Age' \in Nat
    BY Types
  <1>m. Cur = c /\ draw_y = 2 /\ ~Lit /\ Holds(c, 0)
    BY DEF Late2
  <1>b. draw_x + 1 # H => draw_x' = draw_x + 1 /\ draw_y' = 2 /\ Cur' = c /\ ~Lit'
    BY <1>m DEF Ahead, Beam
  <1>n. draw_x + 1 = H => draw_x' = 0 /\ draw_y' = 3 /\ Turn
    BY <1>m, <1>g DEF Ahead, Beam
  <1>1. CASE Fetch(d, 1, 4 * LW + 7 - 2 * H, 4 * LW + 15 - 2 * H)
    <2>1. draw_x + 1 # H
      BY <1>1, <1>g, <1>t, FetchSpan
    <2>i. 1 \in Nat /\ 4 * LW + 7 - 2 * H \in Int /\ 4 * LW + 15 - 2 * H \in Int
      BY <1>g
    <2>2. FetchGoesOn(d, c, 1, 4 * LW + 7 - 2 * H, 4 * LW + 15 - 2 * H)
      BY <1>1, <2>1, <2>i, FetchOn
    <2>3. Rest(4 * LW + 7 - 2 * H + 2 * LW + 3, 4 * LW + 15 - 2 * H + 2 * LW + 3)' => Rest(6 * LW + 10 - 2 * H, 6 * LW + 18 - 2 * H)'
      BY <1>b, <1>g, <1>t, <2>1 DEF Rest
    <2> QED BY <1>1, <1>b, <1>m, <2>1, <2>2, <2>3 DEF FetchGoesOn, Late2, Rested, Holds
  <1>2. CASE Rested(d, 1, 6 * LW + 10 - 2 * H, 6 * LW + 18 - 2 * H)
    <2>1. 6 * LW + 10 - 2 * H <= draw_x /\ draw_x <= 6 * LW + 18 - 2 * H /\ draw_x + 1 # H /\ draw_x # 0
      BY <1>2, <1>g, <1>t DEF Rested, Rest
    <2>2. Holds(d, 1) /\ ~Holds(c, 2) /\ ~Holds(d, 2)
      BY <1>2, <1>m, <1>t, <1>g DEF Old, Holds, Rested
    <2>3. buf_valid' = buf_valid /\ buf_y' = buf_y /\ Age' = 0
          /\ Fetch(d, 2, 6 * LW + 10 - 2 * H, 6 * LW + 18 - 2 * H + 1)'
      BY <1>2, <1>m, <1>g, <2>1, <2>2, RestOn DEF Rested
    <2> QED BY <1>b, <1>m, <1>g, <1>t, <2>1, <2>2, <2>3 DEF Late2, Refetch, Fetch, BeganIn, Holds
  <1>3. CASE Refetch(d, 2, 6 * LW + 10 - 2 * H, 6 * LW + 19 - 2 * H)
    <2>i. 2 \in Nat /\ 6 * LW + 10 - 2 * H \in Int /\ 6 * LW + 19 - 2 * H \in Int
      BY <1>g
    <2>s. 6 * LW + 19 - 2 * H + 5 <= H /\ 6 * LW + 10 - 2 * H + 2 * LW + 3 > H
      BY <1>g
    <2>1. CASE draw_x + 1 # H
      <3>1. FetchGoesOn(d, c, 2, 6 * LW + 10 - 2 * H, 6 * LW + 19 - 2 * H)
        BY <1>3, <2>1, <2>i, FetchOn DEF Refetch
      <3>2. ~Rest(6 * LW + 10 - 2 * H + 2 * LW + 3, 6 * LW + 19 - 2 * H + 2 * LW + 3)'
        BY <1>g, <1>t DEF Rest
      <3> QED BY <1>3, <1>b, <1>m, <1>g, <1>t, <2>1, <3>1, <3>2 DEF FetchGoesOn, Late2, Refetch, Holds
    <2>2. CASE draw_x + 1 = H
      <3>1. FetchTurns(d, c, 2, 6 * LW + 10 - 2 * H, 6 * LW + 19 - 2 * H)
        BY <1>3, <2>2, <2>i, <2>s, FetchTurn DEF Refetch
      <3>h. ~Holds(c, 1)' /\ ~Holds(d, 1)'
        BY <1>3, <1>m, <1>g, <1>t, <3>1 DEF FetchTurns, Holds, Old, Refetch
      <3>y. 1 \in Nat /\ draw_y' \in {2 * 1, 2 * 1 + 1} /\ draw_y' # 0 /\ Turn
        BY <1>n, <2>2
      <3>c. c = Cur /\ d = 1 - c
        BY <1>m, <1>g
      <3>2. ~Lit' /\ Cur' = c
        BY <3>h, <3>y, <3>c, TurnsTo
      <3>3. Fetch(d, 2, 6 * LW + 10 - 3 * H, 6 * LW + 19 - 3 * H)'
        <4>1. /\ 2 \in Nat /\ (6 * LW + 10 - 2 * H) - H \in Int /\ (6 * LW + 19 - 2 * H) - H \in Int
              /\ 6 * LW + 10 - 3 * H \in Int /\ 6 * LW + 19 - 3 * H \in Int
              /\ 6 * LW + 10 - 3 * H <= (6 * LW + 10 - 2 * H) - H /\ (6 * LW + 19 - 2 * H) - H <= 6 * LW + 19 - 3 * H
          BY <1>g
        <4>2. Fetch(d, 2, (6 * LW + 10 - 2 * H) - H, (6 * LW + 19 - 2 * H) - H)'
          BY <3>1 DEF FetchTurns
        <4> QED BY <4>1, <4>2, Widen
      <3> QED BY <1>3, <1>n, <1>m, <1>g, <1>t, <2>2, <3>1, <3>2, <3>3 DEF FetchTurns, Late3, Refetch, Holds
    <2> QED BY <2>1, <2>2
  <1> QED BY <1>1, <1>2, <1>3 DEF Late2

LEMMA Late5Step ==
  ASSUME VarsOK, VarsOK', Ahead, draw_x = 0 => draw_x_d # 0,
         NEW c \in Buffers, NEW d \in Buffers, c # d, Late5(c, d)
  PROVE  Late5(c, d)' \/ Late6(c, d)'
  <1>g. LW \in Nat /\ LW >= 22 /\ H \in Nat /\ Lines \in Nat /\ Lines >= 5 /\ Buffers = {0, 1}
        /\ VTotal \in Nat /\ VTotal > 10 /\ 5 * H >= 12 * LW + 40 /\ 3 * H <= 8 * LW + 7
        /\ d = 1 - c
    BY Geometry DEF Buffers
  <1>t. draw_x \in Nat /\ draw_y \in Nat /\ draw_x' \in Nat /\ draw_x' < H /\ draw_x < H
        /\ buf_valid \in [{0, 1} -> BOOLEAN] /\ buf_y \in [{0, 1} -> Nat]
        /\ buf_y' \in [{0, 1} -> Nat] /\ Age' \in Nat
    BY Types
  <1>m. Cur = c /\ draw_y = 5 /\ ~Lit /\ Holds(c, 0)
    BY DEF Late5
  <1>b. draw_x + 1 # H => draw_x' = draw_x + 1 /\ draw_y' = 5 /\ Cur' = c /\ ~Lit'
    BY <1>m DEF Ahead, Beam
  <1>n. draw_x + 1 = H => draw_x' = 0 /\ draw_y' = 6 /\ Turn
    BY <1>m, <1>g DEF Ahead, Beam
  <1>1. CASE Refetch(d, 3, 2 * LW - 1 - H, 12 * LW + 32 - 5 * H)
    <2>1. draw_x + 1 # H
      BY <1>1, <1>g, <1>t, FetchSpan DEF Refetch
    <2>i. 3 \in Nat /\ 2 * LW - 1 - H \in Int /\ 12 * LW + 32 - 5 * H \in Int
      BY <1>g
    <2>2. FetchGoesOn(d, c, 3, 2 * LW - 1 - H, 12 * LW + 32 - 5 * H)
      BY <1>1, <2>1, <2>i, FetchOn DEF Refetch
    <2>3. Rest(2 * LW - 1 - H + 2 * LW + 3, 12 * LW + 32 - 5 * H + 2 * LW + 3)' => Rest(4 * LW + 2 - H, 14 * LW + 35 - 5 * H)'
      BY <1>b, <1>g, <1>t, <2>1 DEF Rest
    <2> QED BY <1>1, <1>b, <1>m, <2>1, <2>2, <2>3 DEF FetchGoesOn, Late5, Rested, Refetch, Holds
  <1>2. CASE Rested(d, 3, 4 * LW + 2 - H, 14 * LW + 35 - 5 * H)
    <2>1. 4 * LW + 2 - H <= draw_x /\ draw_x <= 14 * LW + 35 - 5 * H /\ draw_x + 1 # H /\ draw_x # 0
      BY <1>2, <1>g, <1>t DEF Rested, Rest
    <2>2. Holds(d, 3) /\ ~Holds(c, 2) /\ ~Holds(d, 2)
      BY <1>2, <1>m, <1>t, <1>g DEF Old, Holds, Rested
    <2>3. buf_valid' = buf_valid /\ buf_y' = buf_y /\ Age' = 0
          /\ Fetch(d, 2, 4 * LW + 2 - H, 14 * LW + 35 - 5 * H + 1)'
      BY <1>2, <1>m, <1>g, <2>1, <2>2, RestOn DEF Rested
    <2> QED BY <1>b, <1>m, <1>g, <1>t, <2>1, <2>2, <2>3 DEF Late5, Refetch, Fetch, BeganIn, Holds
  <1>3. CASE Refetch(d, 2, 4 * LW + 2 - H, 14 * LW + 36 - 5 * H)
    <2>i. 2 \in Nat /\ 4 * LW + 2 - H \in Int /\ 14 * LW + 36 - 5 * H \in Int
      BY <1>g
    <2>s. 14 * LW + 36 - 5 * H + 5 <= H /\ 4 * LW + 2 - H + 2 * LW + 3 > H
      BY <1>g
    <2>1. CASE draw_x + 1 # H
      <3>1. FetchGoesOn(d, c, 2, 4 * LW + 2 - H, 14 * LW + 36 - 5 * H)
        BY <1>3, <2>1, <2>i, FetchOn DEF Refetch
      <3>2. ~Rest(4 * LW + 2 - H + 2 * LW + 3, 14 * LW + 36 - 5 * H + 2 * LW + 3)'
        BY <1>g, <1>t DEF Rest
      <3> QED BY <1>3, <1>b, <1>m, <1>g, <1>t, <2>1, <3>1, <3>2 DEF FetchGoesOn, Late5, Refetch, Holds
    <2>2. CASE draw_x + 1 = H
      <3>1. FetchTurns(d, c, 2, 4 * LW + 2 - H, 14 * LW + 36 - 5 * H)
        BY <1>3, <2>2, <2>i, <2>s, FetchTurn DEF Refetch
      <3>h. ~Holds(c, 3)' /\ ~Holds(d, 3)'
        BY <1>3, <1>m, <1>g, <1>t, <3>1 DEF FetchTurns, Holds, Old, Refetch
      <3>y. 3 \in Nat /\ draw_y' \in {2 * 3, 2 * 3 + 1} /\ draw_y' # 0 /\ Turn
        BY <1>n, <2>2
      <3>c. c = Cur /\ d = 1 - c
        BY <1>m, <1>g
      <3>2. ~Lit' /\ Cur' = c
        BY <3>h, <3>y, <3>c, TurnsTo
      <3>3. Fetch(d, 2, 4 * LW + 2 - 2 * H, 14 * LW + 36 - 6 * H)'
        <4>1. /\ 2 \in Nat /\ (4 * LW + 2 - H) - H \in Int /\ (14 * LW + 36 - 5 * H) - H \in Int
              /\ 4 * LW + 2 - 2 * H \in Int /\ 14 * LW + 36 - 6 * H \in Int
              /\ 4 * LW + 2 - 2 * H <= (4 * LW + 2 - H) - H /\ (14 * LW + 36 - 5 * H) - H <= 14 * LW + 36 - 6 * H
          BY <1>g
        <4>2. Fetch(d, 2, (4 * LW + 2 - H) - H, (14 * LW + 36 - 5 * H) - H)'
          BY <3>1 DEF FetchTurns
        <4> QED BY <4>1, <4>2, Widen
      <3> QED BY <1>3, <1>n, <1>m, <1>g, <1>t, <2>2, <3>1, <3>2, <3>3 DEF FetchTurns, Late6, Refetch, Holds
    <2> QED BY <2>1, <2>2
  <1> QED BY <1>1, <1>2, <1>3 DEF Late5

LEMMA Late6Step ==
  ASSUME VarsOK, VarsOK', Ahead, draw_x = 0 => draw_x_d # 0,
         NEW c \in Buffers, NEW d \in Buffers, c # d, Late6(c, d)
  PROVE  Late6(c, d)' \/ Steady(d, c, 3)'
  <1>g. LW \in Nat /\ LW >= 22 /\ H \in Nat /\ Lines \in Nat /\ Lines >= 5 /\ Buffers = {0, 1}
        /\ VTotal \in Nat /\ VTotal > 10 /\ 5 * H >= 12 * LW + 40 /\ 3 * H <= 8 * LW + 7
        /\ d = 1 - c
    BY Geometry DEF Buffers
  <1>t. draw_x \in Nat /\ draw_y \in Nat /\ draw_x' \in Nat /\ draw_x' < H /\ draw_x < H
        /\ buf_valid \in [{0, 1} -> BOOLEAN] /\ buf_y \in [{0, 1} -> Nat]
        /\ buf_y' \in [{0, 1} -> Nat] /\ Age' \in Nat
    BY Types
  <1>m. Cur = c /\ draw_y = 6 /\ ~Lit /\ Holds(c, 0)
    BY DEF Late6
  <1>b. draw_x + 1 # H => draw_x' = draw_x + 1 /\ draw_y' = 6 /\ Cur' = c /\ ~Lit'
    BY <1>m DEF Ahead, Beam
  <1>n. draw_x + 1 = H => draw_x' = 0 /\ draw_y' = 7 /\ Turn
    BY <1>m, <1>g DEF Ahead, Beam
  <1>1. CASE Refetch(d, 2, 4 * LW + 2 - 2 * H, 14 * LW + 36 - 6 * H)
    <2>1. draw_x + 1 # H
      BY <1>1, <1>g, <1>t, FetchSpan DEF Refetch
    <2>i. 2 \in Nat /\ 4 * LW + 2 - 2 * H \in Int /\ 14 * LW + 36 - 6 * H \in Int
      BY <1>g
    <2>2. FetchGoesOn(d, c, 2, 4 * LW + 2 - 2 * H, 14 * LW + 36 - 6 * H)
      BY <1>1, <2>1, <2>i, FetchOn DEF Refetch
    <2>3. Rest(4 * LW + 2 - 2 * H + 2 * LW + 3, 14 * LW + 36 - 6 * H + 2 * LW + 3)' => Rest(6 * LW + 5 - 2 * H, 16 * LW + 39 - 6 * H)'
      BY <1>b, <1>g, <1>t, <2>1 DEF Rest
    <2> QED BY <1>1, <1>b, <1>m, <2>1, <2>2, <2>3 DEF FetchGoesOn, Late6, Rested, Refetch, Holds
  <1>2. CASE Rested(d, 2, 6 * LW + 5 - 2 * H, 16 * LW + 39 - 6 * H)
    <2>1. 6 * LW + 5 - 2 * H <= draw_x /\ draw_x <= 16 * LW + 39 - 6 * H /\ draw_x + 1 # H /\ draw_x # 0
      BY <1>2, <1>g, <1>t DEF Rested, Rest
    <2>2. Holds(d, 2) /\ ~Holds(c, 3) /\ ~Holds(d, 3)
      BY <1>2, <1>m, <1>t, <1>g DEF Old, Holds, Rested
    <2>3. buf_valid' = buf_valid /\ buf_y' = buf_y /\ Age' = 0
          /\ Fetch(d, 3, 6 * LW + 5 - 2 * H, 16 * LW + 39 - 6 * H + 1)'
      BY <1>2, <1>m, <1>g, <2>1, <2>2, RestOn DEF Rested
    <2> QED BY <1>b, <1>m, <1>g, <1>t, <2>1, <2>2, <2>3 DEF Late6, Refetch, Fetch, BeganIn, Holds
  <1>3. CASE Refetch(d, 3, 6 * LW + 5 - 2 * H, 16 * LW + 40 - 6 * H)
    <2>i. 3 \in Nat /\ 6 * LW + 5 - 2 * H \in Int /\ 16 * LW + 40 - 6 * H \in Int
      BY <1>g
    <2>s. 16 * LW + 40 - 6 * H + 5 <= H /\ 6 * LW + 5 - 2 * H + 2 * LW + 3 > H
      BY <1>g
    <2>1. CASE draw_x + 1 # H
      <3>1. FetchGoesOn(d, c, 3, 6 * LW + 5 - 2 * H, 16 * LW + 40 - 6 * H)
        BY <1>3, <2>1, <2>i, FetchOn DEF Refetch
      <3>2. ~Rest(6 * LW + 5 - 2 * H + 2 * LW + 3, 16 * LW + 40 - 6 * H + 2 * LW + 3)'
        BY <1>g, <1>t DEF Rest
      <3> QED BY <1>3, <1>b, <1>m, <1>g, <1>t, <2>1, <3>1, <3>2 DEF FetchGoesOn, Late6, Refetch, Holds
    <2>2. CASE draw_x + 1 = H
      <3>1. FetchTurns(d, c, 3, 6 * LW + 5 - 2 * H, 16 * LW + 40 - 6 * H)
        BY <1>3, <2>2, <2>i, <2>s, FetchTurn DEF Refetch
      <3>h. Holds(d, 3)' /\ ~Holds(c, 3)'
        BY <1>3, <1>m, <1>g, <1>t, <3>1 DEF FetchTurns, Holds, Old, Refetch
      <3>y. 3 \in Nat /\ draw_y' \in {2 * 3, 2 * 3 + 1} /\ draw_y' # 0 /\ Turn
        BY <1>n, <2>2
      <3>c. c = Cur /\ d = 1 - c
        BY <1>m, <1>g
      <3>2. Lit' /\ Cur' = d
        BY <3>h, <3>y, <3>c, TurnsTo
      <3>4. Fetching' /\ fill_buf' = d /\ fill_y' = 3 /\ draw_x' + 5 <= Age'
        <4>1. 3 \in Nat /\ (6 * LW + 5 - 2 * H) - H \in Int /\ (16 * LW + 40 - 6 * H) - H \in Int /\ (16 * LW + 40 - 6 * H) - H + 5 <= 0
          BY <1>g
        <4>2. Fetch(d, 3, (6 * LW + 5 - 2 * H) - H, (16 * LW + 40 - 6 * H) - H)'
          BY <3>1 DEF FetchTurns
        <4> QED BY <4>1, <4>2, FarAhead
      <3>5. OldLine(c, 3)' /\ Holds(c, 0)'
        BY <1>m, <1>g, <1>t, <3>1 DEF FetchTurns, OldLine, Holds
      <3>6. 3 >= 2 /\ 3 < Lines
        BY <1>g
      <3> QED BY <3>1, <3>y, <3>h, <3>2, <3>4, <3>5, <3>6 DEF FetchTurns, Steady, Holds
    <2> QED BY <2>1, <2>2
  <1> QED BY <1>1, <1>2, <1>3 DEF Late6

LEMMA Late3Step ==
  ASSUME VarsOK, VarsOK', Ahead, draw_x = 0 => draw_x_d # 0,
         NEW c \in Buffers, NEW d \in Buffers, c # d, Late3(c, d)
  PROVE  Late3(c, d)' \/ Late4(c, d)' \/ Steady(d, c, 2)'
  <1>g. LW \in Nat /\ LW >= 22 /\ H \in Nat /\ Lines \in Nat /\ Lines >= 5 /\ Buffers = {0, 1}
        /\ VTotal \in Nat /\ VTotal > 10 /\ 5 * H >= 12 * LW + 40 /\ 3 * H <= 8 * LW + 7
        /\ d = 1 - c
    BY Geometry DEF Buffers
  <1>t. draw_x \in Nat /\ draw_y \in Nat /\ draw_x' \in Nat /\ draw_x' < H /\ draw_x < H
        /\ buf_valid \in [{0, 1} -> BOOLEAN] /\ buf_y \in [{0, 1} -> Nat]
        /\ buf_y' \in [{0, 1} -> Nat] /\ Age' \in Nat
    BY Types
  <1>m. Cur = c /\ draw_y = 3 /\ ~Lit /\ Holds(c, 0)
    BY DEF Late3
  <1>b. draw_x + 1 # H => draw_x' = draw_x + 1 /\ draw_y' = 3 /\ Cur' = c /\ ~Lit'
    BY <1>m DEF Ahead, Beam
  <1>n. draw_x + 1 = H => draw_x' = 0 /\ draw_y' = 4 /\ Turn
    BY <1>m, <1>g DEF Ahead, Beam
  <1>1. CASE Refetch(d, 2, 6 * LW + 10 - 3 * H, 6 * LW + 19 - 3 * H)
    <2>1. draw_x + 1 # H
      BY <1>1, <1>g, <1>t, FetchSpan DEF Refetch
    <2>i. 2 \in Nat /\ 6 * LW + 10 - 3 * H \in Int /\ 6 * LW + 19 - 3 * H \in Int
      BY <1>g
    <2>2. FetchGoesOn(d, c, 2, 6 * LW + 10 - 3 * H, 6 * LW + 19 - 3 * H)
      BY <1>1, <2>1, <2>i, FetchOn DEF Refetch
    <2>3. Rest(6 * LW + 10 - 3 * H + 2 * LW + 3, 6 * LW + 19 - 3 * H + 2 * LW + 3)' => Rest(8 * LW + 13 - 3 * H, 8 * LW + 22 - 3 * H)'
      BY <1>b, <1>g, <1>t, <2>1 DEF Rest
    <2> QED BY <1>1, <1>b, <1>m, <2>1, <2>2, <2>3 DEF FetchGoesOn, Late3, Rested, Refetch, Holds
  <1>2. CASE Rested(d, 2, 8 * LW + 13 - 3 * H, 8 * LW + 22 - 3 * H)
    <2>1. 8 * LW + 13 - 3 * H <= draw_x /\ draw_x <= 8 * LW + 22 - 3 * H /\ draw_x + 1 # H /\ draw_x # 0
      BY <1>2, <1>g, <1>t DEF Rested, Rest
    <2>2. Holds(d, 2) /\ ~Holds(c, 1) /\ ~Holds(d, 1)
      BY <1>2, <1>m, <1>t, <1>g DEF Old, Holds, Rested
    <2>3. buf_valid' = buf_valid /\ buf_y' = buf_y /\ Age' = 0
          /\ Fetch(d, 1, 8 * LW + 13 - 3 * H, 8 * LW + 22 - 3 * H + 1)'
      BY <1>2, <1>m, <1>g, <2>1, <2>2, RestOn DEF Rested
    <2> QED BY <1>b, <1>m, <1>g, <1>t, <2>1, <2>2, <2>3 DEF Late3, Refetch, Fetch, BeganIn, Holds
  <1>3. CASE Refetch(d, 1, 8 * LW + 13 - 3 * H, 8 * LW + 23 - 3 * H)
    <2>i. 1 \in Nat /\ 8 * LW + 13 - 3 * H \in Int /\ 8 * LW + 23 - 3 * H \in Int
      BY <1>g
    <2>1. CASE draw_x + 1 # H
      <3>1. FetchGoesOn(d, c, 1, 8 * LW + 13 - 3 * H, 8 * LW + 23 - 3 * H)
        BY <1>3, <2>1, <2>i, FetchOn DEF Refetch
      <3>2. Rest(8 * LW + 13 - 3 * H + 2 * LW + 3, 8 * LW + 23 - 3 * H + 2 * LW + 3)' => Rest(10 * LW + 16 - 3 * H, 10 * LW + 26 - 3 * H)'
        BY <1>g, <1>t DEF Rest
      <3> QED BY <1>3, <1>b, <1>m, <2>1, <3>1, <3>2 DEF FetchGoesOn, Late3, Rested, Refetch, Holds
    <2>2. CASE draw_x + 1 = H
      <3>s. 8 * LW + 23 - 3 * H + 5 <= H
        BY <1>g
      <3>1. FetchTurnsOrEnds(d, c, 1, 8 * LW + 13 - 3 * H, 8 * LW + 23 - 3 * H)
        BY <1>3, <2>2, <2>i, <3>s, FetchTurnOrEnd DEF Refetch
      <3>y. 2 \in Nat /\ draw_y' \in {2 * 2, 2 * 2 + 1} /\ draw_y' # 0 /\ Turn
        BY <1>n, <2>2
      <3>c. c = Cur /\ d = 1 - c
        BY <1>m, <1>g
      <3>h. ~Holds(d, 2)' /\ ~Holds(c, 2)' /\ Holds(c, 0)' /\ Holds(d, 1)'
        <4>1. buf_valid'[c] = buf_valid[c] /\ buf_y'[c] = buf_y[c] /\ buf_y'[d] = 1
          BY <3>1 DEF FetchTurnsOrEnds
        <4>2. buf_valid[d] /\ (buf_valid'[d] = buf_valid[d] \/ buf_valid'[d])
          BY <1>3, <3>1 DEF FetchTurnsOrEnds, Refetch
        <4>3. buf_valid'[d]
          BY <4>2
        <4>4. buf_valid'[c] /\ buf_y'[c] = 0
          BY <1>m, <4>1 DEF Holds
        <4> QED BY <4>1, <4>3, <4>4 DEF Holds
      <3>2. ~Lit' /\ Cur' = c
        BY <3>y, <3>c, <3>h, TurnsTo
      <3>3. Fetch(d, 1, (8 * LW + 13 - 3 * H) - H, (8 * LW + 23 - 3 * H) - H)' => Fetch(d, 1, 8 * LW + 13 - 4 * H, 8 * LW + 23 - 4 * H)'
        <4>1. /\ 1 \in Nat /\ (8 * LW + 13 - 3 * H) - H \in Int /\ (8 * LW + 23 - 3 * H) - H \in Int
              /\ 8 * LW + 13 - 4 * H \in Int /\ 8 * LW + 23 - 4 * H \in Int
              /\ 8 * LW + 13 - 4 * H <= (8 * LW + 13 - 3 * H) - H /\ (8 * LW + 23 - 3 * H) - H <= 8 * LW + 23 - 4 * H
          BY <1>g
        <4> QED BY <4>1, Widen
      <3>4. ASSUME Rest(8 * LW + 13 - 3 * H + 2 * LW + 3 - H, 8 * LW + 23 - 3 * H + 2 * LW + 3 - H)'
            PROVE  Rest(0, 10 * LW + 27 - 4 * H)' /\ 4 * H <= 10 * LW + 26
        <4>1. Clear' /\ draw_x' = 0 /\ draw_x' <= 8 * LW + 23 - 3 * H + 2 * LW + 3 - H
          BY <1>n, <2>2, <3>4 DEF Rest
        <4>2. 4 * H <= 10 * LW + 26
          BY <1>g, <4>1
        <4>3. 0 <= 10 * LW + 27 - 4 * H
          BY <1>g, <4>2
        <4> QED BY <4>1, <4>2, <4>3 DEF Rest
      <3>5. CASE Fetch(d, 1, (8 * LW + 13 - 3 * H) - H, (8 * LW + 23 - 3 * H) - H)'
        BY <1>n, <2>2, <3>h, <3>2, <3>3, <3>5 DEF Late4, Refetch, Holds
      <3>6. CASE Rest(8 * LW + 13 - 3 * H + 2 * LW + 3 - H, 8 * LW + 23 - 3 * H + 2 * LW + 3 - H)'
        BY <1>n, <2>2, <3>h, <3>2, <3>4, <3>6 DEF Late4, Rested
      <3> QED BY <3>1, <3>5, <3>6 DEF FetchTurnsOrEnds
    <2> QED BY <2>1, <2>2
  <1>4. CASE Rested(d, 1, 10 * LW + 16 - 3 * H, 10 * LW + 26 - 3 * H)
    <2>i. 1 \in Nat /\ draw_y \in {2 * 1, 2 * 1 + 1} /\ 10 * LW + 16 - 3 * H \in Int /\ 10 * LW + 26 - 3 * H \in Int
      BY <1>m, <1>g
    <2>h. Holds(d, 1) /\ ~Holds(c, 2) /\ ~Holds(d, 2) /\ Rest(10 * LW + 16 - 3 * H, 10 * LW + 26 - 3 * H) /\ draw_x # 0
      BY <1>4, <1>m, <1>g, <1>t DEF Rested, Rest, Holds
    <2>1. /\ buf_valid' = buf_valid /\ buf_y' = buf_y /\ Age' = 0
          /\ IF draw_x + 1 # H THEN Fetch(d, 2, 10 * LW + 16 - 3 * H, 10 * LW + 26 - 3 * H + 1)'
             ELSE Fetch(d, 2, (10 * LW + 16 - 3 * H) - H, (10 * LW + 26 - 3 * H) + 1 - H)'
      BY <1>m, <1>g, <2>i, <2>h, RestOn
    <2>2. CASE draw_x + 1 # H
      <3>1. Fetch(d, 2, 10 * LW + 16 - 3 * H, 10 * LW + 27 - 3 * H)'
        <4>1. /\ 2 \in Nat /\ 10 * LW + 16 - 3 * H \in Int /\ 10 * LW + 26 - 3 * H + 1 \in Int /\ 10 * LW + 27 - 3 * H \in Int
              /\ 10 * LW + 16 - 3 * H <= 10 * LW + 16 - 3 * H /\ 10 * LW + 26 - 3 * H + 1 <= 10 * LW + 27 - 3 * H
          BY <1>g
        <4> QED BY <2>1, <2>2, <4>1, Widen
      <3> QED BY <1>b, <1>m, <2>1, <2>2, <2>h, <3>1 DEF Late3, Refetch, Holds
    <2>3. CASE draw_x + 1 = H
      <3>y. 2 \in Nat /\ draw_y' \in {2 * 2, 2 * 2 + 1} /\ draw_y' # 0 /\ Turn
        BY <1>n, <2>3
      <3>c. c = Cur /\ d = 1 - c
        BY <1>m, <1>g
      <3>h. ~Holds(d, 2)' /\ ~Holds(c, 2)' /\ Holds(c, 0)' /\ buf_valid'[d]
        BY <1>m, <2>1, <2>h DEF Holds
      <3>1. ~Lit' /\ Cur' = c
        BY <3>y, <3>c, <3>h, TurnsTo
      <3>2. Fetch(d, 2, 0 - 4, 10 * LW + 28 - 4 * H)'
        <4>1. draw_x <= 10 * LW + 26 - 3 * H
          BY <2>h DEF Rest
        <4>2. 0 <= 10 * LW + 28 - 4 * H
          BY <1>g, <1>t, <2>3, <4>1
        <4>3. Fetching' /\ fill_buf' = d /\ fill_y' = 2 /\ draw_x' = 0
          BY <1>n, <2>1, <2>3 DEF Fetch
        <4> QED BY <2>1, <4>2, <4>3 DEF Fetch, BeganIn
      <3> QED BY <1>n, <2>3, <3>h, <3>1, <3>2 DEF Late4, Refetch
    <2> QED BY <2>2, <2>3
  <1>5. CASE Refetch(d, 2, 10 * LW + 16 - 3 * H, 10 * LW + 27 - 3 * H) /\ (Age < 5 => buf_y[d] = 1)
    <2>i. 2 \in Nat /\ 10 * LW + 16 - 3 * H \in Int /\ 10 * LW + 27 - 3 * H \in Int
      BY <1>g
    <2>f. Fetch(d, 2, 10 * LW + 16 - 3 * H, 10 * LW + 27 - 3 * H) /\ buf_valid[d] /\ Fetching
      BY <1>5 DEF Refetch, Fetch
    <2>k. Fetching' /\ Age' < 5 => buf_y'[d] = 1
      BY <1>5, <2>f, LabelKept
    <2>1. CASE draw_x + 1 # H
      <3>1. FetchGoesOn(d, c, 2, 10 * LW + 16 - 3 * H, 10 * LW + 27 - 3 * H)
        BY <2>f, <2>1, <2>i, FetchOn
      <3>2. ~Rest(10 * LW + 16 - 3 * H + 2 * LW + 3, 10 * LW + 27 - 3 * H + 2 * LW + 3)'
        BY <1>g, <1>t DEF Rest
      <3>3. Fetch(d, 2, 10 * LW + 16 - 3 * H, 10 * LW + 27 - 3 * H)' /\ buf_valid'[d] /\ Holds(c, 0)'
        BY <1>m, <2>f, <3>1, <3>2 DEF FetchGoesOn, Holds
      <3>4. Fetching'
        BY <3>3 DEF Fetch
      <3> QED BY <1>b, <2>1, <2>k, <3>3, <3>4 DEF Late3, Refetch
    <2>2. CASE draw_x + 1 = H
      <3>y. 2 \in Nat /\ draw_y' \in {2 * 2, 2 * 2 + 1} /\ draw_y' # 0 /\ Turn
        BY <1>n, <2>2
      <3>c. c = Cur /\ d = 1 - c
        BY <1>m, <1>g
      <3>1. FetchLeaves(d, c, 2, 10 * LW + 16 - 3 * H, 10 * LW + 27 - 3 * H)
        BY <2>f, <2>2, <2>i, FetchLeave
      <3>2. ~Rest(10 * LW + 16 - 3 * H + 2 * LW + 3 - H, 10 * LW + 27 - 3 * H + 2 * LW + 3 - H)'
        <4>1. draw_x' = 0
          BY <1>n, <2>2
        <4> QED BY <1>g, <4>1 DEF Rest
      <3>3. /\ buf_valid'[d] /\ Holds(c, 0)' /\ ~Holds(c, 2)'
            /\ Fetch(d, 2, (10 * LW + 16 - 3 * H) - H, (10 * LW + 27 - 3 * H) - H)'
        <4>1. buf_valid'[c] = buf_valid[c] /\ buf_y'[c] = buf_y[c]
          BY <3>1 DEF FetchLeaves
        <4>2. buf_valid'[d] = buf_valid[d]
              /\ Fetch(d, 2, (10 * LW + 16 - 3 * H) - H, (10 * LW + 27 - 3 * H) - H)'
          BY <3>1, <3>2 DEF FetchLeaves
        <4>3. buf_valid'[d]
          BY <2>f, <4>2
        <4>4. buf_valid'[c] /\ buf_y'[c] = 0
          BY <1>m, <4>1 DEF Holds
        <4> QED BY <4>2, <4>3, <4>4 DEF Holds
      <3>4. Fetching' /\ fill_buf' = d /\ fill_y' = 2 /\ draw_x' = 0
            /\ 0 - Age' <= (10 * LW + 27 - 3 * H) - H
        BY <1>n, <2>2, <3>3 DEF Fetch, BeganIn
      <3>5. CASE Age' < 5
        <4>1. ~Holds(d, 2)'
          BY <2>k, <3>4, <3>5 DEF Holds
        <4>2. ~Lit' /\ Cur' = c
          BY <3>y, <3>c, <3>3, <4>1, TurnsTo
        <4>3. 0 - 4 <= 0 - Age' /\ 0 - Age' <= 10 * LW + 28 - 4 * H /\ (Age' = 0 => 0 - 4 < 0)
          <5>1. 0 - 4 <= 0 - Age'
            <6>1. \A m \in Nat : m < 5 => 0 - 4 <= 0 - m
              OBVIOUS
            <6> QED BY <1>t, <3>5, <6>1
          <5>2. (10 * LW + 27 - 3 * H) - H <= 10 * LW + 28 - 4 * H
            BY <1>g
          <5>3. (10 * LW + 27 - 3 * H) - H \in Int /\ 10 * LW + 28 - 4 * H \in Int /\ 0 - Age' \in Int
            BY <1>g, <1>t
          <5> QED BY <3>4, <5>1, <5>2, <5>3
        <4>4. Fetch(d, 2, 0 - 4, 10 * LW + 28 - 4 * H)'
          BY <3>4, <4>3 DEF Fetch, BeganIn
        <4> QED BY <1>n, <2>2, <3>3, <4>2, <4>4 DEF Late4, Refetch
      <3>6. CASE ~(Age' < 5)
        <4>1. Age' >= 5
          BY <1>t, <3>6
        <4>2. Holds(d, 2)'
          BY <3>3, <3>4, <4>1, LabelNext DEF Holds
        <4>3. Lit' /\ Cur' = d
          BY <3>y, <3>c, <3>3, <4>2, TurnsTo
        <4>4. draw_x' + 5 <= Age' /\ 2 < Lines /\ OldLine(c, 2)' /\ buf_valid'[c]
          BY <1>g, <3>3, <3>4, <4>1 DEF OldLine, Holds
        <4> QED BY <3>y, <3>4, <4>2, <4>3, <4>4 DEF Steady
      <3> QED BY <3>5, <3>6
    <2> QED BY <2>1, <2>2
  <1> QED BY <1>1, <1>2, <1>3, <1>4, <1>5 DEF Late3

LEMMA Late4Step ==
  ASSUME VarsOK, VarsOK', Ahead, draw_x = 0 => draw_x_d # 0,
         NEW c \in Buffers, NEW d \in Buffers, c # d, Late4(c, d)
  PROVE  Late4(c, d)' \/ Late5(c, d)'
  <1>g. LW \in Nat /\ LW >= 22 /\ H \in Nat /\ Lines \in Nat /\ Lines >= 5 /\ Buffers = {0, 1}
        /\ VTotal \in Nat /\ VTotal > 10 /\ 5 * H >= 12 * LW + 40 /\ 3 * H <= 8 * LW + 7
        /\ d = 1 - c
    BY Geometry DEF Buffers
  <1>t. draw_x \in Nat /\ draw_y \in Nat /\ draw_x' \in Nat /\ draw_x' < H /\ draw_x < H
        /\ buf_valid \in [{0, 1} -> BOOLEAN] /\ buf_y \in [{0, 1} -> Nat]
        /\ buf_y' \in [{0, 1} -> Nat] /\ Age' \in Nat
    BY Types
  <1>m. Cur = c /\ draw_y = 4 /\ ~Lit /\ Holds(c, 0)
    BY DEF Late4
  <1>b. draw_x + 1 # H => draw_x' = draw_x + 1 /\ draw_y' = 4 /\ Cur' = c /\ ~Lit'
    BY <1>m DEF Ahead, Beam
  <1>n. draw_x + 1 = H => draw_x' = 0 /\ draw_y' = 5 /\ Turn
    BY <1>m, <1>g DEF Ahead, Beam
  <1>1. CASE Refetch(d, 1, 8 * LW + 13 - 4 * H, 8 * LW + 23 - 4 * H)
    <2>1. draw_x + 1 # H
      BY <1>1, <1>g, <1>t, FetchSpan DEF Refetch
    <2>i. 1 \in Nat /\ 8 * LW + 13 - 4 * H \in Int /\ 8 * LW + 23 - 4 * H \in Int
      BY <1>g
    <2>2. FetchGoesOn(d, c, 1, 8 * LW + 13 - 4 * H, 8 * LW + 23 - 4 * H)
      BY <1>1, <2>1, <2>i, FetchOn DEF Refetch
    <2>3. Rest(8 * LW + 13 - 4 * H + 2 * LW + 3, 8 * LW + 23 - 4 * H + 2 * LW + 3)' => Rest(0, 10 * LW + 27 - 4 * H)'
      BY <1>b, <1>g, <1>t, <2>1 DEF Rest
    <2>4. draw_x' # 0
      BY <1>b, <1>t, <2>1
    <2> QED BY <1>1, <1>b, <1>m, <2>1, <2>2, <2>3, <2>4 DEF FetchGoesOn, Late4, Rested, Refetch, Holds
  <1>2. CASE Rested(d, 1, 0, 10 * LW + 27 - 4 * H) /\ (draw_x = 0 => 4 * H <= 10 * LW + 26)
    <2>i. 2 \in Nat /\ draw_y \in {2 * 2, 2 * 2 + 1} /\ 0 \in Int /\ 10 * LW + 27 - 4 * H \in Int
      BY <1>m, <1>g
    <2>h. Holds(d, 1) /\ ~Holds(c, 2) /\ ~Holds(d, 2) /\ Rest(0, 10 * LW + 27 - 4 * H) /\ draw_x <= 10 * LW + 27 - 4 * H
      BY <1>2, <1>m, <1>g, <1>t DEF Rested, Rest, Holds
    <2>n. draw_x + 1 # H
      BY <1>g, <1>t, <2>h
    <2>1. CASE draw_x # 0
      <3>1. /\ buf_valid' = buf_valid /\ buf_y' = buf_y /\ Age' = 0
            /\ Fetch(d, 2, 0, 10 * LW + 27 - 4 * H + 1)'
        BY <1>m, <1>g, <2>i, <2>h, <2>n, <2>1, RestOn
      <3>2. Fetch(d, 2, 0 - 4, 10 * LW + 28 - 4 * H)'
        <4>1. /\ 2 \in Nat /\ 0 \in Int /\ 10 * LW + 27 - 4 * H + 1 \in Int /\ 0 - 4 \in Int /\ 10 * LW + 28 - 4 * H \in Int
              /\ 0 - 4 <= 0 /\ 10 * LW + 27 - 4 * H + 1 <= 10 * LW + 28 - 4 * H
          BY <1>g
        <4> QED BY <3>1, <4>1, Widen
      <3> QED BY <1>b, <1>m, <2>n, <2>h, <3>1, <3>2 DEF Late4, Refetch, Holds
    <2>2. CASE draw_x = 0
      <3>1. buf_valid' = buf_valid /\ buf_y' = buf_y /\ Clear'
        BY <1>m, <2>i, <2>h, <2>2, RestOn
      <3>2. draw_x' = 1 /\ 1 <= 10 * LW + 27 - 4 * H
        BY <1>2, <1>b, <1>g, <2>n, <2>2
      <3>3. Rest(0, 10 * LW + 27 - 4 * H)'
        BY <3>1, <3>2 DEF Rest
      <3> QED BY <1>b, <1>m, <2>n, <2>h, <3>1, <3>2, <3>3 DEF Late4, Rested, Holds
    <2> QED BY <2>1, <2>2
  <1>3. CASE Refetch(d, 2, 0 - 4, 10 * LW + 28 - 4 * H)
    <2>1. draw_x + 1 # H
      BY <1>3, <1>g, <1>t, FetchSpan DEF Refetch
    <2>i. 2 \in Nat /\ 0 - 4 \in Int /\ 10 * LW + 28 - 4 * H \in Int
      BY <1>g
    <2>2. FetchGoesOn(d, c, 2, 0 - 4, 10 * LW + 28 - 4 * H)
      BY <1>3, <2>1, <2>i, FetchOn DEF Refetch
    <2>3. Rest(0 - 4 + 2 * LW + 3, 10 * LW + 28 - 4 * H + 2 * LW + 3)' => Rest(2 * LW - 1, 12 * LW + 31 - 4 * H)'
      BY <1>b, <1>g, <1>t, <2>1 DEF Rest
    <2> QED BY <1>3, <1>b, <1>m, <2>1, <2>2, <2>3 DEF FetchGoesOn, Late4, Rested, Refetch, Holds
  <1>4. CASE Rested(d, 2, 2 * LW - 1, 12 * LW + 31 - 4 * H)
    <2>1. 2 * LW - 1 <= draw_x /\ draw_x <= 12 * LW + 31 - 4 * H /\ draw_x + 1 # H /\ draw_x # 0
      BY <1>4, <1>g, <1>t DEF Rested, Rest
    <2>2. Holds(d, 2) /\ ~Holds(c, 3) /\ ~Holds(d, 3)
      BY <1>4, <1>m, <1>t, <1>g DEF Old, Holds, Rested
    <2>3. buf_valid' = buf_valid /\ buf_y' = buf_y /\ Age' = 0
          /\ Fetch(d, 3, 2 * LW - 1, 12 * LW + 31 - 4 * H + 1)'
      BY <1>4, <1>m, <1>g, <2>1, <2>2, RestOn DEF Rested
    <2> QED BY <1>b, <1>m, <1>g, <1>t, <2>1, <2>2, <2>3 DEF Late4, Refetch, Fetch, BeganIn, Holds
  <1>5. CASE Refetch(d, 3, 2 * LW - 1, 12 * LW + 32 - 4 * H)
    <2>i. 3 \in Nat /\ 2 * LW - 1 \in Int /\ 12 * LW + 32 - 4 * H \in Int
      BY <1>g
    <2>s. 12 * LW + 32 - 4 * H + 5 <= H /\ 2 * LW - 1 + 2 * LW + 3 > H
      BY <1>g
    <2>1. CASE draw_x + 1 # H
      <3>1. FetchGoesOn(d, c, 3, 2 * LW - 1, 12 * LW + 32 - 4 * H)
        BY <1>5, <2>1, <2>i, FetchOn DEF Refetch
      <3>2. ~Rest(2 * LW - 1 + 2 * LW + 3, 12 * LW + 32 - 4 * H + 2 * LW + 3)'
        BY <1>g, <1>t DEF Rest
      <3> QED BY <1>5, <1>b, <1>m, <1>g, <1>t, <2>1, <3>1, <3>2 DEF FetchGoesOn, Late4, Refetch, Holds
    <2>2. CASE draw_x + 1 = H
      <3>1. FetchTurns(d, c, 3, 2 * LW - 1, 12 * LW + 32 - 4 * H)
        BY <1>5, <2>2, <2>i, <2>s, FetchTurn DEF Refetch
      <3>h. ~Holds(c, 2)' /\ ~Holds(d, 2)'
        BY <1>5, <1>m, <1>g, <1>t, <3>1 DEF FetchTurns, Holds, Old, Refetch
      <3>y. 2 \in Nat /\ draw_y' \in {2 * 2, 2 * 2 + 1} /\ draw_y' # 0 /\ Turn
        BY <1>n, <2>2
      <3>c. c = Cur /\ d = 1 - c
        BY <1>m, <1>g
      <3>2. ~Lit' /\ Cur' = c
        BY <3>h, <3>y, <3>c, TurnsTo
      <3>3. Fetch(d, 3, 2 * LW - 1 - H, 12 * LW + 32 - 5 * H)'
        <4>1. /\ 3 \in Nat /\ (2 * LW - 1) - H \in Int /\ (12 * LW + 32 - 4 * H) - H \in Int
              /\ 2 * LW - 1 - H \in Int /\ 12 * LW + 32 - 5 * H \in Int
              /\ 2 * LW - 1 - H <= (2 * LW - 1) - H /\ (12 * LW + 32 - 4 * H) - H <= 12 * LW + 32 - 5 * H
          BY <1>g
        <4>2. Fetch(d, 3, (2 * LW - 1) - H, (12 * LW + 32 - 4 * H) - H)'
          BY <3>1 DEF FetchTurns
        <4> QED BY <4>1, <4>2, Widen
      <3> QED BY <1>5, <1>n, <1>m, <1>g, <1>t, <2>2, <3>1, <3>2, <3>3 DEF FetchTurns, Late5, Refetch, Holds
    <2> QED BY <2>1, <2>2
  <1> QED BY <1>1, <1>2, <1>3, <1>4, <1>5 DEF Late4

(* Any fetch began no more than its whole length ago.                         *)
LEMMA FetchSince ==
  ASSUME VarsOK, NEW b, NEW q, NEW hi \in Int, Fetching, fill_buf = b, fill_y = q, draw_x - Age <= hi
  PROVE  Fetch(b, q, 0 - (2 * LW + 2), hi)
  <1>1. LW \in Nat /\ draw_x \in Nat /\ Age \in Nat /\ Age <= 2 * LW + 2
    BY Geometry, Places, AgeRange DEF LastAge
  <1>2. 0 - (2 * LW + 2) <= draw_x - Age /\ 0 - (2 * LW + 2) < draw_x
    BY <1>1
  <1> QED BY <1>2 DEF Fetch, BeganIn

LEMMA SteadyStep ==
  ASSUME VarsOK, VarsOK', Ahead, draw_x = 0 => draw_x_d # 0,
         NEW c \in Buffers, NEW d \in Buffers, c # d, NEW p \in Nat, Steady(c, d, p)
  PROVE  Steady(c, d, p)' \/ Steady(d, c, p + 1)' \/ Blank(c, d)'
  <1>g. LW \in Nat /\ LW >= 22 /\ H \in Nat /\ Lines \in Nat /\ Lines >= 5 /\ Buffers = {0, 1}
        /\ VTotal \in Nat /\ VTotal > 2 * Lines /\ H > 2 * LW + 11
        /\ d = 1 - c /\ c = 1 - d
    BY Geometry DEF Buffers
  <1>t. draw_x \in Nat /\ draw_y \in Nat /\ draw_x' \in Nat /\ draw_x' < H /\ draw_x < H
        /\ buf_valid \in [{0, 1} -> BOOLEAN] /\ buf_y \in [{0, 1} -> Nat]
        /\ buf_y' \in [{0, 1} -> Nat] /\ Age' \in Nat /\ Age \in Nat
    BY Types
  <1>m. Cur = c /\ draw_y \in {2 * p, 2 * p + 1} /\ p >= 2 /\ p < Lines /\ Lit
        /\ buf_valid[c] /\ buf_y[c] = p /\ buf_valid[d] /\ p # p + 1 /\ p + 1 \in Nat
    BY DEF Steady, Holds
  <1>b. draw_x + 1 # H => draw_x' = draw_x + 1 /\ draw_y' = draw_y /\ Cur' = c /\ Lit'
    BY <1>m DEF Ahead, Beam
  <1>n. draw_x + 1 = H => draw_x' = 0 /\ draw_y' = draw_y + 1 /\ draw_y' # 0 /\ Turn
    <2>1. draw_y + 1 # VTotal /\ draw_y + 1 # 0
      BY <1>m, <1>g, <1>t
    <2> QED BY <2>1 DEF Ahead, Beam
  (* The turn within the picture line, and to the next.                       *)
  <1>s. ASSUME draw_x + 1 = H, draw_y = 2 * p, Holds(c, p)', ~Holds(d, p)'
        PROVE  draw_x' = 0 /\ draw_y' \in {2 * p, 2 * p + 1} /\ Cur' = c /\ Lit'
    <2>1. draw_y' \in {2 * p, 2 * p + 1} /\ draw_y' # 0 /\ Turn /\ draw_x' = 0
      BY <1>n, <1>s
    <2>2. c = Cur /\ d = 1 - c
      BY <1>m, <1>g
    <2> QED BY <1>s, <2>1, <2>2, TurnsTo
  <1>l. ASSUME draw_x + 1 = H, draw_y = 2 * p + 1, Holds(d, p + 1)', ~Holds(c, p + 1)'
        PROVE  draw_x' = 0 /\ draw_y' \in {2 * (p + 1), 2 * (p + 1) + 1} /\ Cur' = d /\ Lit'
    <2>1. draw_y' = 2 * (p + 1)
      BY <1>m, <1>n, <1>l
    <2>2. draw_y' \in {2 * (p + 1), 2 * (p + 1) + 1} /\ draw_y' # 0 /\ Turn /\ draw_x' = 0
      BY <1>n, <1>l, <2>1
    <2>3. c = Cur /\ d = 1 - c /\ p + 1 \in Nat
      BY <1>m, <1>g
    <2> QED BY <1>l, <2>2, <2>3, TurnsTo
  <1>1. CASE Fetching /\ fill_buf = c /\ fill_y = p /\ draw_x + 5 <= Age /\ OldLine(d, p)
    <2>1. draw_x + 1 # H /\ draw_x - Age <= 0 - 5 /\ 0 - 5 \in Int
      <3>1. Age <= 2 * LW + 2
        BY <1>1, AgeRange DEF LastAge
      <3> QED BY <1>1, <1>g, <1>t, <3>1
    <2>2. Fetch(c, p, 0 - (2 * LW + 2), 0 - 5)
      BY <1>1, <2>1, FetchSince
    <2>3. 0 - (2 * LW + 2) \in Int /\ 0 - 5 + 5 <= 0 /\ p \in Nat
      BY <1>g
    <2>4. FetchGoesOn(c, d, p, 0 - (2 * LW + 2), 0 - 5)
      BY <2>1, <2>2, <2>3, FetchOn
    <2>5. buf_valid'[d] = buf_valid[d] /\ buf_y'[d] = buf_y[d]
      BY <2>4 DEF FetchGoesOn
    <2>6. buf_valid'[d] /\ OldLine(d, p)'
      BY <1>1, <1>m, <2>5 DEF OldLine
    <2>7. CASE Fetch(c, p, 0 - (2 * LW + 2), 0 - 5)' /\ buf_valid'[c] = buf_valid[c]
               /\ (buf_y'[c] = buf_y[c] \/ buf_y'[c] = p)
      <3>1. Fetching' /\ fill_buf' = c /\ fill_y' = p /\ draw_x' + 5 <= Age'
        BY <2>1, <2>3, <2>7, FarAhead
      <3>2. Holds(c, p)'
        BY <1>m, <2>7 DEF Holds
      <3> QED BY <1>b, <1>m, <2>1, <2>6, <3>1, <3>2 DEF Steady
    <2>8. CASE buf_valid'[c] /\ buf_y'[c] = p
               /\ Rest(0 - (2 * LW + 2) + 2 * LW + 3, 0 - 5 + 2 * LW + 3)'
      <3>1. Clear' /\ draw_x' <= 2 * LW - 2
        BY <1>g, <1>t, <2>8 DEF Rest
      <3> QED BY <1>b, <1>m, <2>1, <2>6, <2>8, <3>1 DEF Steady, Holds
    <2> QED BY <2>4, <2>7, <2>8 DEF FetchGoesOn
  <1>2. CASE Clear /\ OldLine(d, p) /\ (p + 1 < Lines => draw_x <= 2 * LW - 2)
    <2>1. Rest(0, draw_x) /\ ~Holds(d, p) /\ ~Holds(d, p + 1) /\ ~Holds(c, p + 1) /\ Holds(c, p)
      BY <1>2, <1>m, <1>t DEF Rest, OldLine, Holds
    <2>2. CASE p + 1 < Lines
      <3>1. draw_x + 1 # H /\ draw_x <= 2 * LW - 2
        BY <1>2, <1>g, <1>t, <2>2
      <3> PICK x \in Int : x = draw_x
        BY <1>t
      <3>2. Rest(0, x) /\ 0 \in Int
        BY <2>1
      <3>3. /\ buf_valid' = buf_valid /\ buf_y' = buf_y
            /\ (Fetch(d, p + 1, 0, x + 1)' \/ (draw_x = 0 /\ Clear'))
        BY <1>m, <1>g, <2>1, <2>2, <3>1, <3>2, RestOn
      <3>4. Holds(c, p)' /\ buf_valid'[d] /\ OldLine(d, p)'
        BY <1>2, <1>m, <3>3 DEF Holds, OldLine
      <3>5. CASE Fetch(d, p + 1, 0, x + 1)'
        <4>1. Fetching' /\ fill_buf' = d /\ fill_y' = p + 1 /\ draw_x' - Age' <= x + 1
          BY <3>5 DEF Fetch, BeganIn
        <4>2. draw_x' - Age' <= 2 * LW - 1
          <5>1. \A n \in Int : n <= x + 1 => n <= 2 * LW - 1
            BY <1>g, <3>1
          <5>2. draw_x' - Age' \in Int
            BY <1>t
          <5> QED BY <4>1, <5>1, <5>2
        <4> QED BY <1>b, <1>m, <3>1, <3>4, <4>1, <4>2 DEF Steady
      <3>6. CASE draw_x = 0 /\ Clear'
        <4>1. draw_x' <= 2 * LW - 2
          BY <1>b, <1>g, <3>1, <3>6
        <4> QED BY <1>b, <1>m, <3>1, <3>4, <3>6, <4>1 DEF Steady
      <3> QED BY <3>3, <3>5, <3>6
    <2>3. CASE ~(p + 1 < Lines)
      <3> PICK x \in Int : x = draw_x
        BY <1>t
      <3>1. Rest(0, x) /\ 0 \in Int /\ p + 1 = Lines
        BY <1>m, <1>g, <2>1, <2>3
      <3>2. buf_valid' = buf_valid /\ buf_y' = buf_y /\ Clear'
        BY <1>m, <2>1, <2>3, <3>1, RestOn
      <3>3. Holds(c, p)' /\ ~Holds(d, p)' /\ buf_valid'[d] /\ OldLine(d, p)'
            /\ ~Holds(c, p + 1)' /\ ~Holds(d, p + 1)'
        BY <1>2, <1>m, <2>1, <3>2 DEF Holds, OldLine
      <3>4. CASE draw_x + 1 # H
        BY <1>b, <1>m, <2>3, <3>2, <3>3, <3>4 DEF Steady
      <3>5. CASE draw_x + 1 = H /\ draw_y = 2 * p
        BY <1>s, <1>m, <2>3, <3>2, <3>3, <3>5 DEF Steady
      <3>6. CASE draw_x + 1 = H /\ draw_y = 2 * p + 1
        <4>1. draw_y' = 2 * (p + 1)
          BY <1>m, <1>n, <3>6
        <4>2. draw_y' \in {2 * (p + 1), 2 * (p + 1) + 1} /\ Turn
          BY <1>n, <3>6, <4>1
        <4>3. c = Cur /\ d = 1 - c /\ p + 1 \in Nat
          BY <1>m, <1>g
        <4>4. ~Lit' /\ Cur' = c
          BY <3>3, <4>2, <4>3, TurnsTo
        <4>5. Holds(d, Lines - 2)' /\ Holds(c, Lines - 1)'
          BY <1>g, <1>m, <3>1, <3>3 DEF OldLine, Holds
        <4>6. draw_y' >= 2 * Lines
          BY <1>g, <3>1, <4>1
        <4> QED BY <3>2, <4>4, <4>5, <4>6 DEF Blank
      <3> QED BY <1>m, <3>4, <3>5, <3>6
    <2> QED BY <2>2, <2>3
  <1>3. CASE Fetching /\ fill_buf = d /\ fill_y = p + 1 /\ draw_x - Age <= 2 * LW - 1
    <2>i. p + 1 \in Nat /\ 0 - (2 * LW + 2) \in Int /\ 2 * LW - 1 \in Int /\ p + 1 < Lines
      BY <1>3, <1>m, <1>g DEF Fetching
    <2>1. Fetch(d, p + 1, 0 - (2 * LW + 2), 2 * LW - 1)
      BY <1>3, <2>i, FetchSince
    <2>2. CASE draw_x + 1 # H
      <3>1. FetchGoesOn(d, c, p + 1, 0 - (2 * LW + 2), 2 * LW - 1)
        BY <2>1, <2>2, <2>i, FetchOn
      <3>2. buf_valid'[c] = buf_valid[c] /\ buf_y'[c] = buf_y[c]
        BY <3>1 DEF FetchGoesOn
      <3>3. Holds(c, p)'
        BY <1>m, <3>2 DEF Holds
      <3>4. CASE Fetch(d, p + 1, 0 - (2 * LW + 2), 2 * LW - 1)' /\ buf_valid'[d] = buf_valid[d]
        BY <1>b, <1>m, <2>2, <3>3, <3>4 DEF Steady, Fetch, BeganIn
      <3>5. CASE buf_valid'[d] /\ buf_y'[d] = p + 1
                 /\ Rest(0 - (2 * LW + 2) + 2 * LW + 3, 2 * LW - 1 + 2 * LW + 3)'
        BY <1>b, <1>m, <2>2, <2>i, <3>3, <3>5 DEF Steady, Rest, Holds
      <3> QED BY <3>1, <3>4, <3>5 DEF FetchGoesOn
    <2>3. CASE draw_x + 1 = H
      <3>s. 2 * LW - 1 + 5 <= H
        BY <1>g
      <3>1. FetchTurnsOrEnds(d, c, p + 1, 0 - (2 * LW + 2), 2 * LW - 1)
        BY <2>1, <2>3, <2>i, <3>s, FetchTurnOrEnd
      <3>2. buf_valid'[c] = buf_valid[c] /\ buf_y'[c] = buf_y[c] /\ buf_y'[d] = p + 1
        BY <3>1 DEF FetchTurnsOrEnds
      <3>3. buf_valid'[d] = buf_valid[d] \/ buf_valid'[d]
        BY <3>1 DEF FetchTurnsOrEnds
      <3>4. buf_valid'[d]
        BY <1>m, <3>3
      <3>5. Holds(c, p)' /\ ~Holds(c, p + 1)' /\ Holds(d, p + 1)' /\ ~Holds(d, p)'
        BY <1>m, <3>2, <3>4 DEF Holds
      <3>6. (/\ Fetching' /\ fill_buf' = d /\ fill_y' = p + 1 /\ draw_x' + 5 <= Age'
             /\ draw_x' - Age' <= 2 * LW - 1) \/ Clear'
        <4>1. CASE Fetch(d, p + 1, 0 - (2 * LW + 2) - H, (2 * LW - 1) - H)'
          <5>1. 0 - (2 * LW + 2) - H \in Int /\ (2 * LW - 1) - H \in Int /\ (2 * LW - 1) - H + 5 <= 0
            BY <1>g
          <5>2. Fetching' /\ fill_buf' = d /\ fill_y' = p + 1 /\ draw_x' + 5 <= Age'
            BY <4>1, <5>1, FarAhead
          <5>3. \A x, a \in Nat : x + 5 <= a => x - a <= 2 * LW - 1
            BY <1>g
          <5> QED BY <1>t, <5>2, <5>3
        <4>2. CASE Rest(0 - (2 * LW + 2) + 2 * LW + 3 - H, 2 * LW - 1 + 2 * LW + 3 - H)'
          BY <4>2 DEF Rest
        <4> QED BY <3>1, <4>1, <4>2 DEF FetchTurnsOrEnds
      <3>7. CASE draw_y = 2 * p
        BY <1>s, <1>m, <2>3, <2>i, <3>4, <3>5, <3>6, <3>7 DEF Steady
      <3>8. CASE draw_y = 2 * p + 1
        <4>1. draw_x' = 0 /\ draw_y' \in {2 * (p + 1), 2 * (p + 1) + 1} /\ Cur' = d /\ Lit'
          BY <1>l, <2>3, <3>5, <3>8
        <4>2. OldLine(c, p + 1)' /\ buf_valid'[c]
          BY <1>m, <3>2, <3>5 DEF OldLine, Holds
        <4>3. p + 1 >= 2 /\ 0 <= 2 * LW - 2
          BY <1>m, <1>g
        <4> QED BY <2>i, <3>5, <3>6, <4>1, <4>2, <4>3 DEF Steady
      <3> QED BY <1>m, <3>7, <3>8
    <2> QED BY <2>2, <2>3
  <1>4. CASE Clear /\ p + 1 < Lines /\ Holds(d, p + 1)
    <2>1. ~Holds(d, p) /\ ~Holds(c, p + 1) /\ Holds(c, p) /\ Holds(d, p + 1)
      BY <1>4, <1>m DEF Holds
    <2> PICK x \in Int : x = draw_x
      BY <1>t
    <2>2. Rest(0, x) /\ 0 \in Int
      BY <1>4, <1>t DEF Rest
    <2>3. buf_valid' = buf_valid /\ buf_y' = buf_y /\ Clear'
      BY <1>m, <2>1, <2>2, RestOn
    <2>4. Holds(c, p)' /\ ~Holds(d, p)' /\ buf_valid'[d] /\ Holds(d, p + 1)' /\ ~Holds(c, p + 1)'
      BY <1>m, <2>1, <2>3 DEF Holds
    <2>5. CASE draw_x + 1 # H
      BY <1>4, <1>b, <1>m, <2>3, <2>4, <2>5 DEF Steady
    <2>6. CASE draw_x + 1 = H /\ draw_y = 2 * p
      BY <1>4, <1>s, <1>m, <2>3, <2>4, <2>6 DEF Steady
    <2>7. CASE draw_x + 1 = H /\ draw_y = 2 * p + 1
      <3>1. draw_x' = 0 /\ draw_y' \in {2 * (p + 1), 2 * (p + 1) + 1} /\ Cur' = d /\ Lit'
        BY <1>l, <2>4, <2>7
      <3>2. OldLine(c, p + 1)' /\ buf_valid'[c]
        BY <1>m, <2>3, <2>4 DEF OldLine, Holds
      <3>3. p + 1 >= 2 /\ 0 <= 2 * LW - 2
        BY <1>m, <1>g
      <3> QED BY <1>4, <2>3, <2>4, <3>1, <3>2, <3>3 DEF Steady
    <2> QED BY <1>m, <2>5, <2>6, <2>7
  <1> QED BY <1>1, <1>2, <1>3, <1>4 DEF Steady

LEMMA BlankStep ==
  ASSUME VarsOK, VarsOK', Ahead, NEW c \in Buffers, NEW d \in Buffers, c # d, Blank(c, d)
  PROVE  Blank(c, d)' \/ Race0(c, d)'
  <1>g. H \in Nat /\ Lines \in Nat /\ Lines >= 5 /\ Buffers = {0, 1} /\ d = 1 - c
    BY Geometry DEF Buffers
  <1>t. draw_x \in Nat /\ draw_y \in Nat /\ draw_x' \in Nat /\ draw_y' \in Nat
    BY Types
  <1>m. Cur = c /\ draw_y >= 2 * Lines /\ ~Lit /\ Clear
        /\ buf_valid[c] /\ buf_y[c] = Lines - 1 /\ buf_valid[d] /\ buf_y[d] = Lines - 2
    BY DEF Blank, Holds
  <1>1. ~StartFill
    BY <1>m, <1>g, <1>t DEF StartFill
  <1>2. Clear' /\ buf_valid' = buf_valid /\ buf_y' = buf_y
    BY <1>m, <1>1 DEF Ahead, Goes, Ends, Starts, Rests, Clear, Fetching
  <1>3. Holds(c, Lines - 1)' /\ Holds(d, Lines - 2)'
    BY <1>m, <1>2 DEF Holds
  <1>4. CASE draw_x + 1 # H
    <2>1. draw_y' = draw_y /\ Cur' = c /\ ~Lit'
      BY <1>4, <1>m DEF Ahead, Beam
    <2> QED BY <1>m, <1>2, <1>3, <2>1 DEF Blank
  <1>5. CASE draw_x + 1 = H
    <2>1. draw_x' = 0 /\ draw_y' = (IF draw_y + 1 = VTotal THEN 0 ELSE draw_y + 1) /\ Turn
      BY <1>5 DEF Ahead, Beam
    <2> PICK p \in Nat : draw_y' \in {2 * p, 2 * p + 1}
      <3>1. \A y \in Nat : y \div 2 \in Nat /\ y \in {2 * (y \div 2), 2 * (y \div 2) + 1}
        OBVIOUS
      <3> QED BY <1>t, <3>1
    <2>2. p = 0 \/ p >= Lines
      BY <1>m, <1>g, <1>t, <2>1
    <2>3. ~Holds(c, p)' /\ ~Holds(d, p)'
      BY <1>m, <1>g, <1>2, <2>2 DEF Holds
    <2>4. c = Cur /\ d = 1 - c /\ Turn
      BY <1>m, <1>g, <2>1
    <2>5. ~Lit' /\ Cur' = c
      BY <2>3, <2>4, TurnsTo
    <2>6. CASE draw_y + 1 = VTotal
      <3>1. Old(c, 3)' /\ Old(d, 2)'
        BY <1>g, <1>3 DEF Old, Holds
      <3>2. Rest(0, 1)'
        BY <1>2, <2>1 DEF Rest
      <3> QED BY <2>1, <2>5, <2>6, <3>1, <3>2 DEF Race0
    <2>7. CASE draw_y + 1 # VTotal
      <3>1. draw_y' >= 2 * Lines
        BY <1>m, <1>g, <1>t, <2>1, <2>7
      <3> QED BY <1>2, <1>3, <2>5, <3>1 DEF Blank
    <2> QED BY <2>6, <2>7
  <1> QED BY <1>4, <1>5

(* The edge of a swap: the buffers are dropped and the beam keeps its own.     *)
LEMMA SwapEdge ==
  ASSUME VarsOK, VarsOK', NEW wr_valid \in BOOLEAN, Edge(wr_valid), Swap
  PROVE  /\ draw_x = 0 /\ draw_y = 0 /\ draw_x' = 1 /\ draw_y' = 0 /\ Cur' = Cur /\ ~Lit'
         /\ ~fill_active' /\ read_frame' = pending_frame
         /\ \A b \in Buffers : buf_valid'[b] => LineArrives /\ b = rd_buf_hold
  <1>1. draw_x = 0 /\ draw_y = 0 /\ new_line
    BY DEF Swap, new_frame, new_line
  <1>2. draw_x' = 1 /\ draw_y' = 0
    BY <1>1, Geometry DEF Edge, MoveBeam, H
  <1>3. ~new_line'
    BY <1>2 DEF new_line
  <1>4. Cur' = current_buf' /\ Lit' = current_valid'
    BY <1>3 DEF Cur, Lit, pixel_buf_sel, pixel_line_valid
  <1>5. current_buf' = Cur /\ ~current_valid'
    BY <1>1 DEF Edge, SelectBuffer, Cur, pixel_line_valid
  <1>6. ~fill_active' /\ read_frame' = pending_frame
    BY DEF Edge, Fill, TakePending
  <1>7. \A b \in Buffers : buf_valid'[b] => LineArrives /\ b = rd_buf_hold
    BY DEF Edge, Store
  <1> QED BY <1>1, <1>2, <1>4, <1>5, <1>6, <1>7

(* If the reader is clear after it, the race begins with nothing.              *)
LEMMA SwapClears ==
  ASSUME VarsOK, VarsOK', NEW wr_valid \in BOOLEAN, Edge(wr_valid), Swap, Clear', ~LineArrives,
         NEW c \in Buffers, NEW d \in Buffers, c # d, Cur = c
  PROVE  Race0(c, d)' /\ Content'
  <1>1. /\ draw_x' = 1 /\ draw_y' = 0 /\ Cur' = c /\ ~Lit'
        /\ \A b \in Buffers : ~buf_valid'[b]
    BY SwapEdge
  <1>2. Rest(0, 1)'
    BY <1>1 DEF Rest
  <1>3. ~Fetching'
    BY DEF Clear, Fetching
  <1>4. Content'
    BY <1>1, <1>3 DEF Content
  <1> QED BY <1>1, <1>2, <1>4 DEF Race0, Old

LEMMA SwapStep ==
  ASSUME VarsOK, VarsOK', NEW wr_valid \in BOOLEAN, Edge(wr_valid), Swap, Clear,
         NEW c \in Buffers, NEW d \in Buffers, c # d, Cur = c
  PROVE  Race0(c, d)' /\ Content'
  <1>1. ~LineArrives /\ ~rd_accepted /\ ~rd_req
    BY DEF Clear, LineArrives, WordArrives, rd_accepted, rd_req
  <1>2. ~fill_active'
    BY SwapEdge
  <1>3. ~mem_rd_req' /\ state' # "READ" /\ ~rd_valid'
    BY <1>1 DEF Clear, Edge, Request, RequestNext, Arbitrate
  <1>4. Clear'
    BY <1>2, <1>3 DEF Clear
  <1> QED BY <1>1, <1>4, SwapClears

(* What the buffers hold and where the words go, an edge later.               *)
LEMMA ContentStep ==
  ASSUME VarsOK, VarsOK', NEW wr_valid \in BOOLEAN, Edge(wr_valid), have_sram_frame, ~Swap,
         Clear \/ Fetching, Content
  PROVE  Content'
  <1>g. LW \in Nat /\ LW >= 22 /\ LastWord = LW - 1 /\ Buffers = {0, 1}
    BY Geometry DEF Buffers
  <1>t. /\ fill_x \in 0 .. LastWord /\ rd_x_hold \in 0 .. LastWord
        /\ fill_buf \in Buffers /\ rd_buf_hold \in Buffers /\ fill_y \in Nat /\ rd_y_hold \in Nat
        /\ state \in {"IDLE", "READ", "WRITE"}
        /\ buf_valid \in [Buffers -> BOOLEAN] /\ buf_y \in [Buffers -> Nat]
        /\ DOMAIN line_buf = Buffers /\ \A b \in Buffers : DOMAIN line_buf[b] = 0 .. LastWord
    BY DEF VarsOK
  <1>r. read_frame' = read_frame
    BY DEF Edge, TakePending
  <1>1. ASSUME ~WordArrives
        PROVE  line_buf' = line_buf /\ buf_y' = buf_y /\ \A b \in Buffers : buf_valid'[b] => buf_valid[b]
    BY <1>1 DEF LineArrives, Edge, Store
  <1>2. CASE Clear
    <2>1. ~WordArrives /\ ~rd_accepted /\ ~rd_req /\ ~LineArrives
      BY <1>2 DEF Clear, WordArrives, LineArrives, rd_accepted, rd_req
    <2>2. ~mem_rd_req' /\ state' # "READ" /\ ~rd_valid'
      BY <1>2, <2>1 DEF Clear, Edge, Request, RequestNext, Arbitrate
    <2>3. \A b \in Buffers : Whole(b) => Whole(b)'
      BY <1>1, <1>r, <2>1 DEF Whole
    <2>4. ASSUME NEW b \in Buffers, buf_valid'[b]
          PROVE  Whole(b)'
      BY <1>1, <1>2, <2>1, <2>3, <2>4 DEF Content, Clear
    <2>5. ASSUME Fetching' PROVE Addressed'
      <3>1. StartFill
        BY <1>2, <2>5 DEF Clear, Fetching, Edge, Fill
      <3>2. fill_addr' = <<read_frame, Wanted, 0>> /\ fill_y' = Wanted
        BY <2>1, <3>1 DEF Edge, Fill
      <3>3. ~Asked' /\ ~Reading' /\ ~Arriving'
        BY <2>2 DEF Asked, Reading, Arriving
      <3> QED BY <1>r, <3>2, <3>3 DEF Addressed
    <2> QED BY <2>4, <2>5 DEF Content
  <1>3. CASE Fetching
    <2>f. fill_active /\ ~StartFill /\ (Fresh \/ Asked \/ Reading \/ Arriving) /\ Addressed
      BY <1>3 DEF Fetching, StartFill, Content
    <2>o. ASSUME ~WordArrives, Fetching', fill_buf' = fill_buf, Addressed'
          PROVE  Content'
      <3>1. line_buf' = line_buf /\ buf_y' = buf_y /\ \A b \in Buffers : buf_valid'[b] => buf_valid[b]
        BY <1>1, <2>o
      <3>2. \A b \in Buffers : Whole(b) => Whole(b)'
        BY <3>1, <1>r DEF Whole
      <3>3. fill_active'
        BY <2>o DEF Fetching
      <3> QED BY <2>o, <2>f, <3>1, <3>2, <3>3 DEF Content
    <2>n. ASSUME ~WordArrives
          PROVE  fill_active' /\ fill_buf' = fill_buf /\ fill_y' = fill_y
      BY <2>n, <2>f DEF LineArrives, Edge, Fill
    <2>e. Fetching' => fill_active' /\ fill_buf' = fill_buf /\ fill_y' = fill_y
      BY <2>f DEF Fetching, Edge, Fill
    <2>w. fill_y < Lines
      BY <1>3 DEF Fetching
    <2>1. CASE Fresh
      <3>1. ~WordArrives /\ ~rd_accepted /\ ~rd_req
        BY <2>1 DEF Fresh, WordArrives, rd_accepted, rd_req
      <3>2. mem_rd_req' /\ state' # "READ" /\ ~rd_valid' /\ mem_rd_addr' = fill_addr
        BY <2>1, <2>f, <3>1 DEF Fresh, Edge, Request, RequestNext, Arbitrate
      <3>3. fill_x' = 0 /\ ~line_done_pending' /\ fill_addr' = fill_addr
        BY <2>1, <2>f, <3>1 DEF Fresh, Edge, Fill
      <3>4. Asked' /\ ~Fresh' /\ ~Reading' /\ ~Arriving'
        BY <3>2, <3>3 DEF Asked, Fresh, Reading, Arriving
      <3>5. Fetching' /\ fill_buf' = fill_buf
        BY <2>n, <2>w, <3>1, <3>4 DEF Fetching
      <3>6. Addressed'
        BY <1>r, <2>1, <2>f, <2>n, <3>1, <3>2, <3>3, <3>4 DEF Addressed
      <3> QED BY <2>o, <3>1, <3>5, <3>6
    <2>2. CASE Asked /\ state # "IDLE"
      <3>1. ~WordArrives /\ ~rd_accepted /\ state = "WRITE"
        BY <2>2, <1>t DEF Asked, WordArrives, rd_accepted, rd_req
      <3>2. mem_rd_req' /\ state' = "IDLE" /\ ~rd_valid' /\ mem_rd_addr' = mem_rd_addr
        BY <2>2, <2>f, <3>1 DEF Asked, Edge, Request, RequestNext, Arbitrate
      <3>3. fill_x' = 0 /\ ~line_done_pending' /\ fill_addr' = fill_addr
        BY <2>2, <2>f, <3>1 DEF Asked, Edge, Fill
      <3>4. Asked' /\ ~Fresh' /\ ~Reading' /\ ~Arriving'
        BY <3>2, <3>3 DEF Asked, Fresh, Reading, Arriving
      <3>5. Fetching' /\ fill_buf' = fill_buf
        BY <2>n, <2>w, <3>1, <3>4 DEF Fetching
      <3>6. Addressed'
        BY <1>r, <2>2, <2>f, <2>n, <3>1, <3>2, <3>3, <3>4 DEF Addressed
      <3> QED BY <2>o, <3>1, <3>5, <3>6
    <2>3. CASE Asked /\ state = "IDLE"
      <3>1. ~WordArrives /\ rd_accepted /\ rd_req /\ fill_x = 0 /\ fill_x # LastWord
        BY <1>g, <2>3 DEF Asked, WordArrives, rd_accepted, rd_req
      <3>2. ~mem_rd_req' /\ state' = "READ" /\ ~rd_valid' /\ rd_x_hold' = 0
            /\ rd_buf_hold' = fill_buf /\ rd_y_hold' = fill_y /\ SRAM_ADDR' = mem_rd_addr
        BY <2>3, <2>f, <3>1 DEF Asked, Edge, Request, RequestNext, Arbitrate
      <3>3. fill_x' = 1 /\ ~line_done_pending'
            /\ fill_addr' = <<fill_addr[1], fill_addr[2], fill_addr[3] + 1>>
        BY <1>g, <2>3, <2>f, <3>1 DEF Asked, Edge, Fill
      <3>4. Reading' /\ ~Fresh' /\ ~Asked' /\ ~Arriving'
        BY <1>g, <2>n, <3>1, <3>2, <3>3 DEF Asked, Fresh, Reading, Arriving, Took
      <3>5. Fetching' /\ fill_buf' = fill_buf
        BY <2>n, <2>w, <3>1, <3>4 DEF Fetching
      <3>6. fill_addr = <<read_frame, fill_y, 0>> /\ mem_rd_addr = <<read_frame, fill_y, 0>>
        BY <2>3, <2>f DEF Addressed
      <3>7. fill_addr' = <<read_frame, fill_y, 0 + 1>> /\ SRAM_ADDR' = <<read_frame, fill_y, 0>>
        BY <3>2, <3>3, <3>6
      <3>8. Stored'
        BY <3>2 DEF Stored
      <3>9. Addressed'
        BY <1>r, <2>n, <3>1, <3>2, <3>4, <3>7, <3>8 DEF Addressed
      <3> QED BY <2>o, <3>1, <3>5, <3>9
    <2>4. CASE Reading
      <3>1. ~WordArrives /\ ~rd_accepted
        BY <2>4 DEF Reading, WordArrives, rd_accepted
      <3>2. state' = "IDLE" /\ rd_valid' /\ rd_data' = SRAM_ADDR /\ rd_x_hold' = rd_x_hold
        BY <2>4, <3>1 DEF Reading, Edge, Request, Arbitrate
      <3>3. fill_addr' = fill_addr /\ line_buf' = line_buf
        BY <1>1, <2>f, <3>1 DEF Edge, Fill
      <3>4. rd_x_hold # LastWord => mem_rd_addr' = fill_addr
        <4>1. rd_x_hold # LastWord => RequestNext
          BY <2>4, <2>f, <3>1 DEF Reading, Took, RequestNext
        <4> QED BY <4>1 DEF Edge, Request
      <3>5. ~Fresh' /\ ~Asked' /\ ~Reading'
        BY <3>2 DEF Fresh, Asked, Reading
      <3>6. Arriving' /\ Fetching'
        <4>1. Goes \/ Ends
          BY <1>3, GoesEdge
        <4>2. ~Clear'
          BY <3>2 DEF Clear
        <4>3. Fetching'
          BY <4>1, <4>2 DEF Goes, Ends
        <4> QED BY <3>5, <4>3 DEF Fetching
      <3>7. /\ SRAM_ADDR = <<read_frame, fill_y, rd_x_hold>> /\ Stored
            /\ rd_x_hold # LastWord => fill_addr = <<read_frame, fill_y, rd_x_hold + 1>>
        BY <2>4, <2>f DEF Addressed
      <3>8. Stored'
        BY <1>r, <2>n, <3>1, <3>2, <3>3, <3>7 DEF Stored
      <3>9. Addressed'
        BY <1>r, <2>n, <3>1, <3>2, <3>3, <3>4, <3>5, <3>7, <3>8 DEF Addressed
      <3> QED BY <2>o, <2>n, <3>1, <3>6, <3>9
    <2>5. CASE Arriving
      <3>a. /\ rd_data = <<read_frame, fill_y, rd_x_hold>> /\ Stored
            /\ rd_x_hold # LastWord => /\ mem_rd_addr = <<read_frame, fill_y, rd_x_hold + 1>>
                                       /\ fill_addr = <<read_frame, fill_y, rd_x_hold + 1>>
        BY <2>5, <2>f DEF Addressed
      <3>k. /\ rd_buf_hold = fill_buf /\ rd_y_hold = fill_y
            /\ fill_x = IF rd_x_hold = LastWord THEN LastWord ELSE rd_x_hold + 1
        BY <2>5 DEF Arriving, Took
      <3>1. WordArrives /\ (rd_accepted <=> rd_x_hold # LastWord) /\ (LineArrives <=> rd_x_hold = LastWord)
        BY <2>5 DEF Arriving, WordArrives, LineArrives, rd_accepted
      <3>2. line_buf' = [line_buf EXCEPT ![fill_buf][rd_x_hold] = rd_data]
            /\ buf_y' = [buf_y EXCEPT ![fill_buf] = fill_y]
        BY <3>1, <3>k DEF Edge, Store
      <3>3. \A b \in Buffers : b # fill_buf =>
              buf_y'[b] = buf_y[b] /\ line_buf'[b] = line_buf[b] /\ (buf_valid'[b] => buf_valid[b])
        <4>1. \A b \in Buffers : b # fill_buf => buf_y'[b] = buf_y[b] /\ line_buf'[b] = line_buf[b]
          BY <1>t, <3>2
        <4>2. \A b \in Buffers : b # fill_buf => (buf_valid'[b] => buf_valid[b])
          BY <1>t, <3>k DEF Edge, Store
        <4> QED BY <4>1, <4>2
      <3>4. \A b \in Buffers : b # fill_buf => (buf_valid'[b] => Whole(b)')
        <4>1. \A b \in Buffers : b # fill_buf => (buf_valid[b] => Whole(b))
          BY <2>f, <1>3 DEF Content
        <4> QED BY <1>r, <3>3, <4>1 DEF Whole
      <3>5. buf_y'[fill_buf] = fill_y /\ line_buf'[fill_buf][rd_x_hold] = rd_data
            /\ \A x \in 0 .. LastWord : x # rd_x_hold => line_buf'[fill_buf][x] = line_buf[fill_buf][x]
        BY <1>t, <3>2
      <3>6. \A x \in 0 .. rd_x_hold : line_buf'[fill_buf][x] = <<read_frame, fill_y, x>>
        <4>1. \A x \in 0 .. rd_x_hold : x = rd_x_hold \/ (x \in 0 .. rd_x_hold - 1 /\ x \in 0 .. LastWord)
          BY <1>g, <1>t
        <4>2. \A x \in 0 .. rd_x_hold - 1 : line_buf[fill_buf][x] = <<read_frame, fill_y, x>>
          BY <3>a DEF Stored
        <4>3. \A x \in 0 .. rd_x_hold - 1 : x # rd_x_hold
          BY <1>t
        <4>4. ASSUME NEW x \in 0 .. rd_x_hold
              PROVE  line_buf'[fill_buf][x] = <<read_frame, fill_y, x>>
          <5>1. CASE x = rd_x_hold
            BY <5>1, <3>5, <3>a
          <5>2. CASE x \in 0 .. rd_x_hold - 1 /\ x \in 0 .. LastWord
            BY <5>2, <4>2, <4>3, <3>5
          <5> QED BY <4>1, <5>1, <5>2
        <4> QED BY <4>4
      <3>7. CASE rd_x_hold = LastWord
        <4>1. ~fill_active'
          BY <3>1, <3>7 DEF Edge, Fill
        <4>2. ~Fetching'
          BY <4>1 DEF Fetching
        <4>3. \A b \in Buffers : b = fill_buf => Whole(b)'
          <5>1. ASSUME NEW b \in Buffers, b = fill_buf PROVE Whole(b)'
            BY <1>r, <3>5, <3>6, <3>7, <5>1 DEF Whole
          <5> QED BY <5>1
        <4> QED BY <3>4, <4>2, <4>3 DEF Content
      <3>8. CASE rd_x_hold # LastWord
        <4>1. state' = "READ" /\ SRAM_ADDR' = mem_rd_addr /\ rd_x_hold' = fill_x
          BY <2>5, <3>1, <3>8 DEF Arriving, Edge, Request, Arbitrate, rd_req, rd_accepted
        <4>2. ~Fresh' /\ ~Asked' /\ ~Arriving'
          BY <4>1 DEF Fresh, Asked, Arriving
        <4>3. fill_active' /\ fill_buf' = fill_buf /\ fill_y' = fill_y
          BY <2>f, <3>1, <3>8 DEF Edge, Fill
        <4>4. fill_x' = (IF fill_x # LastWord THEN fill_x + 1 ELSE fill_x)
              /\ fill_addr' = (IF fill_x # LastWord
                               THEN <<fill_addr[1], fill_addr[2], fill_addr[3] + 1>> ELSE fill_addr)
          BY <2>f, <3>1, <3>8 DEF Edge, Fill
        <4>5. fill_x = rd_x_hold + 1 /\ fill_addr = <<read_frame, fill_y, fill_x>>
              /\ SRAM_ADDR' = <<read_frame, fill_y, fill_x>>
          BY <3>a, <3>k, <3>8, <4>1
        <4>6. fill_x # LastWord => fill_addr' = <<read_frame, fill_y, fill_x + 1>>
          BY <4>4, <4>5
        <4>7. Stored'
          <5>1. 0 .. rd_x_hold' - 1 = 0 .. rd_x_hold
            BY <1>t, <1>g, <4>1, <4>5
          <5> QED BY <1>r, <3>6, <4>3, <5>1 DEF Stored
        <4>8. Addressed'
          BY <1>r, <4>1, <4>2, <4>3, <4>5, <4>6, <4>7 DEF Addressed
        <4> QED BY <3>4, <4>3, <4>8 DEF Content
      <3> QED BY <3>7, <3>8
    <2> QED BY <2>f, <2>1, <2>2, <2>3, <2>4, <2>5
  <1> QED BY <1>2, <1>3

(* The first edges after the first swap, if a word is still on its way.        *)
LEMMA OrphansStep ==
  ASSUME VarsOK, VarsOK', NEW wr_valid \in BOOLEAN, Edge(wr_valid), have_sram_frame,
         NEW c \in Buffers, NEW d \in Buffers, c # d, Orphans(c, d)
  PROVE  \/ Orphans(c, d)'
         \/ Late0(c, d)' /\ (Rested(d, 0, 1, 6)' \/ Content')
         \/ Race0(c, d)' /\ Content'
  <1>g. LW \in Nat /\ LW >= 22 /\ LastWord = LW - 1 /\ Buffers = {0, 1} /\ d = 1 - c
        /\ H \in Nat /\ H > 40 /\ Lines >= 5 /\ Lines \in Nat
    BY Geometry DEF Buffers
  <1>t. /\ fill_x \in 0 .. LastWord /\ rd_x_hold \in 0 .. LastWord
        /\ state \in {"IDLE", "READ", "WRITE"}
        /\ buf_valid \in [Buffers -> BOOLEAN] /\ buf_y \in [Buffers -> Nat]
        /\ mem_rd_req \in BOOLEAN /\ LastWord # 0
    BY <1>g DEF VarsOK
  <1>m. Cur = c /\ draw_y = 0 /\ ~Lit /\ ~buf_valid[c] /\ draw_x \in 1 .. 7
    BY DEF Orphans
  <1>x. ~new_line /\ ~Swap /\ current_buf = c /\ FreeBuffer = d /\ PictureLine = 0
    <2>1. ~new_line
      BY <1>m DEF new_line
    <2>2. current_buf = c
      BY <1>m, <2>1 DEF Cur, pixel_buf_sel
    <2>3. PictureLine = 0
      BY <1>m DEF PictureLine
    <2> QED BY <1>g, <2>1, <2>2, <2>3 DEF Swap, new_frame, FreeBuffer
  <1>b. draw_x' = draw_x + 1 /\ draw_y' = 0 /\ Cur' = c /\ ~Lit'
    <2>1. Beam /\ draw_x + 1 # H
      BY <1>m, <1>g, BeamEdge DEF Edge
    <2> QED BY <1>m, <2>1 DEF Beam
  <1>r. read_frame' = read_frame
    BY <1>x DEF Edge, TakePending
  <1>h. \A y : buffer_has_y(y) <=> Holds(d, y)
    BY <1>g, <1>m DEF buffer_has_y, Holds
  (* What an edge without, and with, a word for d changes.                    *)
  <1>n. ASSUME ~WordArrives
        PROVE  buf_y' = buf_y /\ (\A b \in Buffers : buf_valid'[b] <=> buf_valid[b])
    BY <1>n, <1>t, <1>x DEF LineArrives, Edge, Store
  <1>w. ASSUME WordArrives, rd_buf_hold = d, rd_y_hold = 0
        PROVE  /\ buf_y'[d] = 0 /\ ~buf_valid'[c]
               /\ buf_valid'[d] <=> rd_x_hold = LastWord \/ buf_valid[d]
    <2>1. buf_y' = [buf_y EXCEPT ![d] = 0]
      BY <1>w DEF Edge, Store
    <2>2. /\ ~buf_valid'[c]
          /\ buf_valid'[d] <=> rd_x_hold = LastWord \/ buf_valid[d]
      BY <1>w, <1>m, <1>x DEF LineArrives, Edge, Store
    <2> QED BY <1>t, <2>1, <2>2
  <1>k. ASSUME Asked', fill_active', fill_buf' = d, NEW q \in 0 .. 1, fill_y' = q,
               fill_addr' = <<read_frame, q, 0>>, mem_rd_addr' = <<read_frame, q, 0>>, ~buf_valid'[c]
        PROVE  Fetching' /\ Age' \in 1 .. 2 /\ Content'
    <2>1. Fetching'
      BY <1>k, <1>g DEF Fetching
    <2>2. Age' \in 1 .. 2
      BY <1>k DEF Asked, Age
    <2>3. ~Fresh' /\ ~Reading' /\ ~Arriving'
      BY <1>k DEF Asked, Fresh, Reading, Arriving
    <2>4. Addressed'
      BY <1>k, <1>r, <2>3 DEF Addressed
    <2>5. \A b \in Buffers : b = c \/ b = d
      BY <1>g
    <2> QED BY <1>k, <2>1, <2>2, <2>4, <2>5 DEF Content
  <1>1. CASE /\ draw_x \in 1 .. 2 /\ ~buf_valid[d] /\ Orphan(d, 1)
             /\ ~fill_active /\ ~mem_rd_req /\ state = "READ" /\ ~rd_valid
    <2>1. ~WordArrives /\ ~rd_accepted /\ ~LineArrives
      BY <1>1 DEF WordArrives, LineArrives, rd_accepted
    <2>2. Wanted = 0 /\ StartFill
      BY <1>1, <1>m, <1>x, <1>h, <1>g DEF Wanted, StartFill, Holds
    <2>3. Begun(d, 0)'
      BY <1>x, <1>r, <2>1, <2>2 DEF Edge, Fill, Begun
    <2>4. ~mem_rd_req' /\ state' = "IDLE" /\ rd_valid' /\ rd_x_hold' = rd_x_hold
          /\ rd_buf_hold' = rd_buf_hold /\ rd_y_hold' = rd_y_hold
      BY <1>1, <2>1 DEF Edge, Request, RequestNext, Arbitrate
    <2>5. Orphan(d, 1)'
      BY <1>1, <2>4 DEF Orphan
    <2>6. draw_x' \in 2 .. 3 /\ ~buf_valid'[c] /\ ~buf_valid'[d]
      BY <1>1, <1>b, <1>m, <1>n, <2>1
    <2> QED BY <1>b, <2>3, <2>4, <2>5, <2>6 DEF Orphans
  <1>2. CASE /\ draw_x = 1 /\ ~buf_valid[d] /\ Orphan(d, 1)
             /\ ~fill_active /\ state = "IDLE" /\ rd_valid
             /\ mem_rd_req <=> rd_x_hold # LastWord
             /\ fill_buf = d /\ fill_y = 0
    <2>1. WordArrives /\ (rd_accepted <=> rd_x_hold # LastWord) /\ (LineArrives <=> rd_x_hold = LastWord)
      BY <1>2 DEF WordArrives, LineArrives, rd_accepted
    <2>2. rd_buf_hold = d /\ rd_y_hold = 0
      BY <1>2 DEF Orphan
    <2>3. ~rd_valid' /\ draw_x' = 2
      <3>1. state = "IDLE" /\ draw_x = 1
        BY <1>2
      <3>2. draw_x' = 2
        BY <1>b, <3>1
      <3>3. ~rd_valid'
        BY <3>1 DEF Edge, Arbitrate
      <3> QED BY <3>2, <3>3
    <2>4. CASE rd_x_hold # LastWord
      <3>1. ~fill_active'
        BY <1>2, <2>4 DEF StartFill, Edge, Fill
      <3>2. ~mem_rd_req' /\ state' = "READ" /\ rd_buf_hold' = d /\ rd_y_hold' = 0
        BY <1>2, <2>1, <2>4 DEF Edge, Request, RequestNext, Arbitrate, rd_req
      <3>3. Orphan(d, 1)'
        BY <3>2 DEF Orphan
      <3> QED BY <1>b, <1>2, <1>w, <2>1, <2>2, <2>3, <2>4, <3>1, <3>2, <3>3 DEF Orphans
    <2>5. CASE rd_x_hold = LastWord
      <3>1. ~fill_active'
        BY <2>1, <2>5 DEF Edge, Fill
      <3>2. ~mem_rd_req' /\ state' # "READ"
        BY <1>2, <2>1, <2>5 DEF Edge, Request, RequestNext, Arbitrate, rd_req
      <3>3. Rested(d, 0, 1, 6)'
        BY <1>w, <2>1, <2>2, <2>3, <2>5, <3>1, <3>2 DEF Rested, Rest, Holds, Clear
      <3> QED BY <1>b, <1>w, <2>1, <2>2, <3>3 DEF Late0
    <2> QED BY <2>4, <2>5
  <1>3. CASE /\ draw_x \in 2 .. 3 /\ ~buf_valid[d] /\ Orphan(d, 1)
             /\ Begun(d, 0) /\ ~mem_rd_req /\ state = "IDLE" /\ rd_valid
    <2>1. WordArrives /\ ~rd_accepted /\ ~StartFill /\ (LineArrives <=> rd_x_hold = LastWord)
      BY <1>3 DEF WordArrives, LineArrives, rd_accepted, StartFill, Begun
    <2>2. rd_buf_hold = d /\ rd_y_hold = 0
      BY <1>3 DEF Orphan
    <2>3. ~rd_valid' /\ state' # "READ" /\ mem_rd_req' /\ mem_rd_addr' = <<read_frame, 0, 0>>
      BY <1>3, <2>1 DEF Begun, Edge, Arbitrate, Request, RequestNext, rd_req
    <2>4. fill_x' = 0 /\ fill_buf' = d /\ fill_y' = 0 /\ ~line_done_pending'
          /\ fill_addr' = <<read_frame, 0, 0>> /\ (fill_active' <=> rd_x_hold # LastWord)
      BY <1>3, <1>x, <2>1 DEF Begun, Edge, Fill
    <2>5. draw_x' \in 3 .. 4
      BY <1>3, <1>b
    <2>6. CASE rd_x_hold = LastWord
      <3>1. Holds(d, 0)' /\ ~buf_valid'[c]
        BY <1>w, <2>1, <2>2, <2>6 DEF Holds
      <3> QED BY <1>b, <2>3, <2>4, <2>5, <2>6, <3>1 DEF Orphans
    <2>7. CASE rd_x_hold # LastWord
      <3>1. Asked'
        BY <2>3, <2>4 DEF Asked
      <3>2. ~buf_valid'[c]
        BY <1>w, <2>1, <2>2
      <3>3. Fetching' /\ Age' \in 1 .. 2 /\ Content'
        BY <1>k, <2>3, <2>4, <2>7, <3>1, <3>2
      <3>4. Fetch(d, 0, 1, 3)'
        <4>1. \A x \in 3 .. 4, a \in 1 .. 2 : 1 <= x - a /\ x - a <= 3 /\ a # 0
          OBVIOUS
        <4> QED BY <2>4, <2>5, <3>3, <4>1 DEF Fetch, BeganIn
      <3> QED BY <1>b, <3>2, <3>3, <3>4 DEF Race0, Old
    <2> QED BY <2>6, <2>7
  <1>4. CASE /\ draw_x \in 3 .. 5 /\ Holds(d, 0)
             /\ ~fill_active /\ mem_rd_req /\ state # "READ" /\ ~rd_valid
             /\ state = "WRITE" => draw_x <= 4
             /\ fill_x = 0 /\ fill_buf = d /\ fill_y = 0
    <2>1. ~WordArrives /\ ~LineArrives /\ ~StartFill
      BY <1>4 DEF WordArrives, LineArrives, StartFill
    <2>2. ~fill_active' /\ fill_buf' = d /\ fill_y' = 0
      BY <1>4, <2>1 DEF Edge, Fill
    <2>3. Holds(d, 0)' /\ ~buf_valid'[c]
      BY <1>4, <1>m, <1>n, <2>1 DEF Holds
    <2>4. CASE state = "WRITE"
      <3>1. ~rd_accepted
        BY <2>4 DEF rd_accepted
      <3>2. mem_rd_req' /\ state' = "IDLE" /\ ~rd_valid' /\ fill_x' = 0
        BY <1>4, <1>x, <2>1, <2>4, <3>1 DEF Edge, Request, Arbitrate, Fill
      <3>3. draw_x' \in 3 .. 5
        BY <1>4, <1>b, <2>4
      <3> QED BY <1>b, <2>2, <2>3, <3>2, <3>3 DEF Orphans
    <2>5. CASE state = "IDLE"
      <3>1. rd_accepted /\ rd_req
        BY <1>4, <2>5 DEF rd_accepted, rd_req
      <3>2. ~mem_rd_req' /\ state' = "READ" /\ ~rd_valid' /\ rd_x_hold' = 0
            /\ rd_buf_hold' = d /\ rd_y_hold' = 0
        BY <1>4, <2>5, <3>1 DEF Edge, Request, RequestNext, Arbitrate
      <3>3. Orphan(d, 0)' /\ draw_x' \in 4 .. 6
        BY <1>4, <1>b, <3>2 DEF Orphan
      <3> QED BY <1>b, <2>2, <2>3, <3>2, <3>3 DEF Orphans
    <2> QED BY <1>4, <1>t, <2>4, <2>5
  <1>5. CASE /\ draw_x \in 4 .. 6 /\ Holds(d, 0) /\ Orphan(d, 0)
             /\ ~fill_active /\ ~mem_rd_req /\ state = "READ" /\ ~rd_valid
    <2>1. ~WordArrives /\ ~rd_accepted /\ ~LineArrives
      BY <1>5 DEF WordArrives, LineArrives, rd_accepted
    <2>2. Wanted = 1 /\ StartFill
      BY <1>5, <1>m, <1>x, <1>h, <1>g DEF Wanted, StartFill, Holds
    <2>3. Begun(d, 1)'
      BY <1>x, <1>r, <2>1, <2>2 DEF Edge, Fill, Begun
    <2>4. ~mem_rd_req' /\ state' = "IDLE" /\ rd_valid' /\ rd_x_hold' = rd_x_hold
          /\ rd_buf_hold' = rd_buf_hold /\ rd_y_hold' = rd_y_hold
      BY <1>5, <2>1 DEF Edge, Request, RequestNext, Arbitrate
    <2>5. Orphan(d, 0)' /\ draw_x' \in 5 .. 7
      BY <1>5, <1>b, <2>4 DEF Orphan
    <2>6. Holds(d, 0)' /\ ~buf_valid'[c]
      BY <1>5, <1>m, <1>n, <2>1 DEF Holds
    <2> QED BY <1>b, <2>3, <2>4, <2>5, <2>6 DEF Orphans
  <1>6. CASE /\ draw_x \in 5 .. 7 /\ Holds(d, 0) /\ Orphan(d, 0)
             /\ Begun(d, 1) /\ ~mem_rd_req /\ state = "IDLE" /\ rd_valid
    <2>1. rd_buf_hold = d /\ rd_y_hold = 0 /\ rd_x_hold = 0
      BY <1>6 DEF Orphan
    <2>2. WordArrives /\ ~rd_accepted /\ ~StartFill /\ ~LineArrives
      BY <1>6, <1>t, <2>1 DEF WordArrives, LineArrives, rd_accepted, StartFill, Begun
    <2>3. ~rd_valid' /\ state' # "READ" /\ mem_rd_req' /\ mem_rd_addr' = <<read_frame, 1, 0>>
      BY <1>6, <2>2 DEF Begun, Edge, Arbitrate, Request, RequestNext, rd_req
    <2>4. fill_x' = 0 /\ fill_buf' = d /\ fill_y' = 1 /\ ~line_done_pending'
          /\ fill_addr' = <<read_frame, 1, 0>> /\ fill_active'
      BY <1>6, <1>x, <2>2 DEF Begun, Edge, Fill
    <2>5. ~buf_valid'[c] /\ buf_valid'[d]
      BY <1>6, <1>w, <2>1, <2>2 DEF Holds
    <2>6. Asked'
      BY <2>3, <2>4 DEF Asked
    <2>7. Fetching' /\ Age' \in 1 .. 2 /\ Content'
      BY <1>k, <2>3, <2>4, <2>5, <2>6
    <2>8. Fetch(d, 1, 1, 7)'
      <3>1. \A x \in 6 .. 8, a \in 1 .. 2 : 1 <= x - a /\ x - a <= 7 /\ a # 0
        OBVIOUS
      <3>2. draw_x' \in 6 .. 8
        BY <1>6, <1>b
      <3> QED BY <2>4, <2>7, <3>1, <3>2 DEF Fetch, BeganIn
    <2> QED BY <1>b, <2>5, <2>7, <2>8 DEF Late0, Refetch
  <1> QED BY <1>1, <1>2, <1>3, <1>4, <1>5, <1>6 DEF Orphans

(* All of them together.                                                     *)
Modes(c, d) == Race(c, d) \/ Late(c, d) \/ After(c, d)

LEMMA ModeReader ==
  ASSUME NEW c \in Buffers, NEW d \in Buffers, Modes(c, d)
  PROVE  Cur = c /\ (Clear \/ Fetching)
  <1>1. CASE Race(c, d)
    BY <1>1 DEF Race, Race0, Race1, Race2, Race3, Race4, Rested, Refetch, Rest, Fetch
  <1>2. CASE Late(c, d)
    BY <1>2 DEF Late, Late0, Late1, Late2, Late3, Late4, Late5, Late6, Rested, Refetch, Rest, Fetch
  <1>3. CASE After(c, d)
    BY <1>3 DEF After, Blank, Steady
  <1> QED BY <1>1, <1>2, <1>3 DEF Modes

(* A scan begins with the reader at rest.                                     *)
LEMMA ScanBegins ==
  ASSUME VarsOK, NEW c \in Buffers, NEW d \in Buffers, Modes(c, d) \/ Orphans(c, d), new_frame
  PROVE  Race0(c, d) /\ Clear /\ ~Late(c, d) /\ ~Orphans(c, d)
  <1>g. LW \in Nat /\ LW >= 22 /\ Lines \in Nat /\ Lines >= 5
    BY Geometry
  <1>t. Age \in Nat
    BY AgeRange
  <1>x. draw_x = 0 /\ draw_y = 0
    BY DEF new_frame, new_line
  <1>1. ASSUME NEW q, NEW lo \in Nat, NEW hi, NEW b, lo >= 1
        PROVE  ~Fetch(b, q, lo, hi) /\ ~Rest(lo, hi)
    <2>1. \A a \in Nat : ~(lo <= 0 - a)
      BY <1>1
    <2>2. ~(lo <= 0)
      BY <1>1
    <2> QED BY <1>t, <1>x, <2>1, <2>2 DEF Fetch, BeganIn, Rest
  <1>2. 2 * LW + 4 \in Nat /\ 2 * LW + 4 >= 1 /\ 1 \in Nat /\ 1 >= 1
    BY <1>g
  <1>3. ~Late0(c, d)
    BY <1>1, <1>2 DEF Late0, Rested, Refetch
  <1>4. ~Orphans(c, d)
    BY <1>x DEF Orphans
  <1>5. ~Steady(c, d, c) /\ \A p \in 0 .. Lines : ~Steady(c, d, p)
    BY <1>g, <1>x DEF Steady, Buffers
  <1>6. ~Blank(c, d)
    BY <1>g, <1>x DEF Blank
  <1>7. Race0(c, d)
    BY <1>x, <1>3, <1>4, <1>5, <1>6
       DEF Modes, Race, Race1, Race2, Race3, Race4, Late, Late1, Late2, Late3, Late4, Late5, Late6, After
  <1>8. Rest(0, 1)
    BY <1>7, <1>1, <1>2 DEF Race0, Rested, Refetch
  <1>9. ~Late(c, d)
    BY <1>x, <1>3 DEF Late, Late1, Late2, Late3, Late4, Late5, Late6
  <1> QED BY <1>4, <1>7, <1>8, <1>9 DEF Rest

LEMMA RaceStep ==
  ASSUME VarsOK, VarsOK', Ahead, draw_x = 0 => draw_x_d # 0,
         NEW c \in Buffers, NEW d \in Buffers, c # d, Race(c, d) \/ After(c, d)
  PROVE  \E c1, d1 \in Buffers : c1 # d1 /\ (Race(c1, d1)' \/ After(c1, d1)')
  <1>g. Lines \in Nat /\ Lines >= 5
    BY Geometry
  <1>s. 2 \in 0 .. Lines
    BY <1>g
  <1>1. CASE Race(c, d)
    <2>1. Race(c, d)' \/ Race(d, c)' \/ Steady(d, c, 2)'
      BY <1>1, Race0Step, Race1Step, Race2Step, Race3Step, Race4Step DEF Race
    <2> QED BY <1>s, <2>1 DEF After
  <1>2. CASE Blank(c, d)
    <2>1. Race(c, d)' \/ Blank(c, d)'
      BY <1>2, BlankStep DEF Race
    <2> QED BY <2>1 DEF After
  <1>3. ASSUME NEW p \in 0 .. Lines, Steady(c, d, p)
        PROVE  After(c, d)' \/ After(d, c)'
    <2>1. p \in Nat /\ p < Lines /\ p + 1 \in 0 .. Lines
      BY <1>3, <1>g DEF Steady
    <2>2. Steady(c, d, p)' \/ Steady(d, c, p + 1)' \/ Blank(c, d)'
      BY <1>3, <2>1, SteadyStep
    <2> QED BY <2>1, <2>2 DEF After
  <1> QED BY <1>1, <1>2, <1>3 DEF After

LEMMA LateStep ==
  ASSUME VarsOK, VarsOK', Ahead, draw_x = 0 => draw_x_d # 0,
         NEW c \in Buffers, NEW d \in Buffers, c # d, Late(c, d)
  PROVE  \E c1, d1 \in Buffers : c1 # d1 /\ (Late(c1, d1)' \/ After(c1, d1)')
  <1>s. 2 \in 0 .. Lines /\ 3 \in 0 .. Lines
    BY Geometry
  <1>1. Late(c, d)' \/ Late(d, c)' \/ Steady(d, c, 2)' \/ Steady(d, c, 3)'
    BY Late0Step, Late1Step, Late2Step, Late3Step, Late4Step, Late5Step, Late6Step DEF Late
  <1> QED BY <1>s, <1>1 DEF After

LEMMA StaleGoes ==
  ASSUME VarsOK, VarsOK', NEW wr_valid \in BOOLEAN, Edge(wr_valid), Ahead,
         draw_x = 0 => draw_x_d # 0,
         NEW c \in Buffers, NEW d \in Buffers, c # d, Stale(c, d)
  PROVE  Content'
  <1>g. Lines \in Nat /\ Lines >= 5 /\ Buffers = {0, 1} /\ d = 1 - c
    BY Geometry DEF Buffers
  <1>m. Cur = c /\ draw_y = 0 /\ ~buf_valid[c] /\ Rest(1, 6) /\ Holds(d, 0) /\ Clear
    BY DEF Stale, Late0, Rested, Rest
  <1>h. ~Holds(c, 1) /\ ~Holds(d, 1) /\ ~Holds(c, 0)
    BY <1>m DEF Holds
  <1>1. draw_x # 0
    BY <1>m DEF Rest
  <1>2. buf_valid' = buf_valid
    BY <1>m DEF Ahead, Goes, Ends, Starts, Rests, Clear, Fetching
  <1>w. Wanted = 1 /\ StartFill
    <2>1. draw_y \in {2 * 0, 2 * 0 + 1} /\ 0 \in Nat /\ Free = d
      BY <1>m, <1>g DEF Free
    <2> QED BY <1>g, <1>h, <1>m, <1>1, <2>1, StartsWhen
  <1>3. Fetching' /\ Age' = 0 /\ fill_buf' = d /\ fill_y' = 1
    <2>1. Starts
      BY <1>m, <1>w DEF Ahead, Goes, Ends, Rests, Clear, Fetching
    <2> QED BY <1>m, <1>g, <1>w, <2>1 DEF Starts, Free
  <1>4. fill_addr' = <<read_frame, 1, 0>> /\ read_frame' = read_frame
    <2>1. ~rd_accepted /\ ~Swap
      BY <1>m, <1>1 DEF Clear, rd_accepted, Swap, new_frame, new_line
    <2> QED BY <1>w, <2>1 DEF Edge, Fill, TakePending
  <1>5. ~Asked' /\ ~Reading' /\ ~Arriving'
    <2>1. rd_x_hold' \in Nat
      BY RangesNext
    <2>2. \A n \in Nat : 2 * n + 3 # 0 /\ 2 * n + 4 # 0
      OBVIOUS
    <2>3. state' # "READ" /\ ~rd_valid'
      BY <1>3, <2>1, <2>2 DEF Age
    <2>4. ~mem_rd_req'
      BY <1>3, <2>3 DEF Age
    <2> QED BY <2>3, <2>4 DEF Asked, Reading, Arriving
  <1>6. Addressed'
    BY <1>3, <1>4, <1>5 DEF Addressed
  <1>7. \A b \in Buffers : b = c \/ b = d
    BY <1>g
  <1>8. fill_active'
    BY <1>3 DEF Fetching
  <1> QED BY <1>m, <1>2, <1>3, <1>6, <1>7, <1>8 DEF Content

LEMMA EnabledStep ==
  ASSUME VarsOK, VarsOK', Next, Enabled, EnabledInv
  PROVE  Enabled' /\ EnabledInv'
  <1> PICK wr_valid \in BOOLEAN, complete \in BOOLEAN :
        /\ Edge(wr_valid) /\ Offer(complete)
        /\ scans' = IF new_frame /\ have_sram_frame /\ scans < 2 THEN scans + 1 ELSE scans
    BY DEF Next, Edge
  <1>t. scans \in 0 .. 2 /\ draw_x \in Nat /\ H \in Nat /\ H > 1
    <2>1. H \in Nat /\ H > 1
      BY Geometry
    <2>2. scans \in 0 .. 2 /\ draw_x \in 0 .. H - 1
      BY DEF VarsOK
    <2> QED BY <2>1, <2>2
  <1> PICK c \in Buffers, d \in Buffers :
        /\ c # d
        /\ \/ (Race(c, d) \/ After(c, d)) /\ Content
           \/ scans < 2 /\ Late(c, d) /\ (Content \/ Stale(c, d))
           \/ scans < 2 /\ Orphans(c, d)
    BY DEF EnabledInv
  <1>h. have_sram_frame /\ have_sram_frame' /\ (draw_x = 0 => draw_x_d # 0)
    BY DEF EnabledInv, Offer
  <1>x. draw_x' = 0 => draw_x_d' # 0
    BY <1>t DEF Edge, MoveBeam, H
  <1>o. Modes(c, d) \/ Orphans(c, d)
    BY DEF Modes
  <1>e. Enabled'
    <2>1. CASE Swap
      <3>1. new_frame
        BY <2>1 DEF Swap
      <3> QED BY <1>h, <1>t, <3>1 DEF Enabled
    <2>2. CASE ~Swap
      <3>1. read_frame' = read_frame
        BY <2>2 DEF Edge, TakePending
      <3>2. scans > 0 => scans' > 0
        BY <1>t
      <3> QED BY <3>1, <3>2 DEF Enabled
    <2> QED BY <2>1, <2>2
  <1>s. Late(c, d) \/ Orphans(c, d) => scans' = scans
    <2>1. new_frame => ~Late(c, d) /\ ~Orphans(c, d)
      BY <1>o, ScanBegins
    <2> QED BY <2>1
  <1>1. CASE Swap
    <2>1. new_frame
      BY <1>1 DEF Swap
    <2>2. Race0(c, d) /\ Clear
      BY <1>o, <2>1, ScanBegins
    <2>3. Cur = c
      BY <2>2 DEF Race0
    <2>4. Race0(c, d)' /\ Content'
      BY <1>1, <2>2, <2>3, SwapStep
    <2> QED BY <1>e, <1>h, <1>x, <2>4 DEF EnabledInv, Race
  <1>2. CASE ~Swap /\ scans < 2 /\ Orphans(c, d)
    <2>1. scans' < 2
      BY <1>2, <1>s
    <2>2. \/ Orphans(c, d)'
          \/ Late0(c, d)' /\ (Rested(d, 0, 1, 6)' \/ Content')
          \/ Race0(c, d)' /\ Content'
      BY <1>2, <1>h, OrphansStep
    <2>3. CASE Orphans(c, d)'
      BY <1>e, <1>h, <1>x, <2>1, <2>3 DEF EnabledInv
    <2>4. CASE Late0(c, d)' /\ (Rested(d, 0, 1, 6)' \/ Content')
      <3>1. Late(c, d)' /\ (Content' \/ Stale(c, d)')
        BY <2>4 DEF Late, Stale
      <3> QED BY <1>e, <1>h, <1>x, <2>1, <3>1 DEF EnabledInv
    <2>5. CASE Race0(c, d)' /\ Content'
      BY <1>e, <1>h, <1>x, <2>5 DEF EnabledInv, Race
    <2> QED BY <2>2, <2>3, <2>4, <2>5
  <1>3. CASE ~Swap /\ scans < 2 /\ Late(c, d) /\ (Content \/ Stale(c, d))
    <2>1. Clear \/ Fetching
      BY <1>3, ModeReader DEF Modes
    <2>2. Ahead
      BY <1>3, <1>h, <2>1, AheadEdge
    <2> PICK c1 \in Buffers, d1 \in Buffers :
          c1 # d1 /\ (Late(c1, d1)' \/ After(c1, d1)')
      BY <1>3, <1>h, <2>2, LateStep
    <2>3. Content'
      BY <1>3, <1>h, <2>1, <2>2, ContentStep, StaleGoes
    <2>4. scans' < 2
      BY <1>3, <1>s
    <2>5. CASE After(c1, d1)'
      BY <1>e, <1>h, <1>x, <2>3, <2>5 DEF EnabledInv
    <2>6. CASE Late(c1, d1)'
      BY <1>e, <1>h, <1>x, <2>3, <2>4, <2>6 DEF EnabledInv
    <2> QED BY <2>5, <2>6
  <1>4. CASE ~Swap /\ (Race(c, d) \/ After(c, d)) /\ Content
    <2>1. Modes(c, d) /\ (Clear \/ Fetching)
      BY <1>4, ModeReader DEF Modes
    <2>2. Ahead
      BY <1>4, <1>h, <2>1, AheadEdge
    <2> PICK c1 \in Buffers, d1 \in Buffers : c1 # d1 /\ (Race(c1, d1)' \/ After(c1, d1)')
      BY <1>4, <1>h, <2>2, RaceStep
    <2>3. Content'
      BY <1>4, <1>h, <2>1, ContentStep
    <2> QED BY <1>e, <1>h, <1>x, <2>3 DEF EnabledInv
  <1> QED BY <1>1, <1>2, <1>3, <1>4

(* Before the first swap: its edge, and every other.                          *)
LEMMA FirstSwap ==
  ASSUME VarsOK, VarsOK', NEW wr_valid \in BOOLEAN, Edge(wr_valid), Swap, Waiting \/ Partial
  PROVE  \/ Race0(0, 1)' /\ Content'
         \/ Race0(1, 0)' /\ Content'
         \/ Orphans(0, 1)'
         \/ Late0(0, 1)' /\ Stale(0, 1)'
  <1>g. LW \in Nat /\ LW >= 22 /\ LastWord = LW - 1 /\ 0 \in Buffers /\ 1 \in Buffers
        /\ Buffers = {0, 1} /\ LastWord # 0
    BY Geometry DEF Buffers
  <1>t. state \in {"IDLE", "READ", "WRITE"} /\ rd_x_hold \in 0 .. LastWord
    BY DEF VarsOK
  <1>x. draw_x = 0 /\ draw_y = 0 /\ draw_x_d # 0 /\ new_line
    BY DEF Swap, new_frame, new_line
  <1>e. /\ draw_x' = 1 /\ draw_y' = 0 /\ Cur' = Cur /\ ~Lit' /\ ~fill_active'
        /\ \A b \in Buffers : buf_valid'[b] => LineArrives /\ b = rd_buf_hold
    BY SwapEdge
  <1>1. CASE Clear
    <2>1. Cur = 0 \/ Cur = 1
      BY <1>g, CurType
    <2> QED BY <1>1, <1>g, <2>1, SwapStep
  <1>2. CASE ~Clear
    <2>1. /\ Waiting /\ Fetching /\ fill_buf = 1 /\ fill_y = 0 /\ ~Fresh
          /\ current_buf = 0
          /\ ~have_sram_frame => Asked
      BY <1>2, <1>x DEF Waiting, Partial
    <2>2. Cur = 0 /\ Cur' = 0
      BY <1>e, <2>1 DEF Cur, pixel_buf_sel
    <2>f. fill_active /\ ~StartFill
      BY <2>1 DEF Fetching, StartFill
    <2>d. fill_buf' = 1 /\ fill_y' = 0
      BY <2>1, <2>f DEF Edge, Fill
    <2>3. CASE Asked /\ ~rd_accepted
      <3>1. ~rd_req \/ state # "IDLE"
        BY <2>3 DEF Asked, WordArrives, LineArrives, rd_accepted, rd_req
      <3>2. ~mem_rd_req'
        BY <2>3 DEF Asked, Edge, Request, RequestNext
      <3>3. state' # "READ"
        BY <3>1 DEF Edge, Arbitrate
      <3>4. ~rd_valid'
        BY <2>3 DEF Asked, Edge, Arbitrate
      <3>5. ~LineArrives
        BY <2>3 DEF Asked, LineArrives, WordArrives
      <3>6. Clear'
        BY <1>e, <3>2, <3>3, <3>4 DEF Clear
      <3> QED BY <1>g, <2>2, <3>5, <3>6, SwapClears
    <2>4. CASE Asked /\ rd_accepted
      <3>1. state = "IDLE" /\ rd_req /\ ~LineArrives
        BY <2>4 DEF Asked, rd_accepted, rd_req, LineArrives, WordArrives
      <3>2. ~mem_rd_req' /\ state' = "READ" /\ ~rd_valid' /\ rd_x_hold' = 0
            /\ rd_buf_hold' = 1 /\ rd_y_hold' = 0
        BY <2>1, <2>4, <3>1 DEF Asked, Edge, Request, RequestNext, Arbitrate
      <3>3. ~buf_valid'[0] /\ ~buf_valid'[1]
        BY <1>e, <1>g, <3>1
      <3>4. Orphan(1, 1)'
        BY <3>2 DEF Orphan
      <3> QED BY <1>e, <2>2, <3>2, <3>3, <3>4 DEF Orphans
    <2>5. CASE Reading
      <3>1. ~WordArrives /\ ~LineArrives /\ ~rd_accepted
        BY <2>5 DEF Reading, WordArrives, LineArrives, rd_accepted
      <3>2. state' = "IDLE" /\ rd_valid' /\ rd_x_hold' = rd_x_hold
            /\ rd_buf_hold' = 1 /\ rd_y_hold' = 0
        BY <2>1, <2>5, <3>1 DEF Reading, Took, Edge, Request, Arbitrate
      <3>3. ~buf_valid'[0] /\ ~buf_valid'[1]
        BY <1>e, <1>g, <3>1
      <3>4. mem_rd_req' <=> rd_x_hold' # LastWord
        <4>1. RequestNext <=> rd_x_hold # LastWord
          BY <2>5, <2>f, <3>1 DEF Reading, Took, RequestNext
        <4>2. ~mem_rd_req
          BY <2>5 DEF Reading
        <4>3. mem_rd_req' <=> RequestNext
          BY <4>2 DEF Edge, Request
        <4> QED BY <3>2, <4>1, <4>3
      <3>5. Orphan(1, 1)'
        BY <3>2 DEF Orphan
      <3> QED BY <1>e, <2>2, <2>d, <3>2, <3>3, <3>4, <3>5 DEF Orphans
    <2>6. CASE Arriving
      <3>1. have_sram_frame /\ WordArrives /\ (rd_accepted <=> rd_x_hold # LastWord)
            /\ (LineArrives <=> rd_x_hold = LastWord) /\ rd_buf_hold = 1 /\ rd_y_hold = 0
        BY <2>1, <2>6 DEF Arriving, Asked, Took, WordArrives, LineArrives, rd_accepted
      <3>2. CASE rd_x_hold # LastWord
        <4>1. ~mem_rd_req' /\ state' = "READ" /\ ~rd_valid' /\ rd_buf_hold' = 1 /\ rd_y_hold' = 0
          BY <2>1, <2>6, <3>1, <3>2 DEF Arriving, Edge, Request, RequestNext, Arbitrate, rd_req
        <4>2. ~buf_valid'[0] /\ ~buf_valid'[1]
          BY <1>e, <1>g, <3>1, <3>2
        <4>3. Orphan(1, 1)'
          BY <4>1 DEF Orphan
        <4> QED BY <1>e, <2>2, <4>1, <4>2, <4>3 DEF Orphans
      <3>3. CASE rd_x_hold = LastWord
        <4>1. ~mem_rd_req /\ ~rd_req /\ line_done_pending /\ state = "IDLE"
          BY <2>6, <3>3 DEF Arriving, Took, rd_req
        <4>2. ~mem_rd_req' /\ state' # "READ" /\ ~rd_valid'
          BY <4>1 DEF Edge, Request, RequestNext, Arbitrate
        <4>3. buf_valid'[1] /\ ~buf_valid'[0]
          BY <1>e, <1>g, <3>1, <3>3 DEF Edge, Store
        <4>4. buf_y'[1] = 0
          <5>1. buf_y \in [Buffers -> Nat] /\ buf_y' = [buf_y EXCEPT ![1] = 0]
            BY <3>1 DEF VarsOK, Edge, Store
          <5> QED BY <1>g, <5>1
        <4>5. Rested(1, 0, 1, 6)'
          BY <1>e, <4>2, <4>3, <4>4 DEF Rested, Rest, Clear, Holds
        <4> QED BY <1>e, <2>2, <4>3, <4>5 DEF Late0, Stale
      <3> QED BY <3>2, <3>3
    <2> QED BY <2>1, <2>3, <2>4, <2>5, <2>6 DEF Fetching
  <1> QED BY <1>1, <1>2

LEMMA WaitingStep ==
  ASSUME VarsOK, VarsOK', NEW wr_valid \in BOOLEAN, Edge(wr_valid), ~Swap, Waiting,
         have_sram_frame => have_sram_frame'
  PROVE  Waiting' \/ Partial'
  <1>g. LW \in Nat /\ LW >= 22 /\ Buffers = {0, 1} /\ 0 \in Buffers /\ Lines \in Nat /\ Lines >= 5
        /\ H \in Nat /\ H > 1
    BY Geometry DEF Buffers
  <1>t. draw_x \in Nat /\ Age \in Nat /\ Age' \in Nat
    BY Types
  <1>v. /\ current_buf = 0 /\ \A b \in Buffers : ~buf_valid[b]
        /\ \A y : ~buffer_has_y(y)
    BY DEF Waiting, buffer_has_y, Holds
  <1>1. current_buf' = 0
    BY <1>v DEF Edge, SelectBuffer, pixel_buf_sel
  <1>x. draw_x' = 0 => draw_x_d' # 0
    BY <1>g, <1>t DEF Edge, MoveBeam, H
  <1>2. CASE Clear /\ draw_x = 0 /\ draw_y = 0 /\ draw_x_d = 0 /\ ~have_sram_frame
    <2>1. ~new_line /\ Wanted = 0 /\ FreeBuffer = 1
      BY <1>2, <1>v DEF new_line, Wanted, PictureLine, FreeBuffer
    <2>2. StartFill
      BY <1>2, <1>v, <1>g, <2>1 DEF StartFill, Clear
    <2>3. ~rd_accepted /\ ~LineArrives /\ ~rd_req
      BY <1>2 DEF Clear, rd_accepted, LineArrives, WordArrives, rd_req
    <2>4. fill_active' /\ fill_buf' = 1 /\ fill_y' = 0 /\ fill_x' = 0 /\ ~line_done_pending'
      BY <2>1, <2>2, <2>3 DEF Edge, Fill
    <2>5. ~mem_rd_req' /\ state' # "READ" /\ ~rd_valid'
      BY <1>2, <2>3 DEF Clear, Edge, Request, RequestNext, Arbitrate
    <2>6. Fresh' /\ Fetching'
      BY <1>g, <2>4, <2>5 DEF Fresh, Fetching
    <2>7. \A b \in Buffers : ~buf_valid'[b]
      BY <1>v, <2>3 DEF Edge, Store
    <2>8. draw_x' = 1 /\ draw_y' = 0
      BY <1>2, <1>g DEF Edge, MoveBeam, H
    <2> QED BY <1>1, <2>4, <2>6, <2>7, <2>8 DEF Waiting
  <1>3. CASE /\ Fetching /\ fill_buf = 1 /\ fill_y = 0 /\ ~have_sram_frame /\ (Fresh \/ Asked)
    <2>1. ~rd_accepted /\ ~LineArrives /\ ~rd_req /\ ~StartFill /\ fill_active
      BY <1>3 DEF rd_accepted, LineArrives, WordArrives, rd_req, Fetching, StartFill
    <2>2. fill_active' /\ fill_buf' = 1 /\ fill_y' = 0 /\ fill_x' = 0 /\ ~line_done_pending'
      BY <1>3, <2>1 DEF Fresh, Asked, Edge, Fill
    <2>3. mem_rd_req' /\ state' # "READ" /\ ~rd_valid'
      BY <1>3, <2>1 DEF Fresh, Asked, Edge, Request, RequestNext, Arbitrate
    <2>4. Asked' /\ ~Fresh' /\ Fetching'
      BY <1>g, <2>2, <2>3 DEF Asked, Fresh, Fetching
    <2>5. \A b \in Buffers : ~buf_valid'[b]
      BY <1>v, <2>1 DEF Edge, Store
    <2> QED BY <1>1, <1>x, <2>2, <2>4, <2>5 DEF Waiting
  <1>4. CASE Fetching /\ fill_buf = 1 /\ fill_y = 0 /\ have_sram_frame
    <2>1. Goes \/ Ends
      BY <1>4, GoesEdge
    <2>2. CASE Goes
      <3>1. Fetching' /\ fill_buf' = 1 /\ fill_y' = 0 /\ buf_valid' = buf_valid /\ Age' # 0
        BY <1>4, <1>t, <2>2 DEF Goes
      <3>2. ~Fresh'
        BY <3>1 DEF Fresh, Age
      <3> QED BY <1>1, <1>v, <1>x, <1>4, <3>1, <3>2 DEF Waiting
    <2>3. CASE Ends
      BY <1>4, <1>x, <2>3 DEF Ends, Partial
    <2> QED BY <2>1, <2>2, <2>3
  <1> QED BY <1>2, <1>3, <1>4 DEF Waiting

LEMMA PartialStep ==
  ASSUME VarsOK, VarsOK', NEW wr_valid \in BOOLEAN, Edge(wr_valid), ~Swap, Partial,
         have_sram_frame => have_sram_frame'
  PROVE  Partial'
  <1>g. LW \in Nat /\ LW >= 22 /\ Lines \in Nat /\ Lines >= 5 /\ VTotal \in Nat /\ VTotal > 2 * Lines
        /\ H \in Nat /\ H > 2 * LW + 11 /\ HTotal = H
    BY Geometry DEF H
  <1>t. draw_x \in Nat /\ draw_x < H /\ Age \in Nat /\ Age' \in Nat /\ draw_y \in Nat
    BY Types
  <1>h. have_sram_frame /\ have_sram_frame' /\ (draw_x = 0 => draw_x_d # 0) /\ (Clear \/ Fetching)
    BY DEF Partial
  <1>x. draw_x' = 0 => draw_x_d' # 0
    BY <1>g, <1>t DEF Edge, MoveBeam
  <1>m. /\ draw_x' = IF draw_x + 1 = H THEN 0 ELSE draw_x + 1
        /\ draw_y' = IF draw_x + 1 # H THEN draw_y
                     ELSE IF draw_y + 1 = VTotal THEN 0 ELSE draw_y + 1
    BY <1>g DEF Edge, MoveBeam
  <1>1. Ahead
    BY <1>h, BeamEdge, GoesEdge, StartsEdge DEF Ahead, Edge
  <1>2. CASE Clear'
    BY <1>2, <1>h, <1>x DEF Partial
  <1>3. CASE Starts
    <2>1. ~new_line /\ draw_y < 2 * Lines /\ Fetching' /\ Age' = 0
      BY <1>3 DEF Starts, StartFill
    <2>2. draw_x # 0
      BY <1>h, <2>1 DEF new_line
    <2>3. (draw_y' = 0 => draw_x' # 0) /\ draw_y' <= 2 * Lines /\ (draw_y' = 2 * Lines => draw_x' <= 0)
      BY <1>g, <1>t, <1>m, <2>1, <2>2
    <2> QED BY <1>h, <1>x, <2>1, <2>3 DEF Partial
  <1>4. CASE Goes
    <2>1. /\ Fetching /\ Age < 2 * LW + 2 /\ Fetching'
          /\ IF Age = 0 THEN Age' = 1 \/ Age' = 2 ELSE Age' = Age + 1
      BY <1>4 DEF Goes, LastAge
    <2>2. (draw_y = 0 => draw_x # 0) /\ draw_y <= 2 * Lines /\ (draw_y = 2 * Lines => draw_x <= Age)
      BY <2>1 DEF Partial, Clear, Fetching
    <2>3. Age' >= Age + 1
      BY <1>t, <2>1
    <2>4. CASE draw_x + 1 # H
      <3>1. draw_x' = draw_x + 1 /\ draw_y' = draw_y
        BY <1>m, <2>4
      <3>2. draw_y = 2 * Lines => draw_x' <= Age'
        BY <1>t, <2>2, <2>3, <3>1
      <3>3. draw_x' # 0
        BY <1>t, <3>1
      <3> QED BY <1>h, <1>x, <2>1, <2>2, <3>1, <3>2, <3>3 DEF Partial
    <2>5. CASE draw_x + 1 = H
      <3>1. draw_y # 2 * Lines
        BY <1>g, <1>t, <2>1, <2>2, <2>5
      <3>2. draw_x' = 0 /\ draw_y' # 0 /\ draw_y' <= 2 * Lines
        BY <1>g, <1>t, <1>m, <2>2, <2>5, <3>1
      <3>3. draw_x' <= Age'
        BY <1>t, <3>2
      <3> QED BY <1>h, <1>x, <2>1, <3>2, <3>3 DEF Partial
    <2> QED BY <2>4, <2>5
  <1> QED BY <1>1, <1>2, <1>3, <1>4 DEF Ahead, Ends, Rests

(* A stuttering step leaves all of it as it is.                               *)
LEMMA Unmoved ==
  ASSUME ReaderInv, UNCHANGED vars
  PROVE  ReaderInv'
  <1>u. /\ draw_x' = draw_x /\ draw_y' = draw_y /\ draw_x_d' = draw_x_d
        /\ pending_frame' = pending_frame /\ pending_valid' = pending_valid
        /\ have_sram_frame' = have_sram_frame /\ read_frame' = read_frame
        /\ pending_consumed' = pending_consumed /\ line_buf' = line_buf /\ buf_y' = buf_y
        /\ buf_valid' = buf_valid /\ current_buf' = current_buf /\ current_valid' = current_valid
        /\ fill_active' = fill_active /\ fill_buf' = fill_buf /\ fill_y' = fill_y
        /\ fill_x' = fill_x /\ fill_addr' = fill_addr /\ line_done_pending' = line_done_pending
        /\ rd_x_hold' = rd_x_hold /\ rd_y_hold' = rd_y_hold /\ rd_buf_hold' = rd_buf_hold
        /\ mem_rd_req' = mem_rd_req /\ mem_rd_addr' = mem_rd_addr /\ state' = state
        /\ SRAM_ADDR' = SRAM_ADDR /\ rd_valid' = rd_valid /\ rd_data' = rd_data /\ scans' = scans
    BY DEF vars, beam, offer, buffers, fill, reads, arbiter
  <1>1. VarsOK'
    BY <1>u DEF ReaderInv, VarsOK
  <1>2. Enabled' <=> Enabled
    BY <1>u DEF Enabled
  <1>3. PictureLine' = PictureLine /\ (Swap' <=> Swap) /\ (new_line' <=> new_line)
    BY <1>u DEF PictureLine, Swap, new_frame, new_line
  <1>4. \A b, y : Holds(b, y)' <=> Holds(b, y)
    BY <1>u DEF Holds
  <1>5. buffer_has_y(PictureLine)' <=> buffer_has_y(PictureLine)
    BY <1>3, <1>4 DEF buffer_has_y
  <1>6. Holds(0, PictureLine)' <=> Holds(0, PictureLine)
    BY <1>u, <1>3 DEF Holds
  <1>c. Cur' = Cur
    BY <1>u, <1>3, <1>5, <1>6 DEF Cur, pixel_buf_sel
  <1>l. Lit' <=> Lit
    <2>1. CASE new_line
      BY <1>3, <1>5, <2>1 DEF Lit, pixel_line_valid
    <2>2. CASE ~new_line
      BY <1>u, <1>3, <2>2 DEF Lit, pixel_line_valid
    <2> QED BY <2>1, <2>2
  <1>a. Age' = Age
    BY <1>u DEF Age
  <1>m. /\ Clear' <=> Clear
        /\ Fresh' <=> Fresh
        /\ Asked' <=> Asked
        /\ Reading' <=> Reading
        /\ Arriving' <=> Arriving
    BY <1>u DEF Clear, Fresh, Asked, Reading, Arriving, Took
  <1>f. Fetching' <=> Fetching
    BY <1>u, <1>m DEF Fetching
  <1>q. \A b, q, lo, hi : /\ Fetch(b, q, lo, hi)' <=> Fetch(b, q, lo, hi)
                          /\ Refetch(b, q, lo, hi)' <=> Refetch(b, q, lo, hi)
                          /\ Rest(lo, hi)' <=> Rest(lo, hi)
                          /\ Rested(b, q, lo, hi)' <=> Rested(b, q, lo, hi)
    BY <1>u, <1>a, <1>f, <1>m, <1>4 DEF Fetch, Refetch, Rest, Rested, BeganIn
  <1>o. \A b, y : /\ Old(b, y)' <=> Old(b, y)
                  /\ OldLine(b, y)' <=> OldLine(b, y)
                  /\ Orphan(b, y)' <=> Orphan(b, y)
                  /\ Begun(b, y)' <=> Begun(b, y)
    BY <1>u DEF Old, OldLine, Orphan, Begun
  <1>n. Content => Content'
    <2>1. Stored => Stored'
      BY <1>u DEF Stored
    <2>2. Addressed => Addressed'
      BY <1>u, <1>m, <2>1 DEF Addressed
    <2>3. \A b \in Buffers : Whole(b) => Whole(b)'
      BY <1>u DEF Whole
    <2> QED BY <1>u, <1>f, <2>2, <2>3 DEF Content
  <1>r. ASSUME NEW c \in Buffers, NEW d \in Buffers
        PROVE  /\ Race(c, d) => Race(c, d)'
               /\ Late(c, d) => Late(c, d)'
               /\ After(c, d) => After(c, d)'
               /\ Orphans(c, d) => Orphans(c, d)'
               /\ Stale(c, d) => Stale(c, d)'
    <2>1. Race(c, d) => Race(c, d)'
      <3>1. Race0(c, d) => Race0(c, d)'
        BY <1>u, <1>c, <1>l, <1>q, <1>o DEF Race0
      <3>2. Race1(c, d) \/ Race2(c, d) => Race1(c, d)' \/ Race2(c, d)'
        BY <1>u, <1>c, <1>l, <1>q, <1>o DEF Race1, Race2
      <3>3. Race3(c, d) => Race3(c, d)'
        BY <1>u, <1>c, <1>l, <1>4, <1>q, <1>o DEF Race3
      <3>4. Race4(c, d) => Race4(c, d)'
        BY <1>u, <1>c, <1>l, <1>4, <1>q DEF Race4
      <3> QED BY <3>1, <3>2, <3>3, <3>4 DEF Race
    <2>2. Late0(c, d) => Late0(c, d)'
      BY <1>u, <1>c, <1>l, <1>q DEF Late0
    <2>3. Late(c, d) => Late(c, d)'
      BY <1>u, <1>c, <1>l, <1>a, <1>4, <1>q, <2>2
         DEF Late, Late1, Late2, Late3, Late4, Late5, Late6
    <2>4. \A p \in 0 .. Lines : Steady(c, d, p) => Steady(c, d, p)'
      BY <1>u, <1>c, <1>l, <1>a, <1>f, <1>m, <1>4, <1>o DEF Steady
    <2>5. Blank(c, d) => Blank(c, d)'
      BY <1>u, <1>c, <1>l, <1>m, <1>4 DEF Blank
    <2>6. Orphans(c, d) => Orphans(c, d)'
      BY <1>u, <1>c, <1>l, <1>4, <1>o DEF Orphans
    <2>7. Stale(c, d) => Stale(c, d)'
      BY <1>q, <2>2 DEF Stale
    <2> QED BY <2>1, <2>3, <2>4, <2>5, <2>6, <2>7 DEF After
  <1>7. EnabledInv => EnabledInv'
    BY <1>u, <1>n, <1>r DEF EnabledInv
  <1>8. FirstInv => FirstInv'
    <2>1. Waiting => Waiting'
      BY <1>u, <1>m, <1>f DEF Waiting
    <2>2. Partial => Partial'
      BY <1>u, <1>a, <1>m, <1>f DEF Partial
    <2> QED BY <1>u, <2>1, <2>2 DEF FirstInv
  <1> QED BY <1>1, <1>2, <1>7, <1>8 DEF ReaderInv

LEMMA FirstStep ==
  ASSUME VarsOK, VarsOK', Next, ~Enabled, FirstInv
  PROVE  IF Enabled' THEN EnabledInv' ELSE FirstInv'
  <1> PICK wr_valid \in BOOLEAN, complete \in BOOLEAN :
        /\ Edge(wr_valid) /\ Offer(complete)
        /\ scans' = IF new_frame /\ have_sram_frame /\ scans < 2 THEN scans + 1 ELSE scans
    BY DEF Next, Edge
  <1>t. scans = 0 /\ read_frame = 0
    <2>1. \A n \in 0 .. 2 : n > 0 \/ n = 0
      OBVIOUS
    <2> QED BY <2>1 DEF Enabled, VarsOK
  <1>f. /\ ~pending_consumed /\ (have_sram_frame => pending_valid)
        /\ pending_valid => pending_frame = 1
        /\ Waiting \/ Partial
    BY DEF FirstInv
  <1>h. have_sram_frame' <=> have_sram_frame \/ pending_valid
    BY <1>f DEF Offer
  <1>1. CASE Swap
    <2>1. pending_valid /\ have_sram_frame' /\ draw_x' = 1 /\ scans' < 2
      BY <1>1, <1>h, <1>t, SwapEdge DEF Swap
    <2>2. read_frame' = 1
      BY <1>1, <1>f, <2>1 DEF Edge, TakePending
    <2>3. Enabled'
      BY <2>2 DEF Enabled
    <2>4. 0 \in Buffers /\ 1 \in Buffers
      BY DEF Buffers
    <2>5. \/ Race0(0, 1)' /\ Content'
          \/ Race0(1, 0)' /\ Content'
          \/ Orphans(0, 1)'
          \/ Late0(0, 1)' /\ Stale(0, 1)'
      BY <1>1, <1>f, FirstSwap
    <2>6. EnabledInv'
      BY <2>1, <2>4, <2>5 DEF EnabledInv, Race, Late
    <2> QED BY <2>3, <2>6
  <1>2. CASE ~Swap
    <2>1. ~(new_frame /\ have_sram_frame)
      BY <1>2, <1>f DEF Swap
    <2>2. scans' = 0 /\ read_frame' = 0 /\ ~pending_consumed'
      BY <1>2, <1>t, <2>1 DEF Edge, TakePending
    <2>3. ~Enabled'
      BY <2>2 DEF Enabled
    <2>4. have_sram_frame' => pending_valid'
      BY <1>f, <1>h DEF Offer
    <2>5. pending_valid' => pending_frame' = 1
      <3>1. (read_frame + 1) % 3 = 1
        BY <1>t
      <3>2. CASE complete
        BY <3>1, <3>2 DEF Offer
      <3>3. CASE ~complete
        BY <1>f, <3>3 DEF Offer
      <3> QED BY <3>2, <3>3
    <2>6. Waiting' \/ Partial'
      BY <1>2, <1>f, <1>h, WaitingStep, PartialStep
    <2>7. FirstInv'
      BY <2>2, <2>4, <2>5, <2>6 DEF FirstInv
    <2> QED BY <2>3, <2>7
  <1> QED BY <1>1, <1>2

(* ReaderInv is inductive.                                                   *)
LEMMA ReaderInit == Init => ReaderInv
  <1> SUFFICES ASSUME Init PROVE ReaderInv
    OBVIOUS
  <1>1. VarsOK
    BY VarsInit
  <1>2. ~Enabled
    BY DEF Init, Enabled
  <1>3. Waiting
    BY DEF Init, Waiting, Clear, Buffers
  <1>4. FirstInv
    BY <1>3 DEF Init, FirstInv
  <1> QED BY <1>1, <1>2, <1>4 DEF ReaderInv

LEMMA ReaderStep == ReaderInv /\ [Next]_vars => ReaderInv'
  <1> SUFFICES ASSUME ReaderInv, [Next]_vars PROVE ReaderInv'
    OBVIOUS
  <1>v. VarsOK
    BY DEF ReaderInv
  <1>1. CASE Next
    <2>1. VarsOK'
      BY <1>v, <1>1, VarsStep
    <2>2. IF Enabled' THEN EnabledInv' ELSE FirstInv'
      BY <1>v, <1>1, <2>1, EnabledStep, FirstStep DEF ReaderInv
    <2> QED BY <2>1, <2>2 DEF ReaderInv
  <1>2. CASE UNCHANGED vars
    BY <1>2, Unmoved
  <1> QED BY <1>1, <1>2

(* What the beam reads of a good line: of a buffer that is whole, or of one    *)
(* whose fetch is five edges ahead of it.                                    *)
LEMMA ShownIsRight ==
  ASSUME VarsOK, Content, NEW c \in Buffers, NEW p \in Nat, Cur = c,
         draw_y \in {2 * p, 2 * p + 1}, Holds(c, p),
         \/ Clear
         \/ Fetching /\ fill_buf # c
         \/ Fetching /\ fill_buf = c /\ fill_y = p /\ draw_x + 5 <= Age
  PROVE  GoodPixelIsRight
  <1>g. LW \in Nat /\ LW >= 22 /\ LastWord = LW - 1 /\ LineWords = LW
    BY Geometry DEF LW
  <1>t. draw_x \in Nat /\ rd_x_hold \in Nat
    BY Places
  <1>1. PictureLine = p
    BY Halves DEF PictureLine
  <1> SUFFICES ASSUME draw_x < 2 * LW
               PROVE  /\ line_buf[c][source_x] = <<read_frame, p, source_x>>
                      /\ ~(WordArrives /\ rd_buf_hold = c /\ rd_x_hold = source_x)
    BY <1>g, <1>1 DEF GoodPixelIsRight, InPicture, Cur
  <1> PICK x \in Nat : x = source_x /\ 2 * x <= draw_x /\ draw_x <= 2 * x + 1
    <2>1. \A n \in Nat : n \div 2 \in Nat /\ 2 * (n \div 2) <= n /\ n <= 2 * (n \div 2) + 1
      OBVIOUS
    <2>2. source_x = draw_x \div 2
      BY <1>g DEF source_x
    <2> QED BY <1>t, <2>1, <2>2
  <1>2. x \in 0 .. LastWord
    BY <1>g, <1>t
  <1>3. CASE ~(fill_active /\ fill_buf = c)
    <2>1. Whole(c) /\ buf_y[c] = p
      BY <1>3 DEF Content, Holds
    <2>2. line_buf[c][x] = <<read_frame, p, x>>
      BY <1>2, <2>1 DEF Whole
    <2>3. WordArrives => rd_buf_hold # c
      <3>1. CASE Clear
        BY <3>1 DEF Clear, WordArrives
      <3>2. CASE Fetching
        <4>1. fill_buf # c
          BY <1>3, <3>2 DEF Fetching
        <4>2. WordArrives => Arriving
          BY <3>2 DEF Fetching, WordArrives, Fresh, Asked, Reading
        <4> QED BY <4>1, <4>2 DEF Arriving, Took
      <3> QED BY <3>1, <3>2
    <2> QED BY <2>2, <2>3
  <1>4. CASE fill_active /\ fill_buf = c
    <2>1. Fetching /\ fill_y = p /\ draw_x + 5 <= Age /\ Addressed
      BY <1>4 DEF Clear, Content
    <2>2. CASE Fresh \/ Asked
      <3>1. Age <= 2
        BY <2>2 DEF Fresh, Asked, Age
      <3> QED BY <1>t, AgeRange, <2>1, <3>1
    <2>3. CASE Reading
      <3>1. Age = 2 * rd_x_hold + 3 /\ Stored /\ ~WordArrives
        BY <2>1, <2>3 DEF Reading, Age, Addressed, WordArrives
      <3>2. x \in 0 .. rd_x_hold - 1
        BY <1>t, <2>1, <3>1
      <3> QED BY <1>4, <2>1, <3>1, <3>2 DEF Stored
    <2>4. CASE Arriving
      <3>1. Age = 2 * rd_x_hold + 4 /\ Stored
        BY <2>1, <2>4 DEF Arriving, Age, Addressed
      <3>2. x \in 0 .. rd_x_hold - 1 /\ x # rd_x_hold
        BY <1>t, <2>1, <3>1
      <3> QED BY <1>4, <2>1, <3>1, <3>2 DEF Stored
    <2> QED BY <2>1, <2>2, <2>3, <2>4 DEF Fetching
  <1> QED BY <1>3, <1>4

LEMMA FarEnough ==
  ASSUME VarsOK, NEW b, NEW q, NEW lo \in Int, NEW hi \in Int, Fetch(b, q, lo, hi), hi + 5 <= 0
  PROVE  Fetching /\ fill_buf = b /\ fill_y = q /\ draw_x + 5 <= Age
  <1>1. draw_x \in Int /\ Age \in Int
    BY AgeRange, Places
  <1>2. Fetching /\ fill_buf = b /\ fill_y = q /\ draw_x - Age <= hi
    BY DEF Fetch, BeganIn
  <1> QED BY <1>1, <1>2

LEMMA ReaderShows == ReaderInv => ScansAreRight
  <1> SUFFICES ASSUME ReaderInv, scans > 0, ~GoodPixelIsRight PROVE FALSE
    BY DEF ScansAreRight
  <1>g. LW \in Nat /\ LW >= 22 /\ H \in Nat /\ 5 * H >= 12 * LW + 40
    BY Geometry
  <1>v. VarsOK /\ EnabledInv
    BY DEF ReaderInv, Enabled
  <1>l. Lit
    BY DEF GoodPixelIsRight, Lit
  <1> PICK c \in Buffers, d \in Buffers :
        /\ c # d
        /\ \/ (Race(c, d) \/ After(c, d)) /\ Content
           \/ scans < 2 /\ Late(c, d) /\ (Content \/ Stale(c, d))
           \/ scans < 2 /\ Orphans(c, d)
    BY <1>v DEF EnabledInv
  <1>1. ~Orphans(c, d) /\ ~Stale(c, d)
    BY <1>l DEF Orphans, Stale, Late0
  <1>2. Content
    BY <1>1
  <1>3. ASSUME Race3(c, d) PROVE FALSE
    <2>1. Cur = c /\ 1 \in Nat /\ draw_y \in {2 * 1, 2 * 1 + 1} /\ Holds(c, 1)
      BY <1>3 DEF Race3
    <2>2. /\ 6 * LW + 10 - 3 * H \in Int /\ 6 * LW + 15 - 3 * H \in Int
          /\ 6 * LW + 15 - 3 * H + 5 <= 0
      BY <1>g
    <2>3. \/ Clear
          \/ Fetching /\ fill_buf # c
          \/ Fetch(c, 1, 6 * LW + 10 - 3 * H, 6 * LW + 15 - 3 * H)
      BY <1>3 DEF Race3, Rested, Rest, Fetch
    <2>4. \/ Clear
          \/ Fetching /\ fill_buf # c
          \/ Fetching /\ fill_buf = c /\ fill_y = 1 /\ draw_x + 5 <= Age
      BY <1>v, <2>2, <2>3, FarEnough
    <2> QED BY <1>v, <1>2, <2>1, <2>4, ShownIsRight
  <1>4. ASSUME Late1(c, d) PROVE FALSE
    <2>1. Cur = c /\ 0 \in Nat /\ draw_y \in {2 * 0, 2 * 0 + 1} /\ Holds(c, 0)
      BY <1>4 DEF Late1
    <2>2. /\ 2 * LW + 4 - H \in Int /\ 2 * LW + 11 - H \in Int
          /\ 2 * LW + 11 - H + 5 <= 0
      BY <1>g
    <2>3. \/ Clear
          \/ Fetching /\ fill_buf # c
          \/ Fetch(c, 0, 2 * LW + 4 - H, 2 * LW + 11 - H)
      BY <1>4 DEF Late1, Rested, Rest, Fetch
    <2>4. \/ Clear
          \/ Fetching /\ fill_buf # c
          \/ Fetching /\ fill_buf = c /\ fill_y = 0 /\ draw_x + 5 <= Age
      BY <1>v, <2>2, <2>3, FarEnough
    <2> QED BY <1>v, <1>2, <2>1, <2>4, ShownIsRight
  <1>5. ASSUME NEW p \in 0 .. Lines, Steady(c, d, p) PROVE FALSE
    <2>1. Cur = c /\ p \in Nat /\ draw_y \in {2 * p, 2 * p + 1} /\ Holds(c, p)
      BY <1>5 DEF Steady
    <2>2. \/ Clear
          \/ Fetching /\ fill_buf # c
          \/ Fetching /\ fill_buf = c /\ fill_y = p /\ draw_x + 5 <= Age
      BY <1>5 DEF Steady
    <2> QED BY <1>v, <1>2, <2>1, <2>2, ShownIsRight
  <1>6. ~Race0(c, d) /\ ~Race1(c, d) /\ ~Race2(c, d) /\ ~Race4(c, d)
    BY <1>l DEF Race0, Race1, Race2, Race4
  <1>7. ~Late0(c, d) /\ ~Late2(c, d) /\ ~Late3(c, d) /\ ~Late4(c, d) /\ ~Late5(c, d) /\ ~Late6(c, d)
    BY <1>l DEF Late0, Late2, Late3, Late4, Late5, Late6
  <1>8. ~Blank(c, d)
    BY <1>l DEF Blank
  <1> QED BY <1>1, <1>3, <1>4, <1>5, <1>6, <1>7, <1>8 DEF Race, Late, After

LEMMA ReaderMisses == ReaderInv => MissesOnlyAtTop
  <1> SUFFICES ASSUME ReaderInv, scans = 2, InPicture, draw_y >= 5 PROVE Lit
    BY DEF MissesOnlyAtTop, Lit
  <1>g. Lines \in Nat
    BY Geometry
  <1>v. VarsOK /\ EnabledInv
    BY DEF ReaderInv, Enabled
  <1> PICK c \in Buffers, d \in Buffers : Race(c, d) \/ After(c, d)
    BY <1>v DEF EnabledInv
  <1>y. draw_y \in Nat /\ draw_y < 2 * Lines
    BY <1>v, Places DEF InPicture
  <1>1. ~Race(c, d)
    BY DEF Race, Race0, Race1, Race2, Race3, Race4
  <1>2. ~Blank(c, d)
    BY <1>g, <1>y DEF Blank
  <1> QED BY <1>1, <1>2 DEF After, Steady

(* In every scan that starts with the display enabled each pixel declared good *)
(* is the word of the displayed frame at the beam's line and column, with no   *)
(* write to it under way (vga_framebuffer_reader's two line buffers).         *)
THEOREM ScansTheorem == Spec => []ScansAreRight
  <1>1. Spec => []ReaderInv
    BY ReaderInit, ReaderStep, PTL DEF Spec
  <1> QED BY <1>1, ReaderShows, PTL

(* From the sixth display line of a scan on every pixel of the picture is      *)
(* good: the reader's fetches lose the race with the beam only above it.      *)
THEOREM MissesTheorem == Spec => []MissesOnlyAtTop
  <1>1. Spec => []ReaderInv
    BY ReaderInit, ReaderStep, PTL DEF Spec
  <1> QED BY <1>1, ReaderMisses, PTL

=============================================================================
