-------------------------------- MODULE FEC --------------------------------
(***************************************************************************)
(* The packet filter "fec" (FECFilterBuiltin) at both ends of a connection, *)
(* with arq "onreq".  Packets are put into rows of Cols packets, and, with   *)
(* Rows > 1, into columns of Rows packets; for each full group the sender    *)
(* sends the XOR of its packets, and the receiver makes the one packet that   *)
(* a group misses from the XOR of the others.  A clip, which is an XOR, is    *)
(* the set of the packets that are in it an odd number of times.             *)
(***************************************************************************)
EXTENDS Integers, Sequences, FiniteSets, SequencesExt

CONSTANTS
    Cols, Rows,     \* m_number_cols = sizeRow, m_number_rows = sizeCol
    ColsOnly,       \* m_cols_only
    Staircase,      \* m_arrangement_staircase
    Packets,        \* how many are sent
    MaxLoss,        \* how many the network loses, of data and of control packets
    MaxBehind       \* how many packets are on their way, besides one, and may overtake it

\* What a module that runs this one assumes of the constants.
FECAssumption ==
    /\ Cols \in Nat \ {0, 1} /\ Rows \in Nat \ {0} /\ ColsOnly \in BOOLEAN /\ Staircase \in BOOLEAN
    /\ ColsOnly => Rows > 1
    /\ {Packets, MaxLoss, MaxBehind} \subseteq Nat

VARIABLES
    snd,        \* the sender's groups: row and cols
    last,       \* m_iSndCurrSeqNo
    net,        \* the packets on their way
    lost,       \* how many were lost
    rcv,        \* the receiver's rowq, colq and cell_base, the packets whose cells are marked,
                \* and how many cells there are
    got,        \* the packets that went to the receive buffer, and those that were
                \* rebuilt, each with its contents
    rebuilt,
    reported,   \* loss_seqs so far
    resent      \* of these, those that were sent again

vars == <<snd, last, net, lost, rcv, got, rebuilt, reported, resent>>

Matrix == Rows * Cols
RowKind == -1
Lesser(a, b) == IF a < b THEN a ELSE b
From(s, n) == SubSeq(s, n + 1, Len(s))
SetXor(a, b) == (a \ b) \union (b \ a)

-----------------------------------------------------------------------------
(* Groups.                                                                 *)

ConfigureGroup(seqno, step, drop) ==
    [base |-> seqno, step |-> step, drop |-> drop, collected |-> 0, clip |-> {}, fec |-> FALSE, dismissed |-> FALSE]

\* Variant of the next definition: the clip is left.
ResetGroupKeepClip(g) == [g EXCEPT !.base = @ + g.drop, !.collected = 0]

ResetGroup(g) == [g EXCEPT !.base = @ + g.drop, !.collected = 0, !.clip = {}]

\* In a staircase each column begins a row lower, in flights of Rows columns.
ColumnOffset(col) == IF Staircase THEN col + (col % Rows) * Cols ELSE col
ConfigureColumns(isn) == [i \in 1 .. Cols |-> ConfigureGroup(isn + ColumnOffset(i - 1), Cols, Matrix)]
RowAt(base) == ConfigureGroup(base, 1, Cols)

ClipData(g, data) == [g EXCEPT !.clip = SetXor(@, data)]
ClipPacket(g, data) == [ClipData(g, data) EXCEPT !.collected = @ + 1]

Size(kind) == IF kind = "row" THEN Cols ELSE Rows
Members(g, kind) == {g.base + i * g.step : i \in 0 .. Size(kind) - 1}

Init ==
    /\ snd = [row |-> RowAt(1), cols |-> ConfigureColumns(1)] /\ last = 0
    /\ net = <<>> /\ lost = 0
    /\ rcv = [row |-> <<RowAt(1)>>, col |-> ConfigureColumns(1), base |-> 1, cells |-> {}, size |-> Matrix, intact |-> TRUE]
    /\ got = {} /\ rebuilt = {} /\ reported = {} /\ resent = {}

-----------------------------------------------------------------------------
(* The sender.                                                             *)

CheckGroupClose(g, pos, size) == IF pos < size THEN g ELSE ResetGroup(g)

FeedSource(s, seq) ==
    LET off == seq - s.row.base
        col == (off % Cols) + 1
        voff == seq - s.cols[col].base
        row == ClipPacket(CheckGroupClose(s.row, off, Cols), {seq})
    IN  IF Rows < 2 \/ voff < 0 \/ voff % Cols # 0 THEN [s EXCEPT !.row = row]
        ELSE [s EXCEPT !.row = row,
                       !.cols[col] = ClipPacket(CheckGroupClose(@, voff \div Cols, Rows), {seq})]

\* PackControl numbers a control packet like the last data packet.
Control(index, g) == [data |-> FALSE, index |-> index, seq |-> last, clip |-> g.clip]
Data(seq) == [data |-> TRUE, index |-> RowKind, seq |-> seq, clip |-> {seq}]

ColumnOf(s) == ((last - s.row.base) % Cols) + 1
ColumnReady == Rows > 1 /\ last >= snd.row.base /\ snd.cols[ColumnOf(snd)].collected >= Rows
RowReady == snd.row.collected >= Cols

\* CUDT::packData: packControlPacket first, which looks for a full column, then for a
\* full row; a new packet if there is none.
RoomInNet == Len(net) <= MaxBehind
SendColumn ==
    /\ RoomInNet /\ ColumnReady
    /\ net' = Append(net, Control(ColumnOf(snd) - 1, snd.cols[ColumnOf(snd)]))
    /\ snd' = [snd EXCEPT !.cols[ColumnOf(snd)] = ResetGroup(@)]
    /\ UNCHANGED <<last, lost, rcv, got, rebuilt, reported, resent>>
SendRow ==
    /\ RoomInNet /\ ~ColumnReady /\ RowReady /\ ~ColsOnly
    /\ net' = Append(net, Control(RowKind, snd.row))
    /\ snd' = [snd EXCEPT !.row = ResetGroup(@)]
    /\ UNCHANGED <<last, lost, rcv, got, rebuilt, reported, resent>>
SendData ==
    /\ RoomInNet /\ ~ColumnReady /\ (RowReady => ColsOnly) /\ last < Packets
    /\ last' = last + 1
    /\ snd' = FeedSource(IF RowReady THEN [snd EXCEPT !.row = ResetGroup(@)] ELSE snd, last + 1)
    /\ net' = Append(net, Data(last + 1))
    /\ UNCHANGED <<lost, rcv, got, rebuilt, reported, resent>>

\* A packet that was reported is sent again; it is not fed to the filter.
SendAgain ==
    /\ RoomInNet
    /\ \E seq \in reported \ resent : net' = Append(net, Data(seq)) /\ resent' = resent \union {seq}
    /\ UNCHANGED <<snd, last, lost, rcv, got, rebuilt, reported>>

-----------------------------------------------------------------------------
(* The receiver.  r is its state, with the packets rebuilt and the losses    *)
(* found while it takes a packet (made and losses).  It is not intact after    *)
(* it has read or erased what is not there.                                  *)

Grown(r, seq) == IF seq - r.base < r.size THEN r.size ELSE seq - r.base + 1
MarkCellReceived(r, seq) == [r EXCEPT !.cells = @ \union {seq}, !.size = Grown(r, seq)]

Known(r, seq) == seq \in r.cells

EraseFront(r, f, n) ==
    IF n > Len(r[f]) THEN [r EXCEPT !.intact = FALSE] ELSE [r EXCEPT ![f] = From(@, n)]

\* The first n cells are erased, and the next one is that of newbase.
EraseCells(r, n, newbase) ==
    IF n < 0 \/ n > r.size THEN [r EXCEPT !.intact = FALSE]
    ELSE [r EXCEPT !.cells = {seq - r.base - n + newbase : seq \in {s \in @ : s >= r.base + n}},
                   !.size = @ - n, !.base = newbase]

\* CheckLargeDrop: after a gap of more than two matrices (or five rows) the groups start
\* anew.
ResetRows(r, newbase) == [r EXCEPT !.row = <<RowAt(newbase)>>, !.cells = {}, !.size = 0]
CheckLargeDrop(r, seq) ==
    LET off == seq - r.row[1].base
        coloff == seq - r.col[(off % Cols) + 1].base
        series == coloff \div Matrix
        newbase == r.col[1].base + (series - 1) * Matrix
    IN  IF off < 0 THEN r
        ELSE IF Rows = 1 THEN IF off > 5 * Cols THEN ResetRows(r, seq - (off % Cols)) ELSE r
        ELSE IF coloff >= 0 /\ (series > 2 \/ r.row[1].base # r.col[1].base)
             THEN [ResetRows(r, newbase) EXCEPT !.col = ConfigureColumns(newbase), !.base = newbase]
        ELSE r

\* RcvGetRowGroupIndex, and ExtendRows.
ExtendRows(r, n) ==
    LET base == r.row[1].base
        add(q, k) == q \o [i \in 1 .. k - Len(q) |-> RowAt(q[1].base + (Len(q) + i - 1) * Cols)]
        e == EraseFront(r, "row", Cols)
    IN  IF n <= 3 * Cols + 1 THEN [r EXCEPT !.row = add(@, n)]
        ELSE IF ~e.intact \/ e.row = <<>> THEN [r EXCEPT !.intact = FALSE]
        ELSE [EraseCells(e, Lesser(r.size, e.row[1].base - r.base), e.row[1].base) EXCEPT !.row = add(@, n - Cols)]
Found(r, i) == [r |-> r, i |-> i]
RowGroup(r, seq) ==
    LET n == (seq - r.row[1].base) \div Cols + 1
    IN  IF seq < r.row[1].base THEN Found(r, 0)
        ELSE IF n <= Len(r.row) THEN Found(r, n)
        ELSE LET x == ExtendRows(r, n) IN Found(x, IF n <= 3 * Cols + 1 THEN n ELSE n - Cols)

\* RcvGetColumnGroupIndex, and ExtendColumns.
AddColumns(r, series) ==
    LET old == Len(r.col) \div Cols
    IN  [r EXCEPT !.col = @ \o FlattenSeq([k \in 1 .. series + 1 - old |->
                                              ConfigureColumns(r.col[1].base + (old + k - 1) * Matrix)])]
\* (The rows are made again, all but the first with the same base.)
RowsMade(r, newbase) ==
    [i \in 1 .. (Len(r.col) \div Cols + 1) * Rows |-> RowAt(IF i = 1 THEN newbase ELSE newbase + Cols)]
ShrinkColumns(r) ==
    LET c == EraseFront(EraseFront(r, "col", Cols), "row", Rows)
        newbase == c.col[1].base
        x == IF c.row[1].base = newbase THEN c ELSE [c EXCEPT !.row = RowsMade(c, newbase)]
    IN  IF ~c.intact \/ c.col = <<>> \/ c.row = <<>> THEN [r EXCEPT !.intact = FALSE]
        ELSE EraseCells(x, newbase - r.base, newbase)
ColumnGroup(r, seq) ==
    LET col == (seq - r.col[1].base) % Cols
        coloff == seq - r.col[col + 1].base
        series == coloff \div Matrix
        n == col + series * Cols
    IN  IF seq < r.col[1].base \/ coloff < 0 \/ n > 2 * Matrix THEN Found(r, 0)
        ELSE IF n < Len(r.col) THEN Found(r, n + 1)
        ELSE IF n <= 2 * Cols THEN Found(AddColumns(r, series), n + 1)
        ELSE LET x == ShrinkColumns(r)
             IN  IF x.intact THEN Found(AddColumns(x, series - 1), n - Cols + 1) ELSE Found(x, 1)

Group(r, kind, seq) == IF kind = "row" THEN RowGroup(r, seq) ELSE ColumnGroup(r, seq)
Cross(kind) == IF kind = "row" THEN "col" ELSE "row"

Ripe(g, kind) == g.fec /\ g.collected = Size(kind) - 1

\* RcvRebuild, from the first cell of the group that is not marked (CellAt makes cells
\* up to there).  With rows only, the packet is made and its cell is not marked; else it
\* may complete a group of the other kind.
RECURSIVE RcvRebuild(_, _, _)
RebuildIfRipe(r, kind, i) == IF Ripe(r[kind][i], kind) THEN RcvRebuild(r, kind, i) ELSE r
ClipCrossing(found, kind, clip) ==
    IF ~found.r.intact \/ found.i = 0 \/ found.r[kind][found.i].collected > Size(kind) - 1 THEN found.r
    ELSE RebuildIfRipe([found.r EXCEPT ![kind][found.i] = ClipPacket(@, clip)], kind, found.i)
RcvRebuild(r, kind, i) ==
    LET g == r[kind][i]
        missing == {seq \in Members(g, kind) : ~Known(r, seq)}
        seqno == CHOOSE seq \in missing : \A other \in missing : seq <= other
        made == [r EXCEPT !.made = Append(@, [seq |-> seqno, clip |-> g.clip])]
    IN  IF g.base < r.base \/ missing = {} THEN r
        ELSE IF Rows = 1 THEN [made EXCEPT !.size = Grown(r, seqno)]
        ELSE ClipCrossing(Group(MarkCellReceived(made, seqno), Cross(kind), seqno), Cross(kind), g.clip)

\* HangHorizontal and HangVertical, up to the losses.
Hung(r, kind, i, p) ==
    RebuildIfRipe([r EXCEPT ![kind][i] = IF p.data THEN ClipPacket(@, p.clip)
                                         ELSE IF @.fec THEN @ ELSE [ClipData(@, p.clip) EXCEPT !.fec = TRUE]],
                  kind, i)

\* CollectIrrecoverRow: each run of cells that are not marked, and the cell after it
\* unless that is in the next row.
RowLosses(r, g) ==
    IF g.dismissed \/ g.base < r.base \/ g.base - r.base + Cols > r.size THEN {}
    ELSE {seq \in Members(g, "row") : ~Known(r, seq) \/ (seq > g.base /\ ~Known(r, seq - 1))}

\* With rows only, the rows before the last three are looked at and go; of three, the
\* first goes as soon as a packet is in the second third of the second.
PastRows(r, seq) ==
    LET past == Len(r.row) - 3
    IN  IF past > 0 THEN past ELSE IF seq - r.row[2].base <= Cols \div 3 THEN past ELSE past + 1
DismissRows(r, seq) ==
    LET n == PastRows(r, seq)
        e == [r EXCEPT !.losses = UNION {RowLosses(r, r.row[i]) : i \in 1 .. n}, !.row = From(@, n)]
    IN  IF Rows > 1 \/ Len(r.row) < 2 \/ n <= 0 THEN r
        ELSE EraseCells(e, Lesser(n * Cols, r.size), e.row[1].base)

\* Variant of the next definition: the whole column if any is missing.
ColumnOfLosses(r, g) == IF \E seq \in Members(g, "col") : ~Known(r, seq) THEN Members(g, "col") ELSE {}

\* RcvCheckDismissColumn.  Cells past the end count as received.
ColumnLosses(r, g) == {seq \in Members(g, "col") : seq >= r.base /\ seq - r.base < r.size /\ ~Known(r, seq)}

DismissMatrix(r, seq) ==
    LET newbase == r.col[Cols + 1].base
        c == [r EXCEPT !.col = From(@, Cols)]
        rows == IF r.row[Rows + 1].base = newbase THEN [c EXCEPT !.row = From(@, Rows)]
                                                  ELSE [c EXCEPT !.row = <<RowAt(newbase)>>]
    IN  IF seq - r.col[1].base < (IF Staircase THEN 2 ELSE 1) * Matrix \/ Len(r.row) < Rows THEN r
        ELSE IF Len(r.row) = Rows THEN [r EXCEPT !.intact = FALSE]
        ELSE IF newbase < r.base THEN [rows EXCEPT !.cells = {}, !.size = 0, !.base = newbase]
        ELSE EraseCells(rows, newbase - r.base, newbase)

\* Variant of the next definition: a row too late.
PastMatrix(g, seq) == ~g.dismissed /\ seq - g.base >= Matrix

PastColumn(g, seq) == ~g.dismissed /\ seq - g.base >= (Rows - 1) * Cols

DismissColumns(r, i, seq) ==
    LET past == {k \in 1 .. Cols : PastColumn(r.col[k], seq)}
        d == [r EXCEPT !.losses = UNION {ColumnLosses(r, r.col[k]) : k \in past},
                       !.col = [k \in DOMAIN @ |-> IF k \in past THEN [@[k] EXCEPT !.dismissed = TRUE] ELSE @[k]]]
    IN  IF i <= Cols THEN r ELSE DismissMatrix(d, seq)

Dismissed(h, kind, i, seq) ==
    IF ~h.intact THEN h ELSE IF kind = "row" THEN DismissRows(h, seq) ELSE DismissColumns(h, i, seq)
HangAt(found, kind, p) ==
    IF ~found.r.intact \/ found.i = 0 THEN found.r
    ELSE Dismissed(Hung(found.r, kind, found.i, p), kind, found.i, p.seq)
Hang(r, kind, p) == IF r.intact THEN HangAt(Group(r, kind, p.seq), kind, p) ELSE r

\* FECFilterBuiltin::receive.  A data packet that is known or past goes no further.
Along(r, p) == IF p.data \/ p.index = RowKind THEN Hang(r, "row", p) ELSE r
Across(r, p) == IF Rows > 1 /\ (p.data \/ p.index # RowKind) THEN Hang(r, "col", p) ELSE r
HungWhereItBelongs(r, p) ==
    IF p.data /\ (p.seq < r.base \/ Known(r, p.seq)) THEN r
    ELSE Across(Along(IF p.data THEN MarkCellReceived(r, p.seq) ELSE r, p), p)
Received(p) == HungWhereItBelongs(CheckLargeDrop(rcv @@ [made |-> <<>>, losses |-> {}], p.seq), p)

\* PacketFilter::receive: the packet, if it has data, and those that were rebuilt go to
\* the buffer; the losses are reported.
Receive(p, r) ==
    /\ rcv' = [f \in DOMAIN rcv |-> r[f]]
    /\ got' = got \union (IF p.data THEN {p.seq} ELSE {}) \union {r.made[i].seq : i \in DOMAIN r.made}
    /\ rebuilt' = rebuilt \union Range(r.made)
    /\ reported' = reported \union r.losses

Deliver ==
    /\ rcv.intact
    /\ \E i \in 1 .. Lesser(MaxBehind + 1, Len(net)) : Receive(net[i], Received(net[i])) /\ net' = RemoveAt(net, i)
    /\ UNCHANGED <<snd, last, lost, resent>>
Lose ==
    /\ lost < MaxLoss /\ lost' = lost + 1
    /\ net # <<>> /\ net' = Tail(net)
    /\ UNCHANGED <<snd, last, rcv, got, rebuilt, reported, resent>>

Next == SendColumn \/ SendRow \/ SendData \/ SendAgain \/ Deliver \/ Lose

Spec == Init /\ [][Next]_vars

-----------------------------------------------------------------------------
(* Properties.                                                             *)

\* A packet that the filter makes is the packet that was lost: the clip that is left of
\* its group has that packet and no other.
RebuiltIsOriginal == \A p \in rebuilt : p.clip = {p.seq}

\* The receiver reads and erases only what its queues have.
WithinQueues == rcv.intact

\* "in loss_seqs we return those that are not recoverable at the current level": no
\* packet that has come, or has been rebuilt, is asked for.
OnlyLostReported == [][\A seq \in reported' \ reported : seq \notin got']_vars

\* A group that misses one packet and has its control packet has made that packet.
NoneRecoverable ==
    \A kind \in {"row", "col"} : \A i \in DOMAIN rcv[kind] :
        LET g == rcv[kind][i]
        IN  rcv.intact /\ g.fec => Cardinality(Members(g, kind) \ got) # 1

\* A packet before the receiver's cells has come, was rebuilt, or was reported: nothing
\* is forgotten, and nothing is erased that is not there.
Accounted == WithinQueues /\ \A seq \in 1 .. rcv.base - 1 : seq \in got \union reported
=============================================================================
