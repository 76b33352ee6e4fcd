----------------------------- MODULE LiveRange -----------------------------
(***************************************************************************)
(* The live ranges of one virtual register (src/src/codegen/ra_range.c):   *)
(* built by build_live_ranges of ra_allocator.c, which walks the blocks    *)
(* and their instructions backwards, and then cut into siblings while the  *)
(* linear scan moves forwards.                                             *)
(*                                                                         *)
(* Positions are the lifetime positions of number_instructions: even, two  *)
(* per instruction; a block is its entry, its instructions and its goto.   *)
(* A list is a sequence.  An interval keeps the number of the malloc that  *)
(* made it, so that last_use_interval and first_pending_use are pointers   *)
(* that can go stale; a use is known by its position and its slot, a slot  *)
(* by its instruction and its index there.                                 *)
(* The beneficial and hinted fingers are left out: nothing reads them      *)
(* after a split.  alloc_any_register tests a word of the register's       *)
(* buffer where alloc_free_register tests blocked_registers                *)
(* (ra_allocator.c:998), so that as built it passes over every register    *)
(* and only spills; the actions follow it for a test of either outcome.    *)
(***************************************************************************)
EXTENDS Integers, Sequences, FiniteSets

CONSTANTS NBlocks,        \* blocks, in the order of their positions
          BlockLength,    \* positions of a block: 2 * (instructions + 2); the graph
                          \* entry, block 0, is one instruction
          MaxPhis,        \* bound on the phis of a successor fed by the register
          MaxSplits,      \* bound on the splits that are followed
          MaxUses         \* bound on the uses of a range whose splits are followed

ASSUME SizeAssumption == /\ NBlocks \in Nat \ {0}
                         /\ BlockLength \in Nat /\ BlockLength % 2 = 0 /\ BlockLength > 4
ASSUME PhisAssumption == MaxPhis \in Nat

BlockStart(b) == IF b = 0 THEN 0 ELSE 2 + (b - 1) * BlockLength
BlockEnd(b) == BlockStart(b + 1)
Limit == BlockStart(NBlocks)
Positions == 0 .. Limit - 1

Null == 0                  \* a NULL interval pointer
NoUse == [pos |-> -1, slot |-> <<0, 0>>, reg |-> FALSE]

VARIABLES phase,      \* "enter" a block, "build", "alloc"; "stuck" in add_use
          block,      \* the block build_live_ranges is in
          pos,        \* the lifetime position of the current instruction
          todo,       \* the inputs of that instruction still to be processed
          ranges,     \* the range and its siblings along next_sibling
          queue,      \* starts of the siblings in `unallocated`
          active,     \* starts of the siblings that hold a register
          now,        \* the start the linear scan has reached
          wanted,     \* history: the positions the builder asked to cover
          given       \* history: the uses the builder added

vars == <<phase, block, pos, todo, ranges, queue, active, now, wanted, given>>

EmptyRange == [intervals |-> <<>>, last |-> Null, uses |-> <<>>,
               pending |-> Null, register |-> NoUse]

StartOf(r) == r.intervals[1].start
Interval(r, node) == CHOOSE i \in 1 .. Len(r.intervals) : r.intervals[i].node = node
EndOf(r) == r.intervals[Interval(r, r.last)].end
CanCover(r, p) == StartOf(r) <= p /\ p < EndOf(r)
Contains(r, p) == /\ r.intervals # <<>> /\ CanCover(r, p)
                  /\ \E i \in 1 .. Len(r.intervals) :
                       r.intervals[i].start <= p /\ p < r.intervals[i].end

Init == /\ phase = "enter" /\ block = NBlocks - 1 /\ pos = Limit
        /\ todo = <<>>
        /\ ranges = <<EmptyRange>>
        /\ queue = {} /\ active = {} /\ now = 0
        /\ wanted = {} /\ given = {}

-----------------------------------------------------------------------------
(* Plausible slips in the code below, each used to test a property.        *)
DefineOneLate(r, p) ==
  IF r.intervals = <<>>
  THEN [r EXCEPT !.intervals = <<[node |-> 1, start |-> p, end |-> p + 1]>>, !.last = 1]
  ELSE [r EXCEPT !.intervals[1].start = p + 1]
InputKindsOfCalls == {<<>>, <<"fixed">>, <<"any">>, <<"fixed", "any", "any">>}
KeptIntervalsWhole(r, c, p) == SubSeq(r.intervals, 1, IF r.intervals[c].start < p THEN c ELSE c - 1)
KeptUsesAll(r, c, p) == Len(r.uses)
UpdatedBackwards(register, moved) ==
  IF moved # <<>> /\ register # NoUse /\ register.pos < moved[1].pos THEN NoUse ELSE register
LinkedLast(rs, k, self, sibling) == [rs EXCEPT ![k] = self] \o <<sibling>>
-----------------------------------------------------------------------------

(* live_range_add_interval: the builder comes from behind, so an interval  *)
(* that starts later than the first one is taken to be covered already.    *)
AddInterval(r, s, e) ==
  LET first == r.intervals[1]
      rest  == Tail(r.intervals)
      node  == Len(r.intervals) + 1
  IN  CASE r.intervals # <<>> /\ s > first.start -> r
        [] r.intervals # <<>> /\ s = first.start ->
             [r EXCEPT !.intervals = <<[first EXCEPT !.end = IF e > @ THEN e ELSE @]>> \o rest]
        [] r.intervals # <<>> /\ s < first.start /\ e = first.start ->
             [r EXCEPT !.intervals = <<[first EXCEPT !.start = s]>> \o rest]
        [] OTHER ->
             [r EXCEPT !.intervals = <<[node |-> node, start |-> s, end |-> e]>> \o @,
                       !.last = IF @ = Null THEN node ELSE @]

(* live_range_define.                                                      *)
Define(r, p) ==
  IF r.intervals = <<>> THEN AddInterval(r, p, p + 1)
  ELSE [r EXCEPT !.intervals[1].start = p]

(* live_range_add_use: Before(r, p) uses lie in front of position p.       *)
Before(r, p) == Cardinality({i \in 1 .. Len(r.uses) : r.uses[i].pos < p})

(* The loop of lines 96-100 never moves on: once behind the head, a use at *)
(* the same position with another slot is compared for ever.               *)
Hangs(r, use) == LET n == Before(r, use.pos)
                 IN  /\ 0 < n /\ n < Len(r.uses)
                     /\ r.uses[n + 1].pos = use.pos /\ r.uses[n + 1].slot # use.slot

AddUse(r, use) ==
  LET n == Before(r, use.pos)
  IN  IF n < Len(r.uses) /\ r.uses[n + 1].pos = use.pos /\ r.uses[n + 1].slot = use.slot
      THEN r
      ELSE [r EXCEPT !.uses = SubSeq(@, 1, n) \o <<use>> \o SubSeq(@, n + 1, Len(@))]

(* The inputs an instruction of the compiler can read one register by: a   *)
(* return wants it in RAX, a binary operation anywhere (once or twice), an *)
(* unbox in a register.                                                    *)
InputKinds == {<<>>, <<"fixed">>, <<"any">>, <<"any", "any">>, <<"register">>}

(* process_one_input, and connect_outgoing_phi_moves for one phi: where    *)
(* the value has to live up to, which is also where it is used.            *)
LastPosition(kind) == CASE kind = "phi" -> pos
                        [] kind = "fixed" -> pos - 1
                        [] OTHER -> pos + 1

UseOf(kind) == [pos |-> LastPosition(kind), slot |-> <<pos, Len(todo)>>, reg |-> (kind = "register")]

-----------------------------------------------------------------------------
(* build_live_ranges: the register is live out of the block or not.        *)
EnterBlock ==
  /\ phase = "enter" /\ block > 0
  /\ \E liveOut \in BOOLEAN :
       IF liveOut
       THEN /\ ranges' = <<AddInterval(ranges[1], BlockStart(block), BlockEnd(block))>>
            /\ wanted' = wanted \cup BlockStart(block) .. BlockEnd(block) - 1
       ELSE UNCHANGED <<ranges, wanted>>
  /\ \E phis \in 0 .. MaxPhis : todo' = [i \in 1 .. phis |-> "phi"]
  /\ pos' = BlockEnd(block) - 2
  /\ phase' = "build"
  /\ UNCHANGED <<block, queue, active, now, given>>

ProcessInput ==
  /\ phase = "build" /\ todo # <<>>
  /\ LET use  == UseOf(Head(todo))
         end  == LastPosition(Head(todo))
         live == AddInterval(ranges[1], BlockStart(block), end)
     IN  /\ ranges' = <<IF Hangs(live, use) THEN live ELSE AddUse(live, use)>>
         /\ phase' = IF Hangs(live, use) THEN "stuck" ELSE phase
         /\ wanted' = wanted \cup BlockStart(block) .. end - 1
         /\ given' = given \cup {use}
  /\ todo' = Tail(todo)
  /\ UNCHANGED <<block, pos, queue, active, now>>

PreviousInstruction ==
  /\ phase = "build" /\ todo = <<>> /\ pos - 2 > BlockStart(block)
  /\ pos' = pos - 2
  /\ todo' \in InputKinds
  /\ UNCHANGED <<phase, block, ranges, queue, active, now, wanted, given>>

AtBlockEntry == phase = "build" /\ todo = <<>> /\ pos - 2 = BlockStart(block)

PreviousBlock ==
  /\ AtBlockEntry
  /\ block' = block - 1
  /\ phase' = "enter"
  /\ UNCHANGED <<pos, todo, ranges, queue, active, now, wanted, given>>

(* alloc_finger_initialize, from add_to_sorted_list.                       *)
Scheduled(r) == [r EXCEPT !.pending = IF r.intervals = <<>> THEN Null ELSE r.intervals[1].node,
                          !.register = IF r.uses = <<>> THEN NoUse ELSE r.uses[1]]

(* The definition ends the walk for this register: a phi of this block     *)
(* (connect_incoming_phi_moves, with its move in each of two predecessors) *)
(* or an initial definition of the graph entry, block 0, which the walk    *)
(* itself leaves out.  A register that is live where a phi defines it is   *)
(* live from the start of that block.                                      *)
DefineByPhi ==
  /\ AtBlockEntry
  /\ LET s == BlockStart(block)
         move(i) == [pos |-> s, slot |-> <<s, i>>, reg |-> FALSE]
         defined == Define(ranges[1], s)
     IN  /\ ranges[1].intervals # <<>> => StartOf(ranges[1]) = s
         /\ ranges' = <<Scheduled(AddUse(AddUse(defined, move(1)), move(2)))>>
         /\ given' = given \cup {move(1), move(2)}
         /\ wanted' = wanted \cup {s}
         /\ queue' = {s}
  /\ phase' = "alloc"
  /\ UNCHANGED <<block, pos, todo, active, now>>

DefineInitially ==
  /\ phase = "enter" /\ block = 0
  /\ ranges' = <<Scheduled(Define(AddInterval(ranges[1], 0, BlockEnd(0)), 0))>>
  /\ wanted' = wanted \cup 0 .. BlockEnd(0) - 1
  /\ queue' = {0}
  /\ phase' = "alloc"
  /\ UNCHANGED <<block, pos, todo, active, now, given>>

-----------------------------------------------------------------------------
(* Where a finger leads: the rest of the list that holds its node now,     *)
(* which need not be the list of the finger's own range.                   *)
From(lists, at(_)) ==
  LET l == CHOOSE l \in lists : \E i \in 1 .. Len(l) : at(l[i])
      i == CHOOSE i \in 1 .. Len(l) : at(l[i])
  IN  SubSeq(l, i, Len(l))

IntervalsFrom(rs, node) ==
  From({rs[k].intervals : k \in 1 .. Len(rs)}, LAMBDA iv : iv.node = node)
UsesFrom(rs, use) ==
  From({rs[k].uses : k \in 1 .. Len(rs)}, LAMBDA u : u = use)

First(l, test(_), none) ==
  LET hits == {i \in 1 .. Len(l) : test(l[i])}
  IN  IF hits = {} THEN none ELSE l[CHOOSE i \in hits : \A j \in hits : i <= j]

(* alloc_finger_advance, for the siblings that hold a register; those      *)
(* whose finger runs off its list give the register back.                  *)
Pending(rs, r, t) ==
  IF r.pending = Null THEN Null
  ELSE First(IntervalsFrom(rs, r.pending), LAMBDA iv : iv.end > t, [node |-> Null]).node

Advanced(t) ==
  [k \in 1 .. Len(ranges) |->
     IF StartOf(ranges[k]) \in active
     THEN [ranges[k] EXCEPT !.pending = Pending(ranges, ranges[k], t)]
     ELSE ranges[k]]

StillActive(rs) == {StartOf(rs[k]) : k \in {k \in 1 .. Len(rs) : /\ StartOf(rs[k]) \in active
                                                               /\ rs[k].pending # Null}}

(* alloc_finger_first_register: the first use from `after` on that asks    *)
(* for a register, starting at the finger.                                 *)
FirstRegister(rs, r, after) ==
  IF r.register = NoUse THEN NoUse
  ELSE First(UsesFrom(rs, r.register), LAMBDA u : u.pos >= after /\ u.reg, NoUse)

(* ... from an instruction's end the search starts at the next one.        *)
FirstInterfering(rs, r, after) == FirstRegister(rs, r, after + (after % 2))

-----------------------------------------------------------------------------
(* live_range_split, cutting rs[k] at p: the interval to cut is searched   *)
(* from the finger, or from the head when the finger is already past p.    *)
CutAt(rs, r, p) ==
  LET from == IF r.pending = Null THEN r.intervals[1].node ELSE r.pending
      head == IF p <= IntervalsFrom(rs, from)[1].start THEN r.intervals[1].node ELSE from
      node == First(IntervalsFrom(rs, head), LAMBDA iv : iv.end > p, [node |-> Null]).node
  IN  Interval(r, node)

(* What stays of the intervals when interval c is cut at p, and what goes; *)
(* a cut inside an interval makes a new one for its second half.           *)
KeptIntervals(r, c, p) ==
  SubSeq(r.intervals, 1, c - 1)
    \o IF r.intervals[c].start < p THEN <<[r.intervals[c] EXCEPT !.end = p]>> ELSE <<>>
MovedIntervals(r, c, p, fresh) ==
  (IF r.intervals[c].start < p
   THEN <<[node |-> fresh, start |-> p, end |-> r.intervals[c].end]>>
   ELSE <<r.intervals[c]>>) \o SubSeq(r.intervals, c + 1, Len(r.intervals))

(* split_lists: how many uses stay.  A use at p stays when p is inside an  *)
(* interval.                                                               *)
KeptUses(r, c, p) == Before(r, IF r.intervals[c].start = p THEN p ELSE p + 1)

(* alloc_finger_update, with the uses that left the range.                 *)
Updated(register, moved) ==
  IF moved # <<>> /\ register # NoUse /\ register.pos >= moved[1].pos THEN NoUse ELSE register

(* The new sibling follows the range that was cut.                         *)
Linked(rs, k, self, sibling) ==
  SubSeq(rs, 1, k - 1) \o <<self, sibling>> \o SubSeq(rs, k + 1, Len(rs))

(* A finger that was still NULL is initialised first.  The new sibling's   *)
(* finger stays as malloc left it: NULL in fresh memory; with anything     *)
(* else a split of the sibling before it is scheduled ends the program.    *)
Nodes(rs) == UNION {{rs[j].intervals[i].node : i \in 1 .. Len(rs[j].intervals)} : j \in 1 .. Len(rs)}

SplitAt(rs, k, p) ==
  LET r     == IF rs[k].pending = Null THEN Scheduled(rs[k]) ELSE rs[k]
      c     == CutAt(rs, r, p)
      kept  == KeptIntervals(r, c, p)
      moved == MovedIntervals(r, c, p, 1 + Cardinality(Nodes(rs)))
      last  == kept[Len(kept)].node
      n     == KeptUses(r, c, p)
      moving == SubSeq(r.uses, n + 1, Len(r.uses))
  IN  Linked(rs, k,
        [r EXCEPT !.intervals = kept, !.last = last, !.uses = SubSeq(@, 1, n),
                  !.register = Updated(@, moving)],
        [intervals |-> moved, uses |-> moving, pending |-> Null, register |-> NoUse,
         last |-> IF last = r.last THEN moved[1].node ELSE r.last])

ScheduledAt(rs, k) == [rs EXCEPT ![k] = Scheduled(rs[k])]

-----------------------------------------------------------------------------
(* alloc_unallocated_ranges takes the range that starts first.  s is its   *)
(* start, k its place among the siblings.                                  *)
Takes(s, k) == /\ phase = "alloc" /\ s \in queue /\ \A q \in queue : s <= q
               /\ StartOf(ranges[k]) = s
               /\ now' = s

MaySplit == Len(ranges) <= MaxSplits /\ Cardinality(given) <= MaxUses
Inside(r) == StartOf(r) + 1 .. EndOf(r) - 1

(* A look up that finds a use leaves the register finger on it.            *)
FingerOn(rs, k, use) == IF use = NoUse THEN rs ELSE [rs EXCEPT ![k].register = use]

(* alloc_any_register asks for the range's own first use in a register; a  *)
(* range that has none is spilled.                                         *)
OwnUse(rs, k, s) == FirstRegister(rs, rs[k], s)
LookedUp(rs, k, s) == FingerOn(rs, k, OwnUse(rs, k, s))

(* alloc_free_register finds a register for all of the range, or           *)
(* alloc_any_register evicts others from one, or spill gives it a slot.    *)
AllocateWhole ==
  \E s \in queue, k \in 1 .. Len(ranges) :
    LET rs == Advanced(s)
    IN  /\ Takes(s, k)
        /\ \/ /\ ranges' \in {rs, LookedUp(rs, k, s)}
              /\ active' = StillActive(ranges') \cup {s}
           \/ /\ OwnUse(rs, k, s) = NoUse
              /\ ranges' = rs
              /\ active' = StillActive(ranges')
        /\ queue' = queue \ {s}
        /\ UNCHANGED <<phase, block, pos, todo, wanted, given>>

(* alloc_free_register, or alloc_any_register by split_between, finds one  *)
(* for the first part only, or the part before the use is spilled          *)
(* (spill_between): the rest waits.                                        *)
AllocateHead ==
  \E s \in queue, k \in 1 .. Len(ranges) :
    LET free == Advanced(s)
        looked == LookedUp(free, k, s)
        use == OwnUse(free, k, s)
    IN  /\ Takes(s, k) /\ MaySplit
        /\ \E rs \in {free, looked}, p \in Inside(ranges[k]) :
             LET cut == ScheduledAt(SplitAt(rs, k, p), k + 1)
             IN  /\ ranges' = cut
                 /\ queue' = (queue \ {s}) \cup {StartOf(cut[k + 1])}
                 /\ \/ active' = StillActive(cut) \cup {s}
                    \/ rs = looked /\ use # NoUse /\ p < use.pos /\ active' = StillActive(cut)
        /\ UNCHANGED <<phase, block, pos, todo, wanted, given>>

(* The ranges of other registers move the scan on to t, or start with ours *)
(* ...                                                                     *)
ScanReaches(t) == /\ phase = "alloc" /\ now <= t /\ \A q \in queue : t <= q
                  /\ now' = t

Probed(rs, k, t) == FingerOn(rs, k, FirstInterfering(rs, rs[k], t))

(* The first pending interval of the range is under way at t.              *)
Interferes(rs, k, t) ==
  LET interval == IntervalsFrom(rs, rs[k].pending)[1]
  IN  interval.start <= t /\ t < interval.end

(* Its next use in a register is that of the instruction at t, or of the   *)
(* one behind it: update_free_until gives the register up.                 *)
NeedsItNow(rs, k, t, use) == Interferes(rs, k, t) /\ (use.pos - (use.pos % 2)) - t <= 1

(* ... looking or not, on the way to another register, how far ours is     *)
(* free (update_free_until, which leaves the finger of a range moved that  *)
(* keeps its register).  No more than one sibling is under way at t.       *)
OtherRange ==
  \E t \in Positions :
    LET rs == Advanced(t)
        underWay == {k \in 1 .. Len(rs) : StartOf(rs[k]) \in StillActive(rs) /\ Interferes(rs, k, t)}
    IN  /\ ScanReaches(t) /\ active # {}
        /\ ranges' \in {rs} \cup {Probed(rs, k, t) : k \in underWay}
        /\ active' = StillActive(ranges')
        /\ UNCHANGED <<phase, block, pos, todo, queue, wanted, given>>

(* ... and may evict ours from t on.  evict looks for a use that needs the *)
(* register back; without one the rest of the range is spilled             *)
(* (spill_after) ...                                                       *)
EvictForGood ==
  \E t \in Positions, k \in 1 .. Len(ranges) :
    LET rs == Advanced(t)
    IN  /\ ScanReaches(t) /\ MaySplit
        /\ StartOf(ranges[k]) \in StillActive(rs) /\ t \in Inside(ranges[k])
        /\ FirstInterfering(rs, rs[k], t) = NoUse
        /\ ranges' = SplitAt(rs, k, t)
        /\ active' = StillActive(rs) \ {StartOf(rs[k])}
        /\ UNCHANGED <<phase, block, pos, todo, queue, wanted, given>>

(* ... and with one only the part up to it is (spill_between).             *)
EvictUntilUse ==
  \E t \in Positions, k \in 1 .. Len(ranges) :
    LET rs == Advanced(t)
        use == FirstInterfering(rs, rs[k], t)
        tail == SplitAt(Probed(rs, k, t), k, t)
    IN  /\ ScanReaches(t) /\ MaySplit /\ Len(ranges) < MaxSplits
        /\ StartOf(ranges[k]) \in StillActive(rs) /\ t \in Inside(ranges[k])
        /\ use # NoUse
        /\ ~ NeedsItNow(rs, k, t, use)
        /\ \/ \E p \in Inside(tail[k + 1]) :
                LET cut == ScheduledAt(SplitAt(tail, k + 1, p), k + 2)
                IN  /\ p < use.pos
                    /\ ranges' = cut
                    /\ queue' = queue \cup {StartOf(cut[k + 2])}
           \/ /\ t < StartOf(tail[k + 1])
              /\ ranges' = ScheduledAt(tail, k + 1)
              /\ queue' = queue \cup {StartOf(tail[k + 1])}
        /\ active' = StillActive(rs) \ {StartOf(rs[k])}
        /\ UNCHANGED <<phase, block, pos, todo, wanted, given>>

Next == \/ EnterBlock \/ ProcessInput \/ PreviousInstruction \/ PreviousBlock
        \/ DefineByPhi \/ DefineInitially
        \/ AllocateWhole \/ AllocateHead \/ OtherRange \/ EvictForGood \/ EvictUntilUse

Spec == Init /\ [][Next]_vars

-----------------------------------------------------------------------------
UsesOf(r) == {r.uses[i] : i \in 1 .. Len(r.uses)}
Covered(r) == UNION {r.intervals[i].start .. r.intervals[i].end - 1 : i \in 1 .. Len(r.intervals)}

IntervalType == [node : Nat, start : Positions, end : 1 .. Limit]
UseType == [pos : -1 .. Limit, slot : (0 .. Limit) \X Nat, reg : BOOLEAN]
RangeType == [intervals : Seq(IntervalType), last : Nat, uses : Seq(UseType),
              pending : Nat, register : UseType]

(* Every variable keeps its type.                                          *)
TypeOK ==
  /\ phase \in {"enter", "build", "alloc", "stuck"}
  /\ block \in 0 .. NBlocks - 1 /\ pos \in 0 .. Limit
  /\ todo \in Seq({"phi", "fixed", "any", "register"})
  /\ ranges \in Seq(RangeType) \ {<<>>}
  /\ queue \subseteq Positions /\ active \subseteq Positions /\ now \in Positions
  /\ wanted \subseteq Positions /\ given \subseteq UseType

(* add_use returns: no instruction of this compiler adds a use behind the  *)
(* head of the list at a position that already has another slot, although  *)
(* the loop of ra_range.c:96-100 would then run for ever.                  *)
AddUseReturns == phase # "stuck"

(* Intervals of one range are non-empty, ascending and apart, and          *)
(* last_use_interval is the end of the list, also after a cut inside the   *)
(* last interval (ra_range.c:195-208).                                     *)
Ascending(l) == /\ \A i \in 1 .. Len(l) : l[i].start < l[i].end
                /\ \A i, j \in 1 .. Len(l) : i < j => l[i].end <= l[j].start
IntervalsApart ==
  \A k \in 1 .. Len(ranges) :
    LET l == ranges[k].intervals
    IN  /\ Ascending(l)
        /\ ranges[k].last = IF l = <<>> THEN Null ELSE l[Len(l)].node

(* An interval is in one list, at one place: a pointer to it leads to it.  *)
OwnNodes(rs) ==
  /\ Nodes(rs) = 1 .. Cardinality(Nodes(rs))
  /\ \A k, l \in 1 .. Len(rs) :
       \A i \in 1 .. Len(rs[k].intervals), j \in 1 .. Len(rs[l].intervals) :
         rs[k].intervals[i].node = rs[l].intervals[j].node => k = l /\ i = j

(* The uses of a range are in order, none is there twice, and each lies in *)
(* an interval or at its end.                                              *)
InOrder(uses) == \A i, j \in 1 .. Len(uses) : i < j => uses[i].pos <= uses[j].pos /\ uses[i] # uses[j]
Reaches(l, p) == \E i \in 1 .. Len(l) : l[i].start <= p /\ p <= l[i].end
UsesReached == \A k \in 1 .. Len(ranges) :
                 /\ InOrder(ranges[k].uses)
                 /\ \A u \in UsesOf(ranges[k]) : Reaches(ranges[k].intervals, u.pos)

(* While a range is built, what it has lies behind what is still to come:  *)
(* the first interval may be that of the current block, every other is     *)
(* behind the block, and no use is in front of one still to be added.      *)
BehindTheWalk ==
  phase \in {"enter", "build"} =>
    LET l == ranges[1].intervals
        end == BlockEnd(block)
    IN  /\ Len(ranges) = 1 /\ queue = {} /\ active = {} /\ now = 0
        /\ \A i \in 1 .. Len(l) :
             /\ l[i].node = Len(l) + 1 - i
             /\ \/ l[i].start >= end
                \/ phase = "build" /\ i = 1 /\ l[i].start = BlockStart(block)
        /\ phase = "enter" => \A u \in UsesOf(ranges[1]) : u.pos >= end /\ u.slot[1] >= end
        /\ phase = "build" =>
             /\ block > 0
             /\ pos % 2 = 0 /\ BlockStart(block) + 2 <= pos /\ pos <= end - 2
             /\ todo \in InputKinds \/ \A i \in 1 .. Len(todo) : todo[i] = "phi"
             /\ \A u \in UsesOf(ranges[1]) :
                  /\ u.pos >= pos - 1
                  /\ \A i \in 1 .. Len(todo) : u.pos >= LastPosition(todo[i])
                  /\ u.slot[1] > pos \/ (u.slot[1] = pos /\ u.slot[2] > Len(todo))

(* The chain of siblings is in the order of their positions, which         *)
(* connect_split_siblings and resolve_control_flow rely on.                *)
InSequence(rs) ==
  /\ \A k \in 1 .. Len(rs) : rs[k].intervals # <<>>
  /\ \A k, l \in 1 .. Len(rs) : k < l => EndOf(rs[k]) <= StartOf(rs[l])
SiblingsInOrder == phase = "alloc" => InSequence(ranges)

(* What holds a register or waits for one is a sibling, and what waits is  *)
(* in front of the scan.                                                   *)
Starts(rs) == {StartOf(rs[k]) : k \in 1 .. Len(rs)}
WaitingIsAhead == phase = "alloc" => /\ active \cup queue \subseteq Starts(ranges)
                                     /\ \A q \in queue : now <= q

(* The fingers of a range that is scheduled never lead into a sibling: the *)
(* pending interval is the range's own first that is not over, and the     *)
(* register finger stands on a use of the range itself, or on none, with   *)
(* nothing before it that a look up from here on could ask for.            *)
Passed(u, t) == u.reg => u.pos < t
Leads(r, t) ==
  \/ r.register = NoUse /\ \A i \in 1 .. Len(r.uses) : Passed(r.uses[i], t)
  \/ \E i \in 1 .. Len(r.uses) :
       r.register = r.uses[i] /\ \A j \in 1 .. i - 1 : Passed(r.uses[j], t)
FingersAreOwn ==
  \A k \in 1 .. Len(ranges) :
    phase = "alloc" /\ StartOf(ranges[k]) \in active \cup queue =>
      /\ ranges[k].pending
          = First(ranges[k].intervals, LAMBDA iv : iv.end > now, [node |-> Null]).node
      /\ Leads(ranges[k], now + (now % 2))

(* What is covered and used is what the builder asked for.                 *)
NothingIsLost ==
  /\ wanted = UNION {Covered(ranges[k]) : k \in 1 .. Len(ranges)}
  /\ given = UNION {UsesOf(ranges[k]) : k \in 1 .. Len(ranges)}

(* The shape every operation on a range may rely on.                       *)
RangeInv == /\ TypeOK /\ IntervalsApart /\ OwnNodes(ranges) /\ UsesReached /\ BehindTheWalk
            /\ AddUseReturns /\ SiblingsInOrder /\ WaitingIsAhead /\ FingersAreOwn /\ NothingIsLost

(* The range and its siblings cover what the builder asked for: early      *)
(* returns of add_interval lose nothing, and no split loses a position or  *)
(* leaves it in two siblings.                                              *)
CoversWanted ==
  \A p \in Positions :
    Cardinality({k \in 1 .. Len(ranges) : Contains(ranges[k], p)}) = IF p \in wanted THEN 1 ELSE 0

(* Each use the builder added is in exactly one sibling, inside the        *)
(* positions that sibling covers (its end included), in order.             *)
UsesStayWithTheirRange ==
  /\ UNION {UsesOf(ranges[k]) : k \in 1 .. Len(ranges)} = given
  /\ \A k, l \in 1 .. Len(ranges) : k # l => UsesOf(ranges[k]) \cap UsesOf(ranges[l]) = {}
  /\ \A k \in 1 .. Len(ranges) :
       /\ \A i \in 1 .. Len(ranges[k].uses) - 1 : ranges[k].uses[i].pos <= ranges[k].uses[i + 1].pos
       /\ \A u \in UsesOf(ranges[k]) : StartOf(ranges[k]) <= u.pos /\ u.pos <= EndOf(ranges[k])

(* For a scheduled range the register finger, left where some look up      *)
(* moved it, by the range itself or by another that wanted its register,   *)
(* and reset by splits, still answers exactly: the first use of the range  *)
(* itself, from where the scan is, that needs a register.                  *)
RegisterFingerExact ==
  \A k \in 1 .. Len(ranges) :
    phase = "alloc" /\ StartOf(ranges[k]) \in active \cup queue =>
      \A after \in now + (now % 2) .. Limit :
        FirstRegister(ranges, ranges[k], after)
          = First(ranges[k].uses, LAMBDA u : u.pos >= after /\ u.reg, NoUse)

(* Building and splitting implement the sharing out of positions that      *)
(* LiveSplit promises.                                                     *)
Pieces == {Covered(ranges[k]) : k \in 1 .. Len(ranges)} \ {{}}
Ownership == INSTANCE LiveSplit WITH pieces <- Pieces
ImplementsLiveSplit == Ownership!AbsSpec
=============================================================================
