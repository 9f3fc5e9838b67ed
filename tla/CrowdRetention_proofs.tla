------------------------- MODULE CrowdRetention_proofs -------------------------
(***************************************************************************)
(* Proofs about the crowd retention job (CrowdRetention): no hour of the   *)
(* history is lost and only rows that were counted are deleted, for any    *)
(* lengths of hours, pages and batches and any interruption.               *)
(*                                                                         *)
(* The first part is arithmetic: paging by OFFSET and LIMIT over an        *)
(* ordered, finite set leaves nobody out.  What it needs of such sets is   *)
(* in FiniteOrders.                                                        *)
(***************************************************************************)
EXTENDS CrowdRetention, FiniteOrders

-----------------------------------------------------------------------------
\* The rank of an hour is its place among the hours.
LEMMA RankIsPlace ==
    ASSUME NEW B, NEW h
    PROVE  Rank(h, B) = Place(h, B)
  BY DEF Rank, Place, Below

LEMMA RankIsNat ==
    ASSUME NEW B, IsFiniteSet(B), NEW h
    PROVE  /\ IsFiniteSet(Below(h, B)) /\ Rank(h, B) \in Nat
           /\ Rank(h, B) = Cardinality(Below(h, B))
  BY PlaceIsNat, RankIsPlace

LEMMA RankGrows ==
    ASSUME NEW B \in SUBSET Nat, IsFiniteSet(B), NEW g \in B, NEW h \in B, g < h
    PROVE  Rank(g, B) < Rank(h, B)
  BY PlacesGrow, RankIsPlace

\* No rank is left out: if some hour comes at or after place o, one is at o.
LEMMA RanksAreDense ==
    ASSUME NEW B \in SUBSET Nat, IsFiniteSet(B), NEW o \in Nat,
           NEW h \in B, Rank(h, B) >= o
    PROVE  \E m \in B : Rank(m, B) = o
  BY PlacesAreDense, RankIsPlace

\* A page that is not full was the last: every hour comes before its end.
LEMMA ShortPageIsLast ==
    ASSUME NEW B \in SUBSET Nat, IsFiniteSet(B), NEW o \in Nat,
           PageSize \in Nat \ {0}, Cardinality(Page(B, o)) < PageSize,
           NEW h \in B
    PROVE  Rank(h, B) < o + PageSize
<1> SUFFICES ASSUME Rank(h, B) >= o + PageSize PROVE FALSE
  BY RankIsNat
<1> DEFINE e == o + PageSize
<1>1. e \in Nat /\ Rank(h, B) \in Nat /\ Rank(h, B) >= o /\ Rank(h, B) >= e
  BY RankIsNat
<1>2. PICK m \in B : Rank(m, B) = o
  BY <1>1, RanksAreDense
<1>3. PICK l \in B : Rank(l, B) = e
  <2> HIDE DEF e
  <2>1. QED
    BY <1>1, RanksAreDense
<1>4. \A g \in B : /\ Rank(g, B) \in Nat
                   /\ Rank(g, B) < e => g < l
                   /\ g < l => Rank(g, B) < e
                   /\ Rank(g, B) < o => g < m
                   /\ g < m => Rank(g, B) < o
  <2>1. SUFFICES ASSUME NEW g \in B
                 PROVE  /\ Rank(g, B) \in Nat
                        /\ Rank(g, B) < e => g < l
                        /\ g < l => Rank(g, B) < e
                        /\ Rank(g, B) < o => g < m
                        /\ g < m => Rank(g, B) < o
    OBVIOUS
  <2>2. Rank(g, B) \in Nat
    BY RankIsNat
  <2>3. g < l => Rank(g, B) < e
    BY <1>3, RankGrows
  <2>4. l < g => e < Rank(g, B)
    BY <1>3, RankGrows
  <2>5. g < m => Rank(g, B) < o
    BY <1>2, RankGrows
  <2>6. m < g => o < Rank(g, B)
    BY <1>2, RankGrows
  <2>7. g \in Nat /\ l \in Nat /\ m \in Nat /\ e \in Nat
    BY <1>1
  <2> HIDE DEF e
  <2>8. QED
    BY <1>2, <1>3, <2>2, <2>3, <2>4, <2>5, <2>6, <2>7
<1>5. Page(B, o) = Below(l, B) \ Below(m, B)
  <2>1. ASSUME NEW g \in B
        PROVE  Rank(g, B) \in o..(o + PageSize - 1) <=> g < l /\ ~(g < m)
    <3>1. Rank(g, B) \in Nat /\ (Rank(g, B) < e <=> g < l) /\ (Rank(g, B) < o <=> g < m)
      BY <1>4
    <3>2. Rank(g, B) \in o..(o + PageSize - 1) <=> Rank(g, B) < e /\ ~(Rank(g, B) < o)
      BY <3>1
    <3>3. QED
      BY <3>1, <3>2
  <2>2. QED
    BY <2>1 DEF Page, Below
<1>6. Below(l, B) \cap Below(m, B) = Below(m, B)
  <2>1. m < l /\ m \in Nat /\ l \in Nat
    BY <1>1, <1>2, <1>4
  <2>2. ASSUME NEW g \in B, g < m PROVE g < l
    <3>1. g \in Nat
      OBVIOUS
    <3>2. QED
      BY <2>1, <2>2, <3>1
  <2>3. QED
    BY <2>2 DEF Below
<1>7. /\ IsFiniteSet(Below(l, B)) /\ Cardinality(Below(l, B)) = e
      /\ Cardinality(Below(m, B)) = o
  <2> HIDE DEF e
  <2>1. QED
    BY <1>2, <1>3, RankIsNat
<1>8. Cardinality(Page(B, o)) = e - o
  BY <1>5, <1>6, <1>7, FS_Difference
<1>9. QED
  BY <1>8

\* An empty page comes after the last.
LEMMA EmptyPageIsLast ==
    ASSUME NEW B \in SUBSET Nat, IsFiniteSet(B), NEW o \in Nat,
           PageSize \in Nat \ {0}, Page(B, o) = {}, NEW h \in B
    PROVE  Rank(h, B) < o
<1> SUFFICES ASSUME Rank(h, B) >= o PROVE FALSE
  BY RankIsNat
<1>1. PICK m \in B : Rank(m, B) = o
  BY RanksAreDense
<1>2. m \in Page(B, o)
  BY <1>1 DEF Page
<1>3. QED
  BY <1>2

-----------------------------------------------------------------------------
LEMMA ConstantTypes ==
    /\ HourLen \in Nat \ {0} /\ RollAfter \in Nat \ {0} /\ RawKeep \in Nat \ {0}
    /\ HourlyKeep \in Nat \ {0} /\ PageSize \in Nat \ {0} /\ BatchSize \in Nat \ {0}
    /\ PassSlots \in Nat /\ Horizon \in Nat
  BY ConstantsAssumption

LEMMA HourIsNat == ASSUME NEW s \in Slot PROVE HourOf(s) \in Nat /\ HourOf(s) \in Hour
<1>1. s \in Nat /\ HourLen \in Nat \ {0}
  BY ConstantTypes DEF Slot
<1>2. s \div HourLen \in Nat
  BY <1>1
<1>3. QED
  BY <1>2 DEF HourOf, Hour

\* Where a pass stands: what it has paged over is in the summaries, it deletes
\* nothing but that, and the safety net finds nothing left to delete.
PassInv ==
    /\ pass.at # "idle" => pass.begun <= now /\ now <= pass.begun + PassSlots
    /\ pass.at \in {"paging", "upserting", "deleting"} => pass.cutoff = pass.begun - RollAfter
    /\ pass.at \in {"paging", "upserting"}
          => \A s \in Older(raw, pass.cutoff) :
                Rank(HourOf(s), Buckets(pass.cutoff)) < pass.offset => s \in hourly[HourOf(s)]
    /\ pass.at = "upserting"
          => /\ pass.page = Page(Buckets(pass.cutoff), pass.offset)
             /\ pass.rows = {s \in Older(raw, pass.cutoff) : HourOf(s) \in pass.page}
    /\ pass.at = "deleting" => \A s \in Older(raw, pass.cutoff) : s \in hourly[HourOf(s)]
    /\ pass.at = "safetyNet" => Older(raw, pass.cutoff) = {} /\ pass.cutoff <= now
    /\ pass.at = "hourly" => pass.cutoff <= now - HourlyKeep

RetentionInv == TypeOK /\ PassInv /\ NoHourLost

PassRecord ==
    [at : Stage, begun : Slot, cutoff : Int, offset : Nat, page : SUBSET Hour, rows : SUBSET Slot]

LEMMA IdleIsPass == Idle \in PassRecord /\ Idle.at = "idle"
<1>1. 0 \in Slot
  BY ConstantTypes DEF Slot
<1>2. QED
  BY <1>1 DEF Idle, PassRecord, Stage

\* The hours of the old rows are finitely many naturals.
LEMMA BucketsAreFinite ==
    ASSUME TypeOK, NEW c \in Int
    PROVE  /\ Buckets(c) \in SUBSET Nat /\ IsFiniteSet(Buckets(c))
           /\ Buckets(c) \in SUBSET Hour
           /\ IsFiniteSet(Older(raw, c)) /\ Older(raw, c) \in SUBSET Slot
<1>1. IsFiniteSet(Slot)
  BY ConstantTypes, FS_Interval DEF Slot
<1>2. Older(raw, c) \in SUBSET Slot
  BY DEF TypeOK, Older
<1>3. IsFiniteSet(Older(raw, c))
  BY <1>1, <1>2, FS_Subset
<1>4. Buckets(c) \in SUBSET Nat /\ Buckets(c) \in SUBSET Hour
  BY <1>2, HourIsNat DEF Buckets
<1>5. IsFiniteSet(Buckets(c))
  <2> DEFINE f == [s \in Older(raw, c) |-> HourOf(s)]
  <2>1. f \in Surjection(Older(raw, c), Buckets(c))
    BY DEF Surjection, Buckets
  <2> HIDE DEF f
  <2>2. QED
    BY <1>3, <2>1, FS_Surjection
<1>6. QED
  BY <1>2, <1>3, <1>4, <1>5

\* A batch that is not full takes all there is to delete.
LEMMA ShortBatchIsAll ==
    ASSUME NEW rows, NEW c, NEW batch, IsFiniteSet(Older(rows, c)),
           Batch(rows, c, batch), Cardinality(batch) < BatchSize
    PROVE  batch = Older(rows, c)
<1> DEFINE n == Cardinality(Older(rows, c))
<1>1. n \in Nat /\ BatchSize \in Nat
  BY FS_CardinalityType, ConstantTypes
<1>2. Min({BatchSize, n}) \in {BatchSize, n}
  <2>1. \E x \in {BatchSize, n} : \A y \in {BatchSize, n} : x <= y
    BY <1>1
  <2>2. QED
    BY <2>1 DEF Min
<1>3. batch \in SUBSET Older(rows, c) /\ Cardinality(batch) = Min({BatchSize, n})
  BY DEF Batch
<1>4. Cardinality(batch) = n
  BY <1>1, <1>2, <1>3
<1>5. QED
  BY <1>3, <1>4, FS_Subset

LEMMA RetentionStarts == Init => RetentionInv
<1> SUFFICES ASSUME Init PROVE RetentionInv
  OBVIOUS
<1>1. 0 \in Slot
  BY ConstantTypes DEF Slot
<1>2. TypeOK
  BY <1>1, IdleIsPass DEF Init, TypeOK, PassRecord
<1>3. PassInv /\ NoHourLost
  BY IdleIsPass DEF Init, PassInv, NoHourLost
<1>4. QED
  BY <1>2, <1>3 DEF RetentionInv

\* A new row is too young for the pass that is running.
LEMMA SampleIsSafe == RetentionInv /\ Sample => RetentionInv'
<1> SUFFICES ASSUME RetentionInv, Sample PROVE RetentionInv'
  OBVIOUS
<1> USE DEF RetentionInv
<1>1. /\ raw' = raw \cup {now} /\ taken' = taken \cup {now}
      /\ now' = now /\ hourly' = hourly /\ pass' = pass
  BY DEF Sample
<1>2. now \in Int /\ pass.begun \in Int /\ pass.cutoff \in Int /\ pass.at \in Stage
  BY ConstantTypes DEF TypeOK, Slot
<1>3. TypeOK'
  BY <1>1 DEF TypeOK
<1>4. NoHourLost'
  BY <1>1 DEF NoHourLost, Due
<1>5. ASSUME pass.at \in {"paging", "upserting", "deleting", "safetyNet"}
      PROVE  Older(raw, pass.cutoff)' = Older(raw, pass.cutoff)
  <2>1. pass.cutoff <= now
    BY <1>2, <1>5, ConstantTypes DEF PassInv
  <2>2. QED
    BY <1>1, <1>2, <2>1 DEF Older
<1>6. ASSUME pass.at \in {"paging", "upserting"}
      PROVE  Buckets(pass.cutoff)' = Buckets(pass.cutoff)
  BY <1>5, <1>6 DEF Buckets
<1>7. PassInv'
  BY <1>1, <1>5, <1>6 DEF PassInv
<1>8. QED
  BY <1>3, <1>4, <1>7

LEMMA AdvanceIsSafe == RetentionInv /\ Advance => RetentionInv'
<1> SUFFICES ASSUME RetentionInv, Advance PROVE RetentionInv'
  OBVIOUS
<1> USE DEF RetentionInv
<1>1. /\ now' = now + 1 /\ now < Horizon
      /\ pass.at # "idle" => now < pass.begun + PassSlots
      /\ raw' = raw /\ taken' = taken /\ hourly' = hourly /\ pass' = pass
  BY DEF Advance
<1>2. now \in 0..Horizon /\ pass.begun \in Int /\ pass.cutoff \in Int
  BY ConstantTypes DEF TypeOK, Slot
<1>3. TypeOK'
  <2>1. now' \in Slot
    BY <1>1, <1>2, ConstantTypes DEF Slot
  <2>2. QED
    BY <1>1, <2>1 DEF TypeOK
<1>4. NoHourLost'
  <2>1. ASSUME NEW s \in taken, Due(HourOf(s)) PROVE Due(HourOf(s))'
    <3>1. HourOf(s) \in Nat /\ HourLen \in Nat /\ HourlyKeep \in Nat
      BY HourIsNat, ConstantTypes DEF TypeOK
    <3>2. HourOf(s) * HourLen \in Nat
      BY <3>1
    <3>3. QED
      BY <1>1, <1>2, <2>1, <3>1, <3>2 DEF Due, HourOf
  <2>2. QED
    BY <1>1, <2>1 DEF NoHourLost, HourOf
<1>5. PassInv'
  <2>1. pass.at # "idle" => pass.begun <= now' /\ now' <= pass.begun + PassSlots
    BY <1>1, <1>2, ConstantTypes DEF PassInv
  <2>2. pass.at = "safetyNet" => pass.cutoff <= now'
    BY <1>1, <1>2 DEF PassInv
  <2>3. pass.at = "hourly" => pass.cutoff <= now' - HourlyKeep
    BY <1>1, <1>2, ConstantTypes DEF PassInv
  <2>4. QED
    BY <1>1, <2>1, <2>2, <2>3 DEF PassInv, Older, Buckets, HourOf
<1>6. QED
  BY <1>3, <1>4, <1>5

\* Steps that leave time and rows alone: only the locals of the pass move.
LEMMA PassStaysSafe ==
    ASSUME RetentionInv, UNCHANGED <<now, raw, taken, hourly>>, pass' \in PassRecord, PassInv'
    PROVE  RetentionInv'
  BY DEF RetentionInv, TypeOK, PassRecord, NoHourLost, Due, HourOf

LEMMA BeginIsSafe == RetentionInv /\ Begin => RetentionInv'
<1> SUFFICES ASSUME RetentionInv, Begin PROVE RetentionInv'
  OBVIOUS
<1> DEFINE p == [Idle EXCEPT !.at = "paging", !.begun = now, !.cutoff = now - RollAfter]
<1>1. now \in Slot /\ now \in Int /\ now - RollAfter \in Int
  BY ConstantTypes DEF RetentionInv, TypeOK, Slot
<1>2. /\ p \in PassRecord /\ p.at = "paging" /\ p.begun = now
      /\ p.cutoff = now - RollAfter /\ p.offset = 0
  BY <1>1, IdleIsPass DEF PassRecord, Stage, Idle
<1>3. pass' = p /\ UNCHANGED <<now, raw, taken, hourly>>
  BY DEF Begin
<1> HIDE DEF p
<1>4. \A h : Rank(h, Buckets(pass.cutoff)') \in Nat
  <2>1. Buckets(pass.cutoff)' = Buckets(now - RollAfter)
    BY <1>2, <1>3 DEF Buckets, Older, HourOf
  <2>2. QED
    BY <1>1, <2>1, BucketsAreFinite, RankIsNat DEF RetentionInv
<1>5. PassInv'
  BY <1>1, <1>2, <1>3, <1>4, ConstantTypes DEF PassInv
<1>6. QED
  BY <1>2, <1>3, <1>5, PassStaysSafe

\* The page that is read ends where the next one begins; an empty one comes
\* after the last.
LEMMA ReadPageIsSafe == RetentionInv /\ ReadPage => RetentionInv'
<1> SUFFICES ASSUME RetentionInv, ReadPage PROVE RetentionInv'
  OBVIOUS
<1> DEFINE B == Buckets(pass.cutoff)
           page == Page(B, pass.offset)
           rows == {s \in Older(raw, pass.cutoff) : HourOf(s) \in page}
           p == [pass EXCEPT !.page = page, !.rows = rows,
                             !.at = IF page = {} THEN "deleting" ELSE "upserting"]
<1>1. pass \in PassRecord /\ pass.cutoff \in Int /\ pass.offset \in Nat /\ pass.at = "paging"
  BY DEF ReadPage, RetentionInv, TypeOK, PassRecord
<1>2. /\ B \in SUBSET Nat /\ IsFiniteSet(B) /\ B \in SUBSET Hour
      /\ Older(raw, pass.cutoff) \in SUBSET Slot
  BY <1>1, BucketsAreFinite DEF RetentionInv
<1>3. page \in SUBSET Hour /\ rows \in SUBSET Slot
  BY <1>2 DEF Page
<1>4. /\ pass' = p /\ UNCHANGED <<now, raw, taken, hourly>>
      /\ page # {} => p.at = "upserting"
  BY <1>1 DEF ReadPage, PassRecord
<1>5. /\ p \in PassRecord /\ p.at = IF page = {} THEN "deleting" ELSE "upserting"
      /\ p.begun = pass.begun /\ p.cutoff = pass.cutoff /\ p.offset = pass.offset
      /\ p.page = page /\ p.rows = rows
  <2> HIDE DEF page, rows
  <2>1. QED
    BY <1>1, <1>3 DEF PassRecord, Stage
<1>6. page = {} => \A s \in Older(raw, pass.cutoff) : s \in hourly[HourOf(s)]
  <2>1. SUFFICES ASSUME page = {}, NEW s \in Older(raw, pass.cutoff)
                 PROVE  s \in hourly[HourOf(s)]
    OBVIOUS
  <2>2. HourOf(s) \in B
    BY DEF Buckets
  <2>3. Rank(HourOf(s), B) < pass.offset
    <3> HIDE DEF B
    <3>1. QED
      BY <1>1, <1>2, <2>1, <2>2, EmptyPageIsLast, ConstantTypes
  <2>4. QED
    BY <1>1, <2>3 DEF RetentionInv, PassInv
<1>7. /\ Older(raw, pass.cutoff)' = Older(raw, pass.cutoff)
      /\ Buckets(pass.cutoff)' = B
      /\ rows = {s \in Older(raw, pass.cutoff) : HourOf(s) \in page}
  BY <1>4, <1>5 DEF Older, Buckets, HourOf
<1> HIDE DEF p, rows, page
<1>8. PassInv'
  <2>1. CASE page = {}
    <3>1. pass'.at = "deleting"
      BY <1>4, <1>5, <2>1
    <3>2. QED
      BY <1>1, <1>4, <1>5, <1>6, <1>7, <2>1, <3>1 DEF RetentionInv, PassInv, HourOf
  <2>2. CASE page # {}
    <3>1. pass'.at = "upserting"
      BY <1>4, <1>5, <2>2
    <3>2. page = Page(Buckets(pass.cutoff), pass.offset)'
      BY <1>4, <1>5, <1>7 DEF page, Page
    <3>3. QED
      BY <1>1, <1>4, <1>5, <1>7, <2>2, <3>1, <3>2 DEF RetentionInv, PassInv, HourOf
  <2>3. QED
    BY <2>1, <2>2
<1>9. QED
  BY <1>4, <1>5, <1>8, PassStaysSafe

\* A page is summarised from all the old rows of its hours, so its hours join
\* those that are covered; and no summary becomes empty.
LEMMA UpsertPageIsSafe == RetentionInv /\ UpsertPage => RetentionInv'
<1> SUFFICES ASSUME RetentionInv, UpsertPage PROVE RetentionInv'
  OBVIOUS
<1> DEFINE c == pass.cutoff
           B == Buckets(c)
           last == LastPage(pass.page)
           p == [pass EXCEPT !.at = IF last THEN "deleting" ELSE "paging",
                             !.offset = IF last THEN @ ELSE @ + PageSize,
                             !.page = {}, !.rows = {}]
<1>1. /\ pass \in PassRecord /\ pass.cutoff \in Int /\ pass.offset \in Nat
      /\ pass.at = "upserting" /\ PageSize \in Nat \ {0}
  BY ConstantTypes DEF UpsertPage, RetentionInv, TypeOK, PassRecord
<1>2. /\ B \in SUBSET Nat /\ IsFiniteSet(B) /\ B \in SUBSET Hour
      /\ Older(raw, c) \in SUBSET Slot
  BY <1>1, BucketsAreFinite DEF RetentionInv
<1>3. /\ pass.page = Page(B, pass.offset)
      /\ pass.rows = {s \in Older(raw, c) : HourOf(s) \in pass.page}
      /\ \A s \in Older(raw, c) : Rank(HourOf(s), B) < pass.offset => s \in hourly[HourOf(s)]
      /\ pass.cutoff = pass.begun - RollAfter
      /\ pass.begun <= now /\ now <= pass.begun + PassSlots
  BY <1>1 DEF RetentionInv, PassInv
<1>4. /\ pass' = p /\ now' = now /\ raw' = raw /\ taken' = taken
      /\ hourly' = [h \in Hour |-> IF h \in pass.page
                                   THEN {s \in pass.rows : HourOf(s) = h} ELSE hourly[h]]
  BY DEF UpsertPage
<1>5. /\ p \in PassRecord /\ p.begun = pass.begun /\ p.cutoff = pass.cutoff
      /\ last => p.at = "deleting"
      /\ ~last => p.at = "paging" /\ p.offset = pass.offset + PageSize
  <2> HIDE DEF last
  <2>1. pass.offset + PageSize \in Nat
    BY <1>1
  <2>2. QED
    BY <1>1, <2>1 DEF PassRecord, Stage
<1> HIDE DEF p
<1>6. \A s \in Older(raw, c) : HourOf(s) \in Hour /\ HourOf(s) \in B /\ Rank(HourOf(s), B) \in Nat
  <2> SUFFICES ASSUME NEW s \in Older(raw, c)
               PROVE  HourOf(s) \in Hour /\ HourOf(s) \in B /\ Rank(HourOf(s), B) \in Nat
    OBVIOUS
  <2>1. HourOf(s) \in B
    BY DEF Buckets
  <2> HIDE DEF B
  <2>2. QED
    BY <1>2, <2>1, RankIsNat
<1>7. \A s \in Older(raw, c) :
         Rank(HourOf(s), B) < pass.offset + PageSize => s \in hourly'[HourOf(s)]
  <2> SUFFICES ASSUME NEW s \in Older(raw, c), Rank(HourOf(s), B) < pass.offset + PageSize
               PROVE  s \in hourly'[HourOf(s)]
    OBVIOUS
  <2>1. HourOf(s) \in Hour /\ HourOf(s) \in B /\ Rank(HourOf(s), B) \in Nat
    BY <1>6
  <2>2. CASE HourOf(s) \in pass.page
    BY <1>3, <1>4, <2>1, <2>2
  <2>3. CASE HourOf(s) \notin pass.page
    <3>1. Rank(HourOf(s), B) \notin pass.offset..(pass.offset + PageSize - 1)
      BY <1>3, <2>1, <2>3 DEF Page
    <3>2. Rank(HourOf(s), B) < pass.offset
      BY <1>1, <2>1, <3>1
    <3>3. QED
      BY <1>3, <1>4, <2>1, <2>3, <3>2
  <2>4. QED
    BY <2>2, <2>3
<1>8. last => \A s \in Older(raw, c) : s \in hourly'[HourOf(s)]
  <2> SUFFICES ASSUME last, NEW s \in Older(raw, c) PROVE s \in hourly'[HourOf(s)]
    OBVIOUS
  <2>1. Cardinality(Page(B, pass.offset)) < PageSize
    BY <1>3 DEF LastPage
  <2>2. Rank(HourOf(s), B) < pass.offset + PageSize
    <3>1. HourOf(s) \in B
      BY <1>6
    <3> HIDE DEF B
    <3>2. QED
      BY <1>1, <1>2, <2>1, <3>1, ShortPageIsLast
  <2>3. QED
    BY <1>7, <2>2
<1>9. hourly' \in [Hour -> SUBSET Slot]
  BY <1>2, <1>3, <1>4 DEF RetentionInv, TypeOK
<1>10. TypeOK'
  BY <1>4, <1>5, <1>9 DEF RetentionInv, TypeOK, PassRecord
<1>11. NoHourLost'
  <2>1. ASSUME NEW h \in Hour, hourly[h] # {} PROVE hourly'[h] # {}
    <3>1. CASE h \in pass.page
      <4>1. PICK s \in Older(raw, c) : HourOf(s) = h
        BY <1>3, <3>1 DEF Page, Buckets
      <4>2. s \in hourly'[h]
        BY <1>3, <1>4, <3>1, <4>1
      <4>3. QED
        BY <4>2
    <3>2. CASE h \notin pass.page
      BY <1>4, <2>1, <3>2
    <3>3. QED
      BY <3>1, <3>2
  <2>2. \A s \in taken : HourOf(s) \in Hour
    BY HourIsNat DEF RetentionInv, TypeOK
  <2>3. QED
    BY <1>4, <2>1, <2>2 DEF RetentionInv, NoHourLost, Due, HourOf
<1>12. PassInv'
  <2>1. Older(raw, pass.cutoff)' = Older(raw, c) /\ Buckets(pass.cutoff)' = B
    BY <1>4, <1>5 DEF Older, Buckets, HourOf
  <2>2. \A s : HourOf(s)' = HourOf(s)
    BY DEF HourOf
  <2>3. \A h, T : Rank(h, T)' = Rank(h, T)
    BY DEF Rank
  <2> HIDE DEF c, B
  <2>4. CASE last
    BY <1>3, <1>4, <1>5, <1>8, <2>1, <2>2, <2>4 DEF PassInv, c
  <2>5. CASE ~last
    BY <1>3, <1>4, <1>5, <1>7, <2>1, <2>2, <2>3, <2>5 DEF PassInv, c
  <2>6. QED
    BY <2>4, <2>5
<1>13. QED
  BY <1>10, <1>11, <1>12 DEF RetentionInv

-----------------------------------------------------------------------------
\* What a pass may delete: only what its hour has counted, and old enough.
CountedOnly == \A s \in raw \ raw' : s \in hourly[HourOf(s)] /\ s < now - RollAfter

LEMMA DeleteRolledIsSafe == RetentionInv /\ DeleteRolled => RetentionInv' /\ CountedOnly
<1> SUFFICES ASSUME RetentionInv, DeleteRolled PROVE RetentionInv' /\ CountedOnly
  OBVIOUS
<1> DEFINE c == pass.cutoff
           p == [pass EXCEPT !.at = "safetyNet", !.cutoff = now - RawKeep]
<1>1. /\ pass \in PassRecord /\ c \in Int /\ now \in Nat /\ pass.begun \in Nat
      /\ pass.at = "deleting"
      /\ RollAfter \in Nat /\ RawKeep \in Nat /\ PassSlots \in Nat
  BY ConstantTypes DEF DeleteRolled, RetentionInv, TypeOK, PassRecord, Slot
<1>2. /\ c = pass.begun - RollAfter
      /\ pass.begun <= now /\ now <= pass.begun + PassSlots
      /\ \A s \in Older(raw, c) : s \in hourly[HourOf(s)]
  BY <1>1 DEF RetentionInv, PassInv
<1>3. PICK batch \in SUBSET raw :
         /\ Batch(raw, c, batch) /\ raw' = raw \ batch /\ AfterBatch(batch, p)
  BY DEF DeleteRolled
<1>4. now' = now /\ hourly' = hourly /\ taken' = taken
  BY DEF DeleteRolled
<1>5. batch \in SUBSET Older(raw, c) /\ \A s \in batch : s \in Slot /\ s < c
  BY <1>3 DEF Batch, Older, RetentionInv, TypeOK
<1>6. CountedOnly
  <2> SUFFICES ASSUME NEW s \in batch PROVE s \in hourly[HourOf(s)] /\ s < now - RollAfter
    BY <1>3 DEF CountedOnly
  <2>1. s \in Int /\ s < c
    BY <1>5, ConstantTypes DEF Slot
  <2>2. QED
    BY <1>1, <1>2, <1>5, <2>1
<1>7. p \in PassRecord /\ p.at = "safetyNet" /\ p.begun = pass.begun /\ p.cutoff = now - RawKeep
  <2>1. now - RawKeep \in Int
    BY <1>1
  <2>2. QED
    BY <1>1, <2>1 DEF PassRecord, Stage
<1> HIDE DEF p
<1>8. pass' = IF Cardinality(batch) < BatchSize THEN p ELSE pass
  BY <1>3 DEF AfterBatch
<1>9. TypeOK'
  BY <1>1, <1>3, <1>4, <1>7, <1>8 DEF RetentionInv, TypeOK, PassRecord
<1>10. NoHourLost'
  <2> SUFFICES ASSUME NEW s \in taken, ~Due(HourOf(s)), hourly[HourOf(s)] = {}
               PROVE  \E r \in raw' : HourOf(r) = HourOf(s)
    BY <1>4 DEF NoHourLost, Due, HourOf
  <2>1. PICK r \in raw : HourOf(r) = HourOf(s)
    BY DEF RetentionInv, NoHourLost
  <2>2. r \notin batch
    BY <1>2, <1>5, <2>1
  <2>3. QED
    BY <1>3, <2>1, <2>2
<1>11. PassInv'
  <2>1. CASE Cardinality(batch) < BatchSize
    <3>1. batch = Older(raw, c)
      BY <1>1, <1>3, <2>1, BucketsAreFinite, ShortBatchIsAll DEF RetentionInv
    <3>2. now - RawKeep <= c
      BY <1>1, <1>2, PassesAreShort
    <3>3. Older(raw, now - RawKeep) \ batch = {}
      <4> SUFFICES ASSUME NEW s \in raw, s < now - RawKeep PROVE s \in batch
        BY DEF Older
      <4>1. s \in Int
        BY ConstantTypes DEF RetentionInv, TypeOK, Slot
      <4>2. s < c
        BY <1>1, <3>2, <4>1
      <4>3. QED
        BY <3>1, <4>2 DEF Older
    <3>4. Older(raw, pass.cutoff)' = {}
      BY <1>3, <1>7, <1>8, <2>1, <3>3 DEF Older
    <3>5. now - RawKeep <= now
      BY <1>1
    <3>6. QED
      BY <1>2, <1>4, <1>7, <1>8, <2>1, <3>4, <3>5 DEF PassInv
  <2>2. CASE ~(Cardinality(batch) < BatchSize)
    <3>1. pass' = pass
      BY <1>8, <2>2
    <3>2. \A s \in Older(raw, pass.cutoff)' : s \in Older(raw, c)
      BY <1>3, <3>1 DEF Older
    <3>3. QED
      BY <1>1, <1>2, <1>4, <3>1, <3>2 DEF PassInv, HourOf
  <2>3. QED
    BY <2>1, <2>2
<1>12. QED
  BY <1>6, <1>9, <1>10, <1>11 DEF RetentionInv

\* The safety net finds nothing: its rows went with those that were rolled up.
LEMMA DeleteStaleRawIsSafe == RetentionInv /\ DeleteStaleRaw => RetentionInv' /\ CountedOnly
<1> SUFFICES ASSUME RetentionInv, DeleteStaleRaw PROVE RetentionInv' /\ CountedOnly
  OBVIOUS
<1> DEFINE p == [pass EXCEPT !.at = "hourly", !.cutoff = now - HourlyKeep]
<1>1. /\ pass \in PassRecord /\ now \in Nat /\ HourlyKeep \in Nat /\ pass.at = "safetyNet"
  BY ConstantTypes DEF DeleteStaleRaw, RetentionInv, TypeOK, PassRecord, Slot
<1>2. /\ Older(raw, pass.cutoff) = {} /\ pass.cutoff <= now
      /\ pass.begun <= now /\ now <= pass.begun + PassSlots
  BY <1>1 DEF RetentionInv, PassInv
<1>3. PICK batch \in SUBSET raw :
         /\ Batch(raw, pass.cutoff, batch) /\ raw' = raw \ batch /\ AfterBatch(batch, p)
  BY DEF DeleteStaleRaw
<1>4. batch = {} /\ raw' = raw /\ now' = now /\ hourly' = hourly /\ taken' = taken
  BY <1>2, <1>3 DEF DeleteStaleRaw, Batch
<1>5. p \in PassRecord /\ p.at = "hourly" /\ p.begun = pass.begun /\ p.cutoff = now - HourlyKeep
  <2>1. now - HourlyKeep \in Int
    BY <1>1
  <2>2. QED
    BY <1>1, <2>1 DEF PassRecord, Stage
<1> HIDE DEF p
<1>6. pass' = p \/ pass' = pass
  BY <1>3 DEF AfterBatch
<1>7. PassInv'
  <2>1. CASE pass' = p
    <3>1. now - HourlyKeep <= now - HourlyKeep
      BY <1>1
    <3>2. /\ pass'.at = "hourly" /\ pass'.begun = pass.begun
          /\ pass'.cutoff = now' - HourlyKeep
      BY <1>4, <1>5, <2>1
    <3>3. QED
      BY <1>2, <1>4, <1>5, <2>1, <3>1, <3>2 DEF PassInv
  <2>2. CASE pass' = pass
    BY <1>1, <1>2, <1>4, <2>2 DEF PassInv, Older
  <2>3. QED
    BY <1>6, <2>1, <2>2
<1>8. pass' \in PassRecord
  BY <1>1, <1>5, <1>6
<1>9. QED
  BY <1>4, <1>7, <1>8, PassStaysSafe DEF CountedOnly

\* Hourly rows that go are due to.
LEMMA DeleteStaleHourlyIsSafe == RetentionInv /\ DeleteStaleHourly => RetentionInv'
<1> SUFFICES ASSUME RetentionInv, DeleteStaleHourly PROVE RetentionInv'
  OBVIOUS
<1>1. /\ pass \in PassRecord /\ pass.cutoff \in Int /\ now \in Nat /\ HourlyKeep \in Nat
      /\ HourLen \in Nat /\ pass.at = "hourly"
  BY ConstantTypes DEF DeleteStaleHourly, RetentionInv, TypeOK, PassRecord, Slot
<1>2. /\ pass.cutoff <= now - HourlyKeep
      /\ pass.begun <= now /\ now <= pass.begun + PassSlots
  BY <1>1 DEF RetentionInv, PassInv
<1>3. PICK batch \in SUBSET HourStarts :
         /\ Batch(HourStarts, pass.cutoff, batch)
         /\ hourly' = [h \in Hour |-> IF h * HourLen \in batch THEN {} ELSE hourly[h]]
         /\ AfterBatch(batch, Idle)
  BY DEF DeleteStaleHourly
<1>4. now' = now /\ raw' = raw /\ taken' = taken
  BY DEF DeleteStaleHourly
<1>5. pass' = Idle \/ pass' = pass
  BY <1>3 DEF AfterBatch
<1>6. hourly' \in [Hour -> SUBSET Slot]
  BY <1>3 DEF RetentionInv, TypeOK
<1>7. TypeOK'
  BY <1>1, <1>4, <1>5, <1>6, IdleIsPass DEF RetentionInv, TypeOK, PassRecord
<1>8. NoHourLost'
  <2>1. ASSUME NEW s \in taken, HourOf(s) * HourLen \in batch PROVE Due(HourOf(s))
    <3>1. HourOf(s) * HourLen \in Int
      BY <1>1, HourIsNat DEF RetentionInv, TypeOK
    <3>2. HourOf(s) * HourLen < pass.cutoff
      BY <1>3, <2>1 DEF Batch, Older
    <3>3. QED
      BY <1>1, <1>2, <3>1, <3>2 DEF Due
  <2>2. ASSUME NEW s \in taken PROVE HourOf(s) \in Hour
    BY HourIsNat DEF RetentionInv, TypeOK
  <2>3. QED
    BY <1>3, <1>4, <2>1, <2>2 DEF RetentionInv, NoHourLost, Due, HourOf
<1>9. PassInv'
  <2>1. CASE pass' = Idle
    BY <2>1, IdleIsPass DEF PassInv
  <2>2. CASE pass' = pass
    BY <1>1, <1>2, <1>4, <2>2 DEF PassInv
  <2>3. QED
    BY <1>5, <2>1, <2>2
<1>10. QED
  BY <1>7, <1>8, <1>9 DEF RetentionInv

-----------------------------------------------------------------------------
LEMMA RetentionStep ==
    RetentionInv /\ [Next]_vars => RetentionInv' /\ (CountedOnly \/ UNCHANGED vars)
<1> SUFFICES ASSUME RetentionInv, [Next]_vars
             PROVE  RetentionInv' /\ (CountedOnly \/ UNCHANGED vars)
  OBVIOUS
<1>1. CASE Sample
  BY <1>1, SampleIsSafe DEF Sample, CountedOnly
<1>2. CASE Advance
  BY <1>2, AdvanceIsSafe DEF Advance, CountedOnly
<1>3. CASE Begin
  BY <1>3, BeginIsSafe DEF Begin, CountedOnly
<1>4. CASE ReadPage
  BY <1>4, ReadPageIsSafe DEF ReadPage, CountedOnly
<1>5. CASE UpsertPage
  BY <1>5, UpsertPageIsSafe DEF UpsertPage, CountedOnly
<1>6. CASE DeleteRolled
  BY <1>6, DeleteRolledIsSafe
<1>7. CASE DeleteStaleRaw
  BY <1>7, DeleteStaleRawIsSafe
<1>8. CASE DeleteStaleHourly
  BY <1>8, DeleteStaleHourlyIsSafe DEF DeleteStaleHourly, CountedOnly
<1>9. CASE PassFails
  <2>1. UNCHANGED <<now, raw, taken, hourly>> /\ pass' = Idle
    BY <1>9 DEF PassFails
  <2>2. PassInv'
    BY <2>1, IdleIsPass DEF PassInv
  <2>3. QED
    BY <2>1, <2>2, IdleIsPass, PassStaysSafe DEF CountedOnly
<1>10. CASE UNCHANGED vars
  <2>1. UNCHANGED <<now, raw, taken, hourly, pass>>
    BY <1>10 DEF vars
  <2>2. PassInv'
    BY <2>1 DEF RetentionInv, PassInv, Older, Buckets, Page, Rank, HourOf
  <2>3. pass' \in PassRecord
    BY <2>1 DEF RetentionInv, TypeOK, PassRecord
  <2>4. QED
    BY <1>10, <2>1, <2>2, <2>3, PassStaysSafe
<1>11. QED
  BY <1>1, <1>2, <1>3, <1>4, <1>5, <1>6, <1>7, <1>8, <1>9, <1>10 DEF Next, Work

\* The tables and the locals of a pass keep to their types.
THEOREM RetentionTypes == Spec => []TypeOK
<1>1. RetentionInv => TypeOK
  BY DEF RetentionInv
<1>2. QED
  BY <1>1, RetentionStarts, RetentionStep, PTL DEF Spec

\* However long the pages and batches are and wherever a pass fails: an hour
\* that was sampled keeps a raw row or a summary until it is due to go.
THEOREM HistoryIsKept == Spec => []NoHourLost
<1>1. RetentionInv => NoHourLost
  BY DEF RetentionInv
<1>2. QED
  BY <1>1, RetentionStarts, RetentionStep, PTL DEF Spec

\* A raw row is deleted only once its hour's summary counts it, and never before
\* it is old enough.
THEOREM CountedBeforeDeleted == Spec => DeletedWasCounted
<1>1. RetentionInv /\ [Next]_vars
         => [\A s \in raw \ raw' : s \in hourly[HourOf(s)] /\ s < now - RollAfter]_vars
  BY RetentionStep DEF CountedOnly
<1>2. QED
  BY <1>1, RetentionStarts, RetentionStep, PTL DEF Spec, DeletedWasCounted
=============================================================================
