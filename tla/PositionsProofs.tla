--------------------------- MODULE PositionsProofs ---------------------------
(***************************************************************************)
(* Theorems about Positions for any markets, prices, sizes, fee, limits and *)
(* barrier configurations: what is managed and what the paper executor     *)
(* holds agree, in shares and in profit, a market has one open position,   *)
(* and a pass over the barriers leaves nothing open that is beyond them.   *)
(* The lemmas about the executor are used through an instance of its proof *)
(* module.                                                                 *)
(***************************************************************************)
EXTENDS Positions, SequenceTheorems, FiniteSetTheorems, TLAPS

PaperThms == INSTANCE PaperExecutorProofs WITH
                 Sizes <- Shares,
                 InitialBalances <- {InitialBalance},
                 NoFile <- None, TornFile <- None, MaxSaved <- 0, MaxUnbacked <- 0

-----------------------------------------------------------------------------
(* What the proofs use of the assumptions.                                 *)

LEMMA Constants ==
    /\ IsFiniteSet(Market) /\ InitialBalance \in Nat /\ FeePct \in 0 .. 100
    /\ One \in Nat /\ Prices \subseteq 1 .. One - 1 /\ Prices \subseteq Nat
    /\ EntryPrices \subseteq Prices /\ Shares \subseteq Nat \ {0}
    /\ Configs \subseteq Barriers
    /\ OpenLimits \subseteq Nat /\ SignalLimit \in Nat /\ SignalCooldown \in Nat
    /\ None \notin Nat
BY AccountAssumption, PriceAssumption, ConfigAssumption, LimitAssumption, NoneAssumption

LEMMA PaperOk == PaperThms!IsFiniteSet(Key) /\ Prices \subseteq Nat
<1>1. \A S : PaperThms!IsFiniteSet(S) <=> IsFiniteSet(S)
  BY DEF IsFiniteSet, PaperThms!IsFiniteSet
<1>2. IsFiniteSet({"Yes"}) /\ Outcome = {"Yes"} \cup {"No"}
  BY FS_Singleton DEF Outcome
<1>3. IsFiniteSet(Outcome)
  BY <1>2, FS_AddElement
<1>4. IsFiniteSet(Key)
  BY <1>3, Constants, FS_Product DEF Key
<1>5. QED
  BY <1>1, <1>4, Constants

-----------------------------------------------------------------------------
(* The steps of the executor, as steps its proof module knows.             *)

LEMMA SameTypes == Paper!TypeOK <=> PaperThms!TypeOK
BY DEF Paper!TypeOK, Paper!Book, Paper!TradeType, Paper!Exported,
       PaperThms!TypeOK, PaperThms!Book, PaperThms!TradeType, PaperThms!Exported

LEMMA SamePaperSteps ==
    /\ \A k \in Key, price \in Prices, n \in Shares :
          /\ Paper!Buy(k, price, n, TRUE) => PaperThms!Buy(k, price, n, TRUE)
          /\ Paper!Sell(k, price, n) => PaperThms!Sell(k, price, n)
    /\ Paper!Start(InitialBalance) => PaperThms!Start(InitialBalance)
    /\ Paper!Init => PaperThms!Init
<1> USE DEF Paper!Fee, PaperThms!Fee, Paper!Affordable, PaperThms!Affordable,
            Paper!Duplicate, PaperThms!Duplicate, Paper!Trade, PaperThms!Trade
<1>1. ASSUME NEW k \in Key, NEW price \in Prices, NEW n \in Shares,
             Paper!Buy(k, price, n, TRUE)
      PROVE  PaperThms!Buy(k, price, n, TRUE)
  BY <1>1 DEF Paper!Buy, PaperThms!Buy, Paper!BuyFilled, PaperThms!BuyFilled,
              Paper!SharesAfterBuy, PaperThms!SharesAfterBuy
<1>2. ASSUME NEW k \in Key, NEW price \in Prices, NEW n \in Shares, Paper!Sell(k, price, n)
      PROVE  PaperThms!Sell(k, price, n)
  BY <1>2 DEF Paper!Sell, PaperThms!Sell, Paper!SellFilled, PaperThms!SellFilled,
              Paper!CostOf, PaperThms!CostOf
<1>3. /\ Paper!Start(InitialBalance) => PaperThms!Start(InitialBalance)
      /\ Paper!Init => PaperThms!Init
  BY DEF Paper!Start, PaperThms!Start, Paper!Init, PaperThms!Init,
         Paper!BookBecomes, PaperThms!BookBecomes, Paper!Fresh, PaperThms!Fresh
<1>4. QED
  BY <1>1, <1>2, <1>3

\* Every step the position executor takes of the paper executor keeps its types.
LEMMA PaperTypes ==
    ASSUME Paper!TypeOK
    PROVE  /\ \A k \in Key, price \in Prices, n \in Shares :
                 Paper!Buy(k, price, n, TRUE) \/ Paper!Sell(k, price, n) => Paper!TypeOK'
           /\ Paper!Start(InitialBalance) => Paper!TypeOK'
           /\ UNCHANGED bookVars => Paper!TypeOK'
<1>1. PaperThms!TypeOK /\ (PaperThms!TypeOK' => Paper!TypeOK')
  <2>1. Paper!TypeOK <=> PaperThms!TypeOK
    BY SameTypes
  <2>2. Paper!TypeOK' <=> PaperThms!TypeOK'
    BY SameTypes, PTL
  <2>3. QED
    BY <2>1, <2>2
<1>2. PaperThms!Next \/ UNCHANGED PaperThms!vars => PaperThms!TypeOK'
  BY <1>1, PaperOk, Constants, PaperThms!TypeStep
<1>3. \A k \in Key, price \in Prices, n \in Shares :
         PaperThms!Buy(k, price, n, TRUE) \/ PaperThms!Sell(k, price, n) => PaperThms!Next
  BY DEF PaperThms!Next
<1>4. PaperThms!Start(InitialBalance) => PaperThms!Next
  BY DEF PaperThms!Next
<1>5. UNCHANGED bookVars => UNCHANGED PaperThms!vars
  BY DEF bookVars, PaperThms!vars, PaperThms!bookVars
<1>6. QED
  BY <1>1, <1>2, <1>3, <1>4, <1>5, SamePaperSteps, Zenon

LEMMA PaperInitTypes == Paper!Init => Paper!TypeOK
<1>1. PaperThms!Init => PaperThms!TypeOK
  BY PaperOk, Constants, PaperThms!TypeInit
<1>2. QED
  BY <1>1, SamePaperSteps, SameTypes

\* The fields of the book.
LEMMA BookTypes ==
    ASSUME Paper!TypeOK
    PROVE  /\ realized \in Int
           /\ size \in [Key -> Nat] /\ cost \in [Key -> Nat]
BY DEF Paper!TypeOK, Paper!Exported, Paper!Book

-----------------------------------------------------------------------------
(* Managed positions.                                                      *)

LEMMA PositionTypes ==
    ASSUME NEW p \in PositionType
    PROVE  /\ p.market \in Market /\ p.outcome \in Outcome /\ KeyOf(p) \in Key
           /\ p.entry \in Prices /\ p.price \in Prices /\ p.peak \in Prices
           /\ p.shares \in Nat /\ p.shares \in Shares \cup {0}
           /\ p.config \in Configs /\ p.trailing \in BOOLEAN
<1>1. /\ p.market \in Market /\ p.outcome \in Outcome
      /\ p.entry \in Prices /\ p.price \in Prices /\ p.peak \in Prices
      /\ p.shares \in Shares \cup {0}
      /\ p.config \in Configs /\ p.trailing \in BOOLEAN
  BY DEF PositionType
<1>2. p.shares \in Nat
  <2>1. p.shares \in Shares \/ p.shares = 0
    BY <1>1
  <2>2. \A n \in Shares : n \in Nat
    BY PriceAssumption
  <2>3. QED
    BY <2>1, <2>2
<1>3. KeyOf(p) \in Key
  BY <1>1 DEF KeyOf, Key
<1>4. QED
  BY <1>1, <1>2, <1>3

LEMMA ManagedTypes ==
    ASSUME TypeOK
    PROVE  /\ managed \in Seq(PositionType)
           /\ Len(managed) \in Nat /\ DOMAIN managed = 1 .. Len(managed)
           /\ \A i \in DOMAIN managed : managed[i] \in PositionType
<1>1. managed \in Seq(PositionType)
  BY DEF TypeOK
<1>2. Len(managed) \in Nat /\ DOMAIN managed = 1 .. Len(managed)
  BY <1>1
<1>3. \A i \in DOMAIN managed : managed[i] \in PositionType
  BY <1>1, <1>2, ElementOfSeq
<1>4. QED
  BY <1>1, <1>2, <1>3

\* A position is only compared with an open one by its market and outcome.
LEMMA SameKey ==
    ASSUME NEW p, NEW q, KeyOf(p) = KeyOf(q)
    PROVE  p.market = q.market /\ p.outcome = q.outcome
BY DEF KeyOf

\* Closing the i-th position moves the ones behind it up by one.
LEMMA WithoutProperties ==
    ASSUME TypeOK, NEW i \in DOMAIN managed
    PROVE  /\ Without(i) \in Seq(PositionType)
           /\ Len(Without(i)) = Len(managed) - 1
           /\ DOMAIN Without(i) = 1 .. Len(managed) - 1
           /\ \A j \in 1 .. Len(managed) - 1 :
                 Without(i)[j] = IF j < i THEN managed[j] ELSE managed[j + 1]
<1> DEFINE n == Len(managed)
           before == SubSeq(managed, 1, i - 1)
           after == SubSeq(managed, i + 1, n)
<1>1. n \in Nat /\ i \in 1 .. n /\ DOMAIN managed = 1 .. n
  BY ManagedTypes
<1>2. \A j \in 1 .. n : managed[j] \in PositionType
  BY ManagedTypes
<1>3. /\ before \in Seq(PositionType) /\ Len(before) = i - 1
      /\ \A j \in 1 .. i - 1 : before[j] = managed[j]
  <2>1. 1 \in Int /\ i - 1 \in Int /\ \A j \in 1 .. i - 1 : managed[j] \in PositionType
    BY <1>1, <1>2
  <2> HIDE DEF n
  <2>2. /\ before \in Seq(PositionType)
        /\ Len(before) = IF 1 <= i - 1 THEN (i - 1) - 1 + 1 ELSE 0
        /\ \A j \in 1 .. (i - 1) - 1 + 1 : before[j] = managed[1 + j - 1]
    BY <2>1, SubSeqProperties
  <2> HIDE DEF before
  <2>3. QED
    BY <1>1, <2>2
<1>4. /\ after \in Seq(PositionType) /\ Len(after) = n - i
      /\ \A j \in 1 .. n - i : after[j] = managed[i + j]
  <2>1. i + 1 \in Int /\ n \in Int /\ \A j \in i + 1 .. n : managed[j] \in PositionType
    BY <1>1, <1>2
  <2> HIDE DEF n
  <2>2. /\ after \in Seq(PositionType)
        /\ Len(after) = IF i + 1 <= n THEN n - (i + 1) + 1 ELSE 0
        /\ \A j \in 1 .. n - (i + 1) + 1 : after[j] = managed[(i + 1) + j - 1]
    BY <2>1, SubSeqProperties
  <2> HIDE DEF after
  <2>3. QED
    BY <1>1, <2>2, SMTT(30)
<1>5. Without(i) = before \o after
  BY DEF Without
<1> HIDE DEF n, before, after
<1>6. PICK w : w = before \o after
  OBVIOUS
<1>7. /\ w \in Seq(PositionType)
      /\ Len(w) = Len(before) + Len(after)
      /\ \A j \in 1 .. Len(before) + Len(after) : w[j] =
            IF j <= Len(before) THEN before[j] ELSE after[j - Len(before)]
  BY <1>3, <1>4, <1>6, ConcatProperties
<1>8. /\ w \in Seq(PositionType) /\ Len(w) = n - 1 /\ DOMAIN w = 1 .. n - 1
      /\ \A j \in 1 .. n - 1 : w[j] = IF j < i THEN managed[j] ELSE managed[j + 1]
  <2>1. w \in Seq(PositionType) /\ Len(w) = n - 1
    BY <1>1, <1>3, <1>4, <1>7
  <2>2. DOMAIN w = 1 .. n - 1
    BY <2>1
  <2>3. ASSUME NEW j \in 1 .. n - 1
        PROVE  w[j] = IF j < i THEN managed[j] ELSE managed[j + 1]
    <3>1. w[j] = IF j <= i - 1 THEN before[j] ELSE after[j - (i - 1)]
      <4>1. j \in 1 .. Len(before) + Len(after)
        BY <1>1, <1>3, <1>4
      <4>2. QED
        BY <1>3, <1>7, <4>1
    <3>2. CASE j < i
      <4>1. j <= i - 1 /\ j \in 1 .. i - 1
        BY <1>1, <3>2
      <4>2. QED
        BY <1>3, <3>1, <3>2, <4>1
    <3>3. CASE ~(j < i)
      <4>1. ~(j <= i - 1) /\ j - (i - 1) \in 1 .. n - i /\ i + (j - (i - 1)) = j + 1
        BY <1>1, <3>3
      <4>2. QED
        BY <1>4, <3>1, <3>3, <4>1
    <3>4. QED
      BY <3>2, <3>3
  <2>4. QED
    BY <2>1, <2>2, <2>3
<1>9. QED
  BY <1>5, <1>6, <1>8 DEF n

\* So what held of all positions holds of those that are left, and each of them
\* was at a place of its own.
LEMMA WithoutElements ==
    ASSUME TypeOK, NEW i \in DOMAIN managed
    PROVE  /\ \A j \in DOMAIN Without(i) :
                 \E l \in DOMAIN managed :
                    l = (IF j < i THEN j ELSE j + 1) /\ Without(i)[j] = managed[l] /\ l # i
           /\ \A l \in DOMAIN managed : l # i =>
                 \E j \in DOMAIN Without(i) : Without(i)[j] = managed[l]
<1> DEFINE n == Len(managed)
<1>1. n \in Nat /\ i \in 1 .. n /\ DOMAIN managed = 1 .. n
  BY ManagedTypes
<1>2. PICK w : w = Without(i)
  OBVIOUS
<1>3. /\ DOMAIN w = 1 .. n - 1
      /\ \A j \in 1 .. n - 1 : w[j] = IF j < i THEN managed[j] ELSE managed[j + 1]
  BY <1>2, WithoutProperties
<1> HIDE DEF n
<1>4. ASSUME NEW j \in DOMAIN w
      PROVE  \E l \in DOMAIN managed :
                l = (IF j < i THEN j ELSE j + 1) /\ w[j] = managed[l] /\ l # i
  BY <1>1, <1>3
<1>5. ASSUME NEW l \in DOMAIN managed, l # i PROVE \E j \in DOMAIN w : w[j] = managed[l]
  <2>1. CASE l < i
    <3>1. l \in DOMAIN w /\ w[l] = managed[l]
      BY <1>1, <1>3, <2>1
    <3>2. QED
      BY <3>1
  <2>2. CASE l > i
    <3>1. l - 1 \in DOMAIN w /\ w[l - 1] = managed[l]
      BY <1>1, <1>3, <2>2
    <3>2. QED
      BY <3>1
  <2>3. QED
    BY <1>1, <1>5, <2>1, <2>2
<1>6. QED
  BY <1>2, <1>4, <1>5

\* A new position comes last.
LEMMA AppendElements ==
    ASSUME TypeOK, NEW p \in PositionType
    PROVE  /\ Append(managed, p) \in Seq(PositionType)
           /\ Len(Append(managed, p)) = Len(managed) + 1
           /\ DOMAIN Append(managed, p) = 1 .. Len(managed) + 1
           /\ \A i \in DOMAIN managed :
                 i \in DOMAIN Append(managed, p) /\ Append(managed, p)[i] = managed[i]
           /\ Append(managed, p)[Len(managed) + 1] = p
<1>1. managed \in Seq(PositionType) /\ Len(managed) \in Nat /\ DOMAIN managed = 1 .. Len(managed)
  BY ManagedTypes
<1>2. PICK w : w = Append(managed, p)
  OBVIOUS
<1>3. /\ w \in Seq(PositionType) /\ Len(w) = Len(managed) + 1
      /\ \A i \in 1 .. Len(managed) : w[i] = managed[i]
      /\ w[Len(managed) + 1] = p
  BY <1>1, <1>2, AppendProperties
<1>4. DOMAIN w = 1 .. Len(managed) + 1
  BY <1>3
<1>5. QED
  BY <1>1, <1>2, <1>3, <1>4

\* A check gives a position another price and peak, and may turn its trailing
\* stop on; it stays the position it was.
LEMMA CheckedTypes ==
    ASSUME NEW p \in PositionType, NEW q \in Prices
    PROVE  /\ Checked(p, q) \in PositionType
           /\ KeyOf(Checked(p, q)) = KeyOf(p)
           /\ Checked(p, q).market = p.market /\ Checked(p, q).outcome = p.outcome
           /\ Checked(p, q).entry = p.entry /\ Checked(p, q).shares = p.shares
           /\ Checked(p, q).config = p.config
           /\ Checked(p, q).price = q /\ Checked(p, q).peak = PeakAfter(p, q)
<1>1. PICK now : now = Priced(p, q)
  OBVIOUS
<1>2. now = [p EXCEPT !.price = q, !.peak = PeakAfter(p, q)] /\ PeakAfter(p, q) \in Prices
  BY <1>1 DEF Priced, PeakAfter, PositionType
<1>3. /\ now \in PositionType /\ now.market = p.market /\ now.outcome = p.outcome
      /\ now.entry = p.entry /\ now.shares = p.shares /\ now.config = p.config
      /\ now.price = q /\ now.peak = PeakAfter(p, q)
  BY <1>2 DEF PositionType
<1>4. Activated(now) \in BOOLEAN
  BY DEF Activated
<1>5. PICK on \in BOOLEAN : on = (Activated(now) \/ now.trailing)
  <2>1. (Activated(now) \/ now.trailing) \in BOOLEAN
    OBVIOUS
  <2>2. QED
    BY <2>1
<1>6. \/ Checked(p, q) = now
      \/ Checked(p, q) = [now EXCEPT !.trailing = on]
  BY <1>1, <1>5 DEF Checked
<1>7. ASSUME NEW r, r = now \/ r = [now EXCEPT !.trailing = on]
      PROVE  /\ r \in PositionType
             /\ r.market = p.market /\ r.outcome = p.outcome /\ r.entry = p.entry
             /\ r.shares = p.shares /\ r.config = p.config
             /\ r.price = q /\ r.peak = PeakAfter(p, q)
  BY <1>3, <1>7 DEF PositionType
<1>8. QED
  BY <1>6, <1>7 DEF KeyOf

\* The positions after the one at c has been checked at the price q.
WithChecked(c, q) == [managed EXCEPT ![c] = Checked(@, q)]

LEMMA CheckedElements ==
    ASSUME TypeOK, NEW c \in DOMAIN managed, NEW q \in Prices
    PROVE  /\ WithChecked(c, q) \in Seq(PositionType)
           /\ Len(WithChecked(c, q)) = Len(managed)
           /\ DOMAIN WithChecked(c, q) = DOMAIN managed
           /\ WithChecked(c, q)[c] = Checked(managed[c], q)
           /\ \A i \in DOMAIN managed : i # c => WithChecked(c, q)[i] = managed[i]
           /\ \A i \in DOMAIN managed :
                 /\ KeyOf(WithChecked(c, q)[i]) = KeyOf(managed[i])
                 /\ WithChecked(c, q)[i].market = managed[i].market
                 /\ WithChecked(c, q)[i].entry = managed[i].entry
                 /\ WithChecked(c, q)[i].shares = managed[i].shares
<1>1. managed \in Seq(PositionType) /\ DOMAIN managed = 1 .. Len(managed)
  BY ManagedTypes
<1>2. managed[c] \in PositionType
  BY ManagedTypes
<1>3. PICK r \in PositionType : r = Checked(managed[c], q)
  BY <1>2, CheckedTypes
<1>4. PICK w : w = WithChecked(c, q)
  OBVIOUS
<1>5. w = [managed EXCEPT ![c] = r]
  BY <1>3, <1>4 DEF WithChecked
<1>6. w \in Seq(PositionType) /\ Len(w) = Len(managed)
  BY <1>1, <1>3, <1>5, ExceptSeq
<1>7. DOMAIN w = DOMAIN managed /\ w[c] = r /\ \A i \in DOMAIN managed : i # c => w[i] = managed[i]
  BY <1>5
<1>8. /\ KeyOf(r) = KeyOf(managed[c]) /\ r.market = managed[c].market
      /\ r.entry = managed[c].entry /\ r.shares = managed[c].shares
  BY <1>2, <1>3, CheckedTypes
<1>9. QED
  BY <1>3, <1>4, <1>6, <1>7, <1>8

LEMMA NewPosition ==
    ASSUME NEW m \in Market, NEW o \in Outcome, NEW price \in EntryPrices,
           NEW n \in Shares \cup {0}, NEW config \in Configs
    PROVE  Position(m, o, price, n, config) \in PositionType
BY Constants DEF Position, PositionType

-----------------------------------------------------------------------------
(* The kinds of steps.                                                     *)

\* Neither a position nor the book changes.
Idle == UNCHANGED <<bookVars, managed, pnl>>

\* The position a pass is at has been checked and stays open: it is within its
\* barriers or has no shares.
Kept ==
    /\ cursor \in DOMAIN managed
    /\ \E q \in Prices :
          /\ managed' = [managed EXCEPT ![cursor] = Checked(@, q)]
          /\ ~ShouldClose(Priced(managed[cursor], q)) \/ managed[cursor].shares = 0
    /\ UNCHANGED <<bookVars, pnl>>

LEMMA QuoteType ==
    ASSUME TypeOK, Checking
    PROVE  Quote \in Prices /\ cursor \in DOMAIN managed
<1>1. cursor \in DOMAIN managed /\ managed[cursor] \in PositionType /\ Quote # None
  BY ManagedTypes DEF Checking
<1>2. managed[cursor].market \in Market
  BY <1>1, PositionTypes
<1>3. quotes[managed[cursor].market] \in Optional(Prices)
  BY <1>2 DEF TypeOK
<1>4. QED
  BY <1>1, <1>3 DEF Quote, Current, Optional

LEMMA StepKinds ==
    ASSUME TypeOK, [Next]_vars
    PROVE  \/ Idle
           \/ Start
           \/ Kept
           \/ \E m \in Market, o \in Outcome, price \in EntryPrices, n \in Shares,
                 config \in Configs :
                 OpenFilled(m, o, price, n, config) \/ OpenRefused(m, o, price, n, config)
           \/ \E i \in DOMAIN managed, price \in Prices : Sold(i, price)
<1>1. ASSUME NEW m \in Market, SignalDropped(m) PROVE Idle
  BY <1>1 DEF SignalDropped, Idle
<1>2. ASSUME NEW q, CheckBegins(q) PROVE Idle
  BY <1>2 DEF CheckBegins, Idle
<1>3. CASE CheckSkips \/ CheckEnds \/ Tick
  BY <1>3 DEF CheckSkips, CheckEnds, Tick, Idle
<1>4. CASE CheckKeeps
  <2>1. Quote \in Prices /\ cursor \in DOMAIN managed
    BY <1>4, QuoteType DEF CheckKeeps
  <2>2. QED
    BY <1>4, <2>1 DEF CheckKeeps, Kept, Current
<1>5. CASE CheckRaises
  <2>1. Quote \in Prices /\ cursor \in DOMAIN managed
    BY <1>5, QuoteType DEF CheckRaises
  <2>2. QED
    BY <1>5, <2>1 DEF CheckRaises, Kept, Current
<1>6. ASSUME NEW i \in DOMAIN managed, ClosePosition(i)
      PROVE  \E price \in Prices : Sold(i, price)
  <2>1. managed[i].price \in Prices
    BY ManagedTypes, PositionTypes
  <2>2. QED
    BY <1>6, <2>1 DEF ClosePosition
<1>7. CASE CheckCloses
  <2>1. Quote \in Prices /\ cursor \in DOMAIN managed
    BY <1>7, QuoteType DEF CheckCloses
  <2>2. Sold(cursor, Quote)
    BY <1>7 DEF CheckCloses
  <2>3. QED
    BY <2>1, <2>2
<1>8. CASE UNCHANGED vars
  BY <1>8 DEF vars, Idle
<1>9. QED
  BY <1>1, <1>2, <1>3, <1>4, <1>5, <1>6, <1>7, <1>8, Zenon DEF Next

\* An order that is filled for a key that nobody holds.
LEMMA Bought ==
    ASSUME TypeOK, NEW m \in Market, NEW o \in Outcome, NEW price \in EntryPrices,
           NEW n \in Shares, NEW config \in Configs, OpenFilled(m, o, price, n, config)
    PROVE  /\ <<m, o>> \in Key /\ ~HasOpen(m) /\ up /\ up'
           /\ size[<<m, o>>] = 0
           /\ size' = [size EXCEPT ![<<m, o>>] = n]
           /\ cost' = [cost EXCEPT ![<<m, o>>] = @ + price * n]
           /\ realized' = realized /\ pnl' = pnl
           /\ managed' = Append(managed, Position(m, o, price, n, config))
<1> DEFINE k == <<m, o>>
<1>1. k \in Key /\ size \in [Key -> Nat] /\ n \in Nat
  BY BookTypes, PriceAssumption DEF Key, TypeOK
<1>2. Paper!Buy(k, price, n, TRUE) /\ ~HasOpen(m)
  BY DEF OpenFilled, Signal
<1>3. size[k] = 0
  BY <1>1, <1>2 DEF Paper!Buy, Paper!Duplicate
<1>4. size' = [size EXCEPT ![k] = size[k] + n]
  BY <1>2 DEF Paper!Buy, Paper!BuyFilled, Paper!SharesAfterBuy
<1>5. size' = [size EXCEPT ![k] = n]
  BY <1>1, <1>3, <1>4
<1>6. /\ up /\ up' /\ realized' = realized
      /\ cost' = [cost EXCEPT ![k] = @ + price * n]
  BY <1>2 DEF Paper!Buy, Paper!BuyFilled
<1>7. QED
  BY <1>1, <1>2, <1>3, <1>5, <1>6 DEF OpenFilled

\* A refused order changes nothing in the book.  As the market had no open
\* position, nobody holds its shares.
LEMMA Refused ==
    ASSUME TypeOK, SharesBacked,
           NEW m \in Market, NEW o \in Outcome, NEW price \in EntryPrices,
           NEW n \in Shares, NEW config \in Configs, OpenRefused(m, o, price, n, config)
    PROVE  /\ <<m, o>> \in Key /\ ~HasOpen(m) /\ up /\ up'
           /\ size[<<m, o>>] = 0
           /\ UNCHANGED <<bookVars, pnl>>
           /\ managed' = Append(managed, Position(m, o, price, 0, config))
<1> DEFINE k == <<m, o>>
<1>1. k \in Key /\ size \in [Key -> Nat]
  BY BookTypes DEF Key, TypeOK
<1>2. Paper!BuyRefused(k, price, n, TRUE) /\ ~HasOpen(m)
  BY DEF OpenRefused, Signal
<1>3. up /\ UNCHANGED bookVars
  BY <1>2 DEF Paper!BuyRefused, Paper!vars, Paper!bookVars, bookVars
<1>4. size[k] = 0
  <2>1. SUFFICES ASSUME size[k] > 0 PROVE FALSE
    BY <1>1
  <2>2. PICK i \in DOMAIN managed : KeyOf(managed[i]) = k
    BY <1>1, <2>1 DEF SharesBacked
  <2>3. managed[i].market = m
    BY <2>2 DEF KeyOf
  <2>4. QED
    BY <1>2, <2>2, <2>3 DEF HasOpen
<1>5. QED
  BY <1>1, <1>2, <1>3, <1>4 DEF OpenRefused, bookVars

\* The shares of a position that is sold are all there are of its key.
LEMMA SoldOut ==
    ASSUME TypeOK, SharesBacked, NEW i \in DOMAIN managed, NEW price \in Prices, Sold(i, price)
    PROVE  /\ KeyOf(managed[i]) \in Key /\ up /\ up'
           /\ managed[i].shares \in Shares
           /\ Paper!Sell(KeyOf(managed[i]), price, managed[i].shares)
           /\ size' = [size EXCEPT ![KeyOf(managed[i])] = 0]
           /\ cost' = [cost EXCEPT ![KeyOf(managed[i])] = 0]
           /\ realized' = realized + price * managed[i].shares - cost[KeyOf(managed[i])]
           /\ pnl' = pnl + (price - managed[i].entry) * managed[i].shares
           /\ managed' = Without(i)
<1> DEFINE k == KeyOf(managed[i])
           n == managed[i].shares
<1>1. /\ managed[i] \in PositionType /\ k \in Key
      /\ n \in Nat /\ n \in Shares \cup {0} /\ size[k] = n
      /\ size \in [Key -> Nat] /\ cost \in [Key -> Nat]
  BY ManagedTypes, PositionTypes, BookTypes DEF SharesBacked, TypeOK
<1>2. n > 0 /\ Paper!Sell(k, price, n)
  BY DEF Sold, SharesToSell
<1>3. n \in Shares
  BY <1>1, <1>2
<1>4. Paper!SellFilled(k, price, n) /\ up /\ up'
  BY <1>2 DEF Paper!Sell
<1>5. ~(n < size[k]) /\ Paper!CostOf(k, n) = cost[k]
  <2>1. PaperThms!CostOf(k, n) = cost[k]
    <3>1. size[k] > 0 /\ n = size[k]
      BY <1>1, <1>2
    <3> HIDE DEF k, n
    <3>2. QED
      BY <1>1, <3>1, PaperOk, Constants, PaperThms!CostOfType
  <2>2. PaperThms!CostOf(k, n) = Paper!CostOf(k, n)
    BY DEF PaperThms!CostOf, Paper!CostOf
  <2>3. QED
    BY <1>1, <2>1, <2>2
<1>6. /\ size' = [size EXCEPT ![k] = 0] /\ cost' = [cost EXCEPT ![k] = 0]
      /\ realized' = realized + price * n - Paper!CostOf(k, n)
  <2> HIDE DEF k, n
  <2>1. QED
    BY <1>4, <1>5 DEF Paper!SellFilled
<1>7. /\ pnl' = pnl + (price - managed[i].entry) * n /\ managed' = Without(i)
  BY DEF Sold, ProfitAt
<1>8. realized' = realized + price * n - cost[k]
  <2> HIDE DEF k, n
  <2>1. QED
    BY <1>5, <1>6
<1>9. QED
  BY <1>1, <1>2, <1>3, <1>4, <1>6, <1>7, <1>8

-----------------------------------------------------------------------------
(* Type correctness.                                                       *)

\* A process that has not started manages nothing and has earned nothing.
NotStarted == ~up => managed = << >> /\ pnl = 0

LEMMA TypeInit == Init => TypeOK
<1> SUFFICES ASSUME Init PROVE TypeOK
  OBVIOUS
<1>1. Paper!TypeOK
  BY PaperInitTypes DEF Init
<1>2. managed \in Seq(PositionType) /\ Len(managed) = 0 /\ openLimit = 0 /\ cursor = 0
  BY DEF Init
<1>3. /\ signalAge \in [Market -> 0 .. SignalCooldown]
      /\ quotes \in [Market -> Optional(Prices)]
  <2>1. SignalCooldown \in 0 .. SignalCooldown
    BY LimitAssumption
  <2>2. QED
    BY <2>1 DEF Init, NoQuotes, Optional
<1>4. QED
  BY <1>1, <1>2, <1>3 DEF Init, TypeOK

\* The ages of signals and the prices of a pass.
LEMMA MarketTypes ==
    ASSUME TypeOK, [Next]_vars
    PROVE  /\ signalAge' \in [Market -> 0 .. SignalCooldown]
           /\ quotes' \in [Market -> Optional(Prices)]
<1>1. /\ signalAge \in [Market -> 0 .. SignalCooldown]
      /\ quotes \in [Market -> Optional(Prices)]
      /\ SignalCooldown \in Nat
  BY LimitAssumption DEF TypeOK
<1>2. NoQuotes \in [Market -> Optional(Prices)]
  BY DEF NoQuotes, Optional
<1>3. ASSUME NEW m \in Market, Signal(m) PROVE signalAge' \in [Market -> 0 .. SignalCooldown]
  <2>1. 0 \in 0 .. SignalCooldown
    BY <1>1
  <2>2. signalAge' = [signalAge EXCEPT ![m] = 0]
    BY <1>3 DEF Signal
  <2>3. QED
    BY <1>1, <2>1, <2>2
<1>4. ASSUME NEW m \in Market, SignalDropped(m) PROVE UNCHANGED quotes /\ Signal(m)
  BY <1>4 DEF SignalDropped
<1>5. ASSUME NEW m \in Market, NEW o, NEW price, NEW n, NEW config,
             OpenFilled(m, o, price, n, config) \/ OpenRefused(m, o, price, n, config)
      PROVE  UNCHANGED quotes /\ Signal(m)
  BY <1>5 DEF OpenFilled, OpenRefused
<1>6. ASSUME NEW i, ClosePosition(i) PROVE UNCHANGED <<quotes, signalAge>>
  BY <1>6 DEF ClosePosition
<1>7. ASSUME NEW q \in [Market -> Optional(Prices)], CheckBegins(q)
      PROVE  quotes' = q /\ UNCHANGED signalAge
  BY <1>7 DEF CheckBegins
<1>8. CASE CheckSkips \/ CheckKeeps \/ CheckCloses \/ Start \/ UNCHANGED vars
  BY <1>1, <1>8 DEF CheckSkips, CheckKeeps, CheckCloses, Start, vars
<1>9. CASE CheckRaises \/ CheckEnds
  BY <1>1, <1>2, <1>9 DEF CheckRaises, CheckEnds, Returned
<1>10. CASE Tick
  <2>1. \A m \in Market : Older(signalAge[m]) \in 0 .. SignalCooldown
    BY <1>1 DEF Older
  <2>2. QED
    BY <1>1, <1>10, <2>1 DEF Tick
<1>11. ASSUME NEW m \in Market,
              \/ SignalDropped(m)
              \/ \E o \in Outcome, price \in EntryPrices, n \in Shares, config \in Configs :
                    OpenFilled(m, o, price, n, config) \/ OpenRefused(m, o, price, n, config)
       PROVE  /\ signalAge' \in [Market -> 0 .. SignalCooldown]
              /\ quotes' \in [Market -> Optional(Prices)]
  <2>1. UNCHANGED quotes /\ Signal(m)
    BY <1>4, <1>5, <1>11
  <2>2. QED
    BY <1>1, <1>3, <2>1
<1>12. ASSUME NEW i \in DOMAIN managed, ClosePosition(i)
       PROVE  /\ signalAge' \in [Market -> 0 .. SignalCooldown]
              /\ quotes' \in [Market -> Optional(Prices)]
  BY <1>1, <1>6, <1>12
<1>13. ASSUME NEW q \in [Market -> Optional(Prices)], CheckBegins(q)
       PROVE  /\ signalAge' \in [Market -> 0 .. SignalCooldown]
              /\ quotes' \in [Market -> Optional(Prices)]
  BY <1>1, <1>7, <1>13
<1>14. QED
  BY <1>8, <1>9, <1>10, <1>11, <1>12, <1>13, Zenon DEF Next

\* The positions, their number and the place a pass is at.
Typed ==
    /\ managed \in Seq(PositionType) /\ Len(managed) <= openLimit
    /\ openLimit \in OpenLimits \cup {0}
    /\ cursor \in 0 .. Len(managed) + 1

LEMMA ManagedStep ==
    ASSUME TypeOK, NotStarted, SharesBacked, [Next]_vars
    PROVE  Typed'
<1>1. /\ managed \in Seq(PositionType) /\ Len(managed) \in Nat
      /\ DOMAIN managed = 1 .. Len(managed) /\ Len(managed) <= openLimit
      /\ openLimit \in OpenLimits \cup {0} /\ openLimit \in Nat
      /\ cursor \in 0 .. Len(managed) + 1
      /\ OpenLimits \subseteq Nat
  BY ManagedTypes, LimitAssumption DEF TypeOK
<1>2. /\ managed' = managed /\ openLimit' = openLimit
      /\ \/ cursor' = cursor \/ cursor' = 0 \/ cursor' = 1
         \/ cursor \in DOMAIN managed /\ cursor' = cursor + 1
      => Typed'
  BY <1>1 DEF Typed
<1>3. CASE \/ CheckSkips \/ CheckEnds \/ Tick \/ UNCHANGED vars
           \/ \E m \in Market : SignalDropped(m)
           \/ \E q \in [Market -> Optional(Prices)] : CheckBegins(q)
  <2>1. managed' = managed /\ openLimit' = openLimit
    BY <1>3 DEF CheckSkips, CheckEnds, Returned, Tick, vars, SignalDropped, CheckBegins
  <2>2. \/ cursor' = cursor \/ cursor' = 0 \/ cursor' = 1
        \/ cursor \in DOMAIN managed /\ cursor' = cursor + 1
    BY <1>3 DEF CheckSkips, CheckEnds, Returned, Tick, vars, SignalDropped, CheckBegins
  <2>3. QED
    BY <1>2, <2>1, <2>2
<1>4. CASE Start
  <2>1. managed = << >> /\ UNCHANGED <<managed, cursor>> /\ openLimit' \in OpenLimits
    BY <1>4 DEF Start, Paper!Start, NotStarted
  <2>2. Len(managed') = 0 /\ openLimit' \in Nat
    BY <1>1, <2>1
  <2>3. QED
    BY <1>1, <2>1, <2>2 DEF Typed
<1>5. CASE CheckKeeps \/ CheckRaises
  <2>1. Quote \in Prices /\ cursor \in DOMAIN managed
    BY <1>5, QuoteType DEF CheckKeeps, CheckRaises
  <2>2. /\ managed' = [managed EXCEPT ![cursor] = Checked(@, Quote)] /\ openLimit' = openLimit
        /\ cursor' = 0 \/ cursor' = cursor + 1
    BY <1>5 DEF CheckKeeps, CheckRaises, Returned
  <2>3. PICK c \in DOMAIN managed, q \in Prices : c = cursor /\ q = Quote
    BY <2>1
  <2>4. managed' = WithChecked(c, q)
    BY <2>2, <2>3 DEF WithChecked
  <2>5. managed' \in Seq(PositionType) /\ Len(managed') = Len(managed)
    BY <2>4, CheckedElements
  <2>6. QED
    BY <1>1, <2>1, <2>2, <2>5 DEF Typed
<1>6. ASSUME NEW m \in Market, NEW o \in Outcome, NEW price \in EntryPrices, NEW n \in Shares,
             NEW config \in Configs,
             OpenFilled(m, o, price, n, config) \/ OpenRefused(m, o, price, n, config)
      PROVE  Typed'
  <2>1. /\ ~(Len(managed) >= openLimit) /\ UNCHANGED <<openLimit, cursor>>
        /\ \E l \in {n, 0} : managed' = Append(managed, Position(m, o, price, l, config))
    BY <1>6 DEF OpenFilled, OpenRefused, Full
  <2>2. PICK l \in Shares \cup {0} : managed' = Append(managed, Position(m, o, price, l, config))
    BY <2>1
  <2>3. PICK p \in PositionType : managed' = Append(managed, p)
    BY <2>2, NewPosition
  <2>4. managed' \in Seq(PositionType) /\ Len(managed') = Len(managed) + 1
    BY <2>3, AppendElements
  <2>5. QED
    BY <1>1, <2>1, <2>4 DEF Typed
<1>7. ASSUME NEW i \in DOMAIN managed,
             \/ ClosePosition(i)
             \/ CheckCloses /\ i = cursor
      PROVE  Typed'
  <2>1. /\ managed' = Without(i) /\ openLimit' = openLimit
        /\ cursor' = cursor /\ (cursor = 0 \/ cursor = i)
    BY <1>7 DEF ClosePosition, CheckCloses, Sold, CursorAfterClose
  <2>2. managed' \in Seq(PositionType) /\ Len(managed') = Len(managed) - 1
    BY <2>1, WithoutProperties
  <2>3. QED
    BY <1>1, <2>1, <2>2 DEF Typed
<1>8. CASE CheckCloses
  <2>1. PICK i \in DOMAIN managed : i = cursor
    BY <1>8 DEF CheckCloses, Checking
  <2>2. QED
    BY <1>7, <1>8, <2>1
<1>9. ASSUME NEW m \in Market,
             \E o \in Outcome, price \in EntryPrices, n \in Shares, config \in Configs :
                OpenFilled(m, o, price, n, config) \/ OpenRefused(m, o, price, n, config)
      PROVE  Typed'
  BY <1>6, <1>9
<1>10. ASSUME NEW i \in DOMAIN managed, ClosePosition(i)
       PROVE  Typed'
  BY <1>7, <1>10
<1>11. QED
  BY <1>3, <1>4, <1>5, <1>8, <1>9, <1>10, Zenon DEF Next

LEMMA TypeStep ==
    ASSUME TypeOK, NotStarted, SharesBacked, [Next]_vars
    PROVE  TypeOK' /\ NotStarted'
<1>0. Paper!TypeOK /\ realized \in Int /\ pnl \in Int
  BY BookTypes DEF TypeOK
<1>1. ASSUME Paper!TypeOK', pnl' \in Int PROVE TypeOK'
  BY <1>1, MarketTypes, ManagedStep DEF TypeOK, Typed
<1>2. CASE Idle
  <2>1. Paper!TypeOK' /\ pnl' \in Int
    BY <1>0, <1>2, PaperTypes DEF Idle
  <2>2. QED
    BY <1>1, <1>2, <2>1 DEF Idle, NotStarted, bookVars
<1>3. CASE Start
  <2>1. Paper!TypeOK'
    BY <1>0, <1>3, PaperTypes DEF Start
  <2>2. pnl' \in Int /\ up'
    BY <1>0, <1>3 DEF Start, Paper!Start
  <2>3. QED
    BY <1>1, <2>1, <2>2 DEF NotStarted
<1>4. CASE Kept
  <2>1. Paper!TypeOK' /\ pnl' \in Int
    BY <1>0, <1>4, PaperTypes DEF Kept
  <2>2. up' = up /\ pnl' = pnl /\ managed # << >>
    BY <1>4, ManagedTypes DEF Kept, bookVars
  <2>3. QED
    BY <1>1, <2>1, <2>2 DEF NotStarted
<1>5. ASSUME NEW m \in Market, NEW o \in Outcome, NEW price \in EntryPrices, NEW n \in Shares,
             NEW config \in Configs, OpenFilled(m, o, price, n, config)
      PROVE  TypeOK' /\ NotStarted'
  <2>1. <<m, o>> \in Key /\ up' /\ pnl' = pnl /\ price \in Prices
    BY <1>5, Bought, PriceAssumption
  <2>2. Paper!Buy(<<m, o>>, price, n, TRUE)
    BY <1>5 DEF OpenFilled
  <2>3. Paper!TypeOK'
    BY <1>0, <2>1, <2>2, PaperTypes
  <2>4. QED
    BY <1>0, <1>1, <2>1, <2>3 DEF NotStarted
<1>6. ASSUME NEW m \in Market, NEW o \in Outcome, NEW price \in EntryPrices, NEW n \in Shares,
             NEW config \in Configs, OpenRefused(m, o, price, n, config)
      PROVE  TypeOK' /\ NotStarted'
  <2>1. UNCHANGED <<bookVars, pnl>> /\ up'
    BY <1>6, Refused
  <2>2. Paper!TypeOK'
    BY <1>0, <2>1, PaperTypes
  <2>3. QED
    BY <1>0, <1>1, <2>1, <2>2 DEF NotStarted
<1>7. ASSUME NEW i \in DOMAIN managed, NEW price \in Prices, Sold(i, price)
      PROVE  TypeOK' /\ NotStarted'
  <2> DEFINE n == managed[i].shares
             entry == managed[i].entry
  <2>1. /\ KeyOf(managed[i]) \in Key /\ up' /\ n \in Shares
        /\ Paper!Sell(KeyOf(managed[i]), price, n)
        /\ pnl' = pnl + (price - entry) * n
    BY <1>7, SoldOut
  <2>2. n \in Nat /\ entry \in Nat /\ price \in Nat
    BY ManagedTypes, PositionTypes, PaperOk
  <2>3. Paper!TypeOK'
    BY <1>0, <2>1, PaperTypes
  <2> HIDE DEF n, entry
  <2>4. pnl' \in Int
    BY <1>0, <2>1, <2>2
  <2>5. QED
    BY <1>1, <2>1, <2>3, <2>4 DEF NotStarted
<1>8. QED
  BY <1>2, <1>3, <1>4, <1>5, <1>6, <1>7, StepKinds, Zenon

-----------------------------------------------------------------------------
(* The positions that are managed and the book of the paper executor.  What *)
(* the executor paid for a key is what the open position paid, so what it  *)
(* realizes when the position is closed is the profit close_position adds. *)

CostBacked ==
    /\ \A i \in DOMAIN managed :
          cost[KeyOf(managed[i])] = managed[i].entry * managed[i].shares
    /\ \A k \in Key : size[k] = 0 => cost[k] = 0

Backed == OneOpenPerMarket /\ SharesBacked /\ CostBacked

\* Nothing of the book or of the identity of a position changes.
LEMMA SameBacked ==
    ASSUME Backed, UNCHANGED <<size, cost>>, NEW w, managed' = w, DOMAIN w = DOMAIN managed,
           \A i \in DOMAIN managed :
              /\ KeyOf(w[i]) = KeyOf(managed[i]) /\ w[i].market = managed[i].market
              /\ w[i].entry = managed[i].entry /\ w[i].shares = managed[i].shares
    PROVE  Backed'
<1>1. OneOpenPerMarket'
  BY DEF Backed, OneOpenPerMarket
<1>2. SharesBacked'
  BY DEF Backed, SharesBacked
<1>3. CostBacked'
  BY DEF Backed, CostBacked
<1>4. QED
  BY <1>1, <1>2, <1>3 DEF Backed

\* A position is added for a market without one; its shares, if it got any, are
\* the only ones of its key.
LEMMA AddedBacked ==
    ASSUME TypeOK, Backed, NEW p \in PositionType, ~HasOpen(p.market),
           managed' = Append(managed, p),
           size' = [size EXCEPT ![KeyOf(p)] = p.shares],
           cost' = [cost EXCEPT ![KeyOf(p)] = p.entry * p.shares],
           p.shares = 0 => p.entry * p.shares = 0
    PROVE  Backed'
<1> DEFINE last == Len(managed) + 1
<1>1. PICK w : w = Append(managed, p)
  OBVIOUS
<1>2. /\ DOMAIN w = 1 .. last /\ w[last] = p
      /\ \A i \in DOMAIN managed : i \in DOMAIN w /\ w[i] = managed[i]
  BY <1>1, AppendElements
<1>3. /\ Len(managed) \in Nat /\ DOMAIN managed = 1 .. Len(managed)
      /\ \A i \in DOMAIN managed : managed[i] \in PositionType
  BY ManagedTypes
<1>4. last \in DOMAIN w /\ \A i \in DOMAIN w : i \in DOMAIN managed \/ i = last
  BY <1>2, <1>3
<1>5. KeyOf(p) \in Key /\ \A i \in DOMAIN managed : KeyOf(managed[i]) \in Key
  BY <1>3, PositionTypes
<1>6. \A i \in DOMAIN managed : managed[i].market # p.market /\ KeyOf(managed[i]) # KeyOf(p)
  BY DEF HasOpen, KeyOf
<1>7. size \in [Key -> Nat] /\ cost \in [Key -> Nat] /\ managed' = w
  BY <1>1, BookTypes DEF TypeOK
<1> HIDE DEF last
<1>8. OneOpenPerMarket'
  BY <1>2, <1>4, <1>6, <1>7 DEF Backed, OneOpenPerMarket
<1>9. /\ size'[KeyOf(p)] = p.shares /\ cost'[KeyOf(p)] = p.entry * p.shares
      /\ \A k \in Key : k # KeyOf(p) => size'[k] = size[k] /\ cost'[k] = cost[k]
  BY <1>5, <1>7
<1>10. SharesBacked'
  <2>1. ASSUME NEW i \in DOMAIN w PROVE size'[KeyOf(w[i])] = w[i].shares
    BY <1>2, <1>4, <1>5, <1>6, <1>9 DEF Backed, SharesBacked
  <2>2. ASSUME NEW k \in Key, size'[k] > 0 PROVE \E i \in DOMAIN w : KeyOf(w[i]) = k
    <3>1. CASE k = KeyOf(p)
      BY <1>2, <1>4, <3>1
    <3>2. CASE k # KeyOf(p)
      BY <1>2, <1>9, <2>2, <3>2 DEF Backed, SharesBacked
    <3>3. QED
      BY <3>1, <3>2
  <2>3. QED
    BY <1>7, <2>1, <2>2 DEF SharesBacked
<1>11. CostBacked'
  <2>1. ASSUME NEW i \in DOMAIN w
        PROVE  cost'[KeyOf(w[i])] = w[i].entry * w[i].shares
    <3>1. CASE i = last
      BY <1>2, <1>9, <3>1
    <3>2. CASE i \in DOMAIN managed
      BY <1>2, <1>5, <1>6, <1>9, <3>2 DEF Backed, CostBacked
    <3>3. QED
      BY <1>4, <3>1, <3>2
  <2>2. ASSUME NEW k \in Key, size'[k] = 0 PROVE cost'[k] = 0
    BY <1>9, <2>2 DEF Backed, CostBacked
  <2>3. QED
    BY <1>7, <2>1, <2>2 DEF CostBacked
<1>12. QED
  BY <1>8, <1>10, <1>11 DEF Backed

\* A position is closed, and its key emptied.
LEMMA RemovedBacked ==
    ASSUME TypeOK, Backed, NEW c \in DOMAIN managed,
           managed' = Without(c),
           size' = [size EXCEPT ![KeyOf(managed[c])] = 0],
           cost' = [cost EXCEPT ![KeyOf(managed[c])] = 0]
    PROVE  Backed'
<1>1. PICK w : w = Without(c)
  OBVIOUS
<1>2. PICK key \in Key : key = KeyOf(managed[c])
  BY ManagedTypes, PositionTypes
<1>3. /\ \A j \in DOMAIN w :
            \E l \in DOMAIN managed :
               l = (IF j < c THEN j ELSE j + 1) /\ w[j] = managed[l] /\ l # c
      /\ \A l \in DOMAIN managed : l # c => \E j \in DOMAIN w : w[j] = managed[l]
  BY <1>1, WithoutElements
<1>4. /\ DOMAIN managed \subseteq Int /\ DOMAIN w \subseteq Int /\ c \in Int
      /\ \A i \in DOMAIN managed : KeyOf(managed[i]) \in Key
  <2>1. DOMAIN w = 1 .. Len(managed) - 1 /\ DOMAIN managed = 1 .. Len(managed)
    BY <1>1, ManagedTypes, WithoutProperties, Zenon
  <2>2. \A i \in DOMAIN managed : KeyOf(managed[i]) \in Key
    BY ManagedTypes, PositionTypes
  <2>3. QED
    BY <2>1, <2>2
<1>5. \A l \in DOMAIN managed : l # c => KeyOf(managed[l]) # key
  BY <1>2, SameKey DEF Backed, OneOpenPerMarket
<1>6. size \in [Key -> Nat] /\ cost \in [Key -> Nat] /\ managed' = w
  BY <1>1, BookTypes DEF TypeOK
<1>7. /\ size'[key] = 0 /\ cost'[key] = 0
      /\ \A k \in Key : k # key => size'[k] = size[k] /\ cost'[k] = cost[k]
  BY <1>2, <1>6
<1>8. OneOpenPerMarket'
  <2>1. ASSUME NEW i \in DOMAIN w, NEW j \in DOMAIN w, w[i].market = w[j].market
        PROVE  i = j
    <3>1. PICK l \in DOMAIN managed : l = (IF i < c THEN i ELSE i + 1) /\ w[i] = managed[l]
      BY <1>3
    <3>2. PICK h \in DOMAIN managed : h = (IF j < c THEN j ELSE j + 1) /\ w[j] = managed[h]
      BY <1>3
    <3>3. l = h
      BY <2>1, <3>1, <3>2 DEF Backed, OneOpenPerMarket
    <3>4. i \in Int /\ j \in Int
      BY <1>4
    <3>5. QED
      BY <1>4, <3>1, <3>2, <3>3, <3>4
  <2>2. QED
    BY <1>6, <2>1 DEF OneOpenPerMarket
<1>9. SharesBacked'
  <2>1. ASSUME NEW i \in DOMAIN w PROVE size'[KeyOf(w[i])] = w[i].shares
    <3>1. PICK l \in DOMAIN managed : w[i] = managed[l] /\ l # c
      BY <1>3
    <3>2. QED
      BY <1>4, <1>5, <1>7, <3>1 DEF Backed, SharesBacked
  <2>2. ASSUME NEW k \in Key, size'[k] > 0 PROVE \E i \in DOMAIN w : KeyOf(w[i]) = k
    <3>1. k # key /\ size[k] > 0
      BY <1>7, <2>2
    <3>2. PICK l \in DOMAIN managed : KeyOf(managed[l]) = k
      BY <3>1 DEF Backed, SharesBacked
    <3>3. l # c
      BY <1>2, <3>1, <3>2
    <3>4. QED
      BY <1>3, <3>2, <3>3
  <2>3. QED
    BY <1>6, <2>1, <2>2 DEF SharesBacked
<1>10. CostBacked'
  <2>1. ASSUME NEW i \in DOMAIN w
        PROVE  cost'[KeyOf(w[i])] = w[i].entry * w[i].shares
    <3>1. PICK l \in DOMAIN managed : w[i] = managed[l] /\ l # c
      BY <1>3
    <3>2. QED
      BY <1>4, <1>5, <1>7, <3>1 DEF Backed, CostBacked
  <2>2. ASSUME NEW k \in Key, size'[k] = 0 PROVE cost'[k] = 0
    BY <1>7, <2>2 DEF Backed, CostBacked
  <2>3. QED
    BY <1>6, <2>1, <2>2 DEF CostBacked
<1>11. QED
  BY <1>8, <1>9, <1>10 DEF Backed

\* The conjuncts that need each other.
BookInv == TypeOK /\ NotStarted /\ Backed /\ PnlMatchesBook

LEMMA BookInit == Init => BookInv
<1> SUFFICES ASSUME Init PROVE BookInv
  OBVIOUS
<1>1. /\ managed = << >> /\ DOMAIN managed = {} /\ pnl = 0 /\ realized = 0
      /\ \A k \in Key : size[k] = 0 /\ cost[k] = 0
  BY DEF Init, Paper!Init
<1>2. \A k \in Key : ~(size[k] > 0)
  BY <1>1
<1>3. Backed
  BY <1>1, <1>2 DEF Backed, OneOpenPerMarket, SharesBacked, CostBacked
<1>4. QED
  BY <1>1, <1>3, TypeInit DEF BookInv, NotStarted, PnlMatchesBook

LEMMA BookStep ==
    ASSUME BookInv, [Next]_vars
    PROVE  BookInv'
<1>0. TypeOK /\ NotStarted /\ Backed /\ SharesBacked /\ CostBacked /\ pnl = realized
  BY DEF BookInv, Backed, PnlMatchesBook
<1>1. TypeOK' /\ NotStarted'
  BY <1>0, TypeStep
<1>2. ASSUME Backed', pnl' = realized' PROVE BookInv'
  BY <1>1, <1>2 DEF BookInv, PnlMatchesBook
<1>3. CASE Idle
  <2>1. Backed'
    BY <1>0, <1>3
       DEF Idle, bookVars, Backed, OneOpenPerMarket, SharesBacked, CostBacked
  <2>2. QED
    BY <1>0, <1>2, <1>3, <2>1 DEF Idle, bookVars
<1>4. CASE Start
  <2>1. /\ managed = << >> /\ managed' = managed /\ pnl = 0 /\ pnl' = pnl /\ realized' = 0
        /\ \A k \in Key : size'[k] = 0 /\ cost'[k] = 0
    BY <1>0, <1>4 DEF Start, Paper!Start, Paper!BookBecomes, Paper!Fresh, NotStarted
  <2>2. DOMAIN managed' = {} /\ \A k \in Key : ~(size'[k] > 0)
    BY <2>1
  <2>3. Backed'
    BY <2>1, <2>2 DEF Backed, OneOpenPerMarket, SharesBacked, CostBacked
  <2>4. QED
    BY <1>2, <2>1, <2>3
<1>5. CASE Kept
  <2>1. PICK c \in DOMAIN managed, q \in Prices :
           c = cursor /\ managed' = [managed EXCEPT ![cursor] = Checked(@, q)]
    BY <1>5 DEF Kept
  <2>2. PICK w : w = WithChecked(c, q)
    OBVIOUS
  <2>3. managed' = w
    BY <2>1, <2>2 DEF WithChecked
  <2>4. /\ DOMAIN w = DOMAIN managed
        /\ \A i \in DOMAIN managed :
              /\ KeyOf(w[i]) = KeyOf(managed[i]) /\ w[i].market = managed[i].market
              /\ w[i].entry = managed[i].entry /\ w[i].shares = managed[i].shares
    BY <1>0, <2>2, CheckedElements
  <2>5. UNCHANGED <<size, cost>> /\ pnl' = pnl /\ realized' = realized
    BY <1>5 DEF Kept, bookVars
  <2>6. Backed'
    BY <1>0, <2>3, <2>4, <2>5, SameBacked
  <2>7. QED
    BY <1>0, <1>2, <2>5, <2>6
<1>6. ASSUME NEW m \in Market, NEW o \in Outcome, NEW price \in EntryPrices, NEW n \in Shares,
             NEW config \in Configs, OpenFilled(m, o, price, n, config)
      PROVE  BookInv'
  <2>1. PICK p \in PositionType : p = Position(m, o, price, n, config)
    BY NewPosition
  <2>2. /\ KeyOf(p) = <<m, o>> /\ p.market = m /\ p.entry = price /\ p.shares = n
    BY <2>1 DEF Position, KeyOf
  <2>3. /\ <<m, o>> \in Key /\ ~HasOpen(m) /\ size[<<m, o>>] = 0
        /\ size' = [size EXCEPT ![<<m, o>>] = n]
        /\ cost' = [cost EXCEPT ![<<m, o>>] = @ + price * n]
        /\ realized' = realized /\ pnl' = pnl
        /\ managed' = Append(managed, Position(m, o, price, n, config))
    BY <1>0, <1>6, Bought
  <2>4. PICK paid \in Nat : paid = price * n
    <3>1. price \in Nat /\ n \in Nat
      BY PriceAssumption, PaperOk
    <3>2. QED
      BY <3>1
  <2>5. cost[<<m, o>>] + paid = paid
    BY <1>0, <2>3, <2>4 DEF CostBacked
  <2>6. cost' = [cost EXCEPT ![<<m, o>>] = p.entry * p.shares]
    BY <2>2, <2>3, <2>4, <2>5
  <2>7. p.shares # 0
    BY <2>2, PriceAssumption
  <2>8. Backed'
    BY <1>0, <2>1, <2>2, <2>3, <2>6, <2>7, AddedBacked
  <2>9. QED
    BY <1>0, <1>2, <2>3, <2>8
<1>7. ASSUME NEW m \in Market, NEW o \in Outcome, NEW price \in EntryPrices, NEW n \in Shares,
             NEW config \in Configs, OpenRefused(m, o, price, n, config)
      PROVE  BookInv'
  <2>1. PICK p \in PositionType : p = Position(m, o, price, 0, config)
    BY NewPosition
  <2>2. /\ KeyOf(p) = <<m, o>> /\ p.market = m /\ p.entry = price /\ p.shares = 0
    BY <2>1 DEF Position, KeyOf
  <2>3. /\ <<m, o>> \in Key /\ ~HasOpen(m) /\ size[<<m, o>>] = 0
        /\ size' = size /\ cost' = cost /\ realized' = realized /\ pnl' = pnl
        /\ managed' = Append(managed, Position(m, o, price, 0, config))
    BY <1>0, <1>7, Refused DEF bookVars
  <2>4. p.entry * p.shares = 0
    <3>1. p.entry \in Nat /\ p.shares = 0
      BY <2>2, PaperOk, PositionTypes
    <3>2. QED
      BY <3>1
  <2>5. size \in [Key -> Nat] /\ cost \in [Key -> Nat] /\ cost[<<m, o>>] = 0
    BY <1>0, <2>3, BookTypes DEF CostBacked, TypeOK
  <2>6. /\ size' = [size EXCEPT ![KeyOf(p)] = p.shares]
        /\ cost' = [cost EXCEPT ![KeyOf(p)] = p.entry * p.shares]
    BY <2>2, <2>3, <2>4, <2>5
  <2>7. Backed'
    BY <1>0, <2>1, <2>2, <2>3, <2>4, <2>6, AddedBacked
  <2>8. QED
    BY <1>0, <1>2, <2>3, <2>7
<1>8. ASSUME NEW i \in DOMAIN managed, NEW price \in Prices, Sold(i, price)
      PROVE  BookInv'
  <2> DEFINE n == managed[i].shares
             entry == managed[i].entry
  <2>1. /\ size' = [size EXCEPT ![KeyOf(managed[i])] = 0]
        /\ cost' = [cost EXCEPT ![KeyOf(managed[i])] = 0]
        /\ realized' = realized + price * n - cost[KeyOf(managed[i])]
        /\ pnl' = pnl + (price - entry) * n
        /\ managed' = Without(i)
    BY <1>0, <1>8, SoldOut
  <2>2. Backed'
    BY <1>0, <2>1, RemovedBacked
  <2>3. /\ n \in Nat /\ entry \in Nat /\ price \in Nat
        /\ cost[KeyOf(managed[i])] = entry * n /\ realized \in Int /\ pnl \in Int
    BY <1>0, ManagedTypes, PositionTypes, PaperOk, BookTypes DEF CostBacked, TypeOK
  <2> HIDE DEF n, entry
  <2>4. (price - entry) * n = price * n - entry * n
    BY <2>3
  <2>5. PICK got \in Int, paid \in Int : got = price * n /\ paid = entry * n
    BY <2>3
  <2>6. pnl' = realized'
    BY <1>0, <2>1, <2>3, <2>4, <2>5
  <2>7. QED
    BY <1>2, <2>2, <2>6
<1>9. QED
  BY <1>0, <1>3, <1>4, <1>5, <1>6, <1>7, <1>8, StepKinds, Zenon

LEMMA BookAlways == Spec => []BookInv
BY BookInit, BookStep, PTL DEF Spec

\* The positions, the book and the place of a pass have their types in every
\* reachable state: no more positions are open than the executor's limit
\* (open_position), and cash is never negative.
THEOREM TypeCorrect == Spec => []TypeOK
<1>1. BookInv => TypeOK
  BY DEF BookInv
<1>2. QED
  BY <1>1, BookAlways, PTL

\* process_market looks for an open position before it signals, so a market has
\* one at most, over both outcomes.
THEOREM OnePerMarket == Spec => []OneOpenPerMarket
<1>1. BookInv => OneOpenPerMarket
  BY DEF BookInv, Backed
<1>2. QED
  BY <1>1, BookAlways, PTL

\* What the position executor manages and what the paper executor holds agree,
\* share by share, although neither looks at the other's records.
THEOREM SharesAgree == Spec => []SharesBacked
<1>1. BookInv => SharesBacked
  BY DEF BookInv, Backed
<1>2. QED
  BY <1>1, BookAlways, PTL

\* The profit close_position adds up is the profit the paper executor realizes,
\* for any prices and sizes: an average price is that of one order.
THEOREM ProfitAgrees == Spec => []PnlMatchesBook
<1>1. BookInv => PnlMatchesBook
  BY DEF BookInv
<1>2. QED
  BY <1>1, BookAlways, PTL

-----------------------------------------------------------------------------
(* Barriers.                                                               *)

\* A check changes the price, the peak and the trailing stop of a position.
LEMMA CheckedFields ==
    ASSUME NEW p \in PositionType, NEW q \in Prices
    PROVE  /\ Priced(p, q) \in PositionType
           /\ Priced(p, q).config = p.config /\ Priced(p, q).entry = p.entry
           /\ Priced(p, q).outcome = p.outcome /\ Priced(p, q).price = q
           /\ Priced(p, q).peak = PeakAfter(p, q) /\ Priced(p, q).trailing = p.trailing
           /\ Checked(p, q).trailing => p.trailing \/ Activated(Priced(p, q))
<1>1. PICK now : now = Priced(p, q)
  OBVIOUS
<1>2. now = [p EXCEPT !.price = q, !.peak = PeakAfter(p, q)] /\ PeakAfter(p, q) \in Prices
  BY <1>1 DEF Priced, PeakAfter, PositionType
<1>3. /\ now \in PositionType /\ now.config = p.config /\ now.entry = p.entry
      /\ now.outcome = p.outcome /\ now.price = q
      /\ now.peak = PeakAfter(p, q) /\ now.trailing = p.trailing
  BY <1>2 DEF PositionType
<1>4. PICK on : on = (Activated(now) \/ now.trailing)
  OBVIOUS
<1>5. \/ Checked(p, q) = now
      \/ Checked(p, q) = [now EXCEPT !.trailing = on]
  BY <1>1, <1>4 DEF Checked
<1>6. [now EXCEPT !.trailing = on].trailing = on
  BY <1>3 DEF PositionType
<1>7. Checked(p, q).trailing => p.trailing \/ Activated(now)
  BY <1>3, <1>4, <1>5, <1>6
<1>8. QED
  BY <1>1, <1>3, <1>7

\* What is said of one position: a trailing stop that is on has seen its activation,
\* and the position has lost less than the delta since, if it can be sold.
LockedAt(p) ==
    p.outcome = "Yes" /\ p.trailing =>
        /\ p.config.trail # None
        /\ 100 * Gain(p, p.peak) >= p.config.trail.activation * Base(p)
        /\ p.shares > 0 =>
              100 * (Gain(p, p.peak) - Gain(p, p.price)) < p.config.trail.delta * Base(p)

\* The amounts a trailing stop is computed from are numbers.
LEMMA TrailNumbers ==
    ASSUME NEW p \in PositionType
    PROVE  /\ Base(p) \in Nat /\ \A x \in Prices : x \in Nat /\ Gain(p, x) \in Int
           /\ p.price \in Prices /\ p.peak \in Prices
           /\ p.config.trail # None =>
                 p.config.trail.activation \in Nat /\ p.config.trail.delta \in Nat
<1>1. p.config \in Configs /\ p.config \in Barriers /\ p.entry \in 1 .. One - 1
      /\ p.outcome \in Outcome
  BY PositionTypes, ConfigAssumption, PriceAssumption
<1>2. p.config.trail # None => p.config.trail \in [activation : Nat, delta : Nat]
  BY <1>1 DEF Barriers, Optional
<1>3. Base(p) \in Nat
  BY <1>1, PriceAssumption DEF Base
<1>4. \A x \in Prices : x \in Nat /\ Gain(p, x) \in Int
  BY <1>1, PriceAssumption DEF Gain
<1>5. p.price \in Prices /\ p.peak \in Prices
  BY PositionTypes
<1>6. QED
  BY <1>2, <1>3, <1>4, <1>5

\* For Yes the gain at the peak grows with the peak.
LEMMA CheckedLocked ==
    ASSUME NEW p \in PositionType, NEW q \in Prices, LockedAt(p),
           ~ShouldClose(Priced(p, q)) \/ p.shares = 0
    PROVE  LockedAt(Checked(p, q))
<1>1. PICK r \in PositionType : r = Checked(p, q)
  BY CheckedTypes
<1>2. PICK now \in PositionType : now = Priced(p, q)
  BY CheckedFields
<1>3. /\ r.entry = p.entry /\ r.outcome = p.outcome /\ r.config = p.config
      /\ r.shares = p.shares /\ r.price = q /\ r.peak = PeakAfter(p, q)
      /\ r.trailing => p.trailing \/ Activated(now)
  BY <1>1, <1>2, CheckedTypes, CheckedFields
<1>4. /\ now.entry = p.entry /\ now.outcome = p.outcome /\ now.config = p.config
      /\ now.price = q /\ now.peak = r.peak /\ now.trailing = p.trailing
  BY <1>2, <1>3, CheckedFields
<1>5. /\ Base(r) = Base(p) /\ \A x : Gain(r, x) = Gain(p, x)
      /\ Base(now) = Base(p) /\ \A x : Gain(now, x) = Gain(p, x)
  BY <1>3, <1>4 DEF Base, Gain
<1>6. SUFFICES ASSUME p.outcome = "Yes", r.trailing
               PROVE  /\ p.config.trail # None
                      /\ 100 * Gain(p, r.peak) >= p.config.trail.activation * Base(p)
                      /\ p.shares > 0 =>
                            100 * (Gain(p, r.peak) - Gain(p, q)) < p.config.trail.delta * Base(p)
  BY <1>1, <1>3, <1>5 DEF LockedAt
<1>7. /\ p.config.trail # None
      /\ 100 * Gain(p, r.peak) >= p.config.trail.activation * Base(p)
  <2>1. CASE Activated(now) /\ ~p.trailing
    BY <1>4, <1>5, <2>1 DEF Activated
  <2>2. CASE p.trailing
    <3>1. /\ p.config.trail # None
          /\ 100 * Gain(p, p.peak) >= p.config.trail.activation * Base(p)
      BY <1>6, <2>2 DEF LockedAt
    <3>2. PICK t \in Nat : t = p.config.trail.activation * Base(p)
      BY <3>1, TrailNumbers
    <3>3. p.peak \in Nat /\ q \in Nat /\ p.entry \in Nat
      BY PositionTypes, TrailNumbers, PaperOk
    <3>4. r.peak \in Nat /\ r.peak >= p.peak
      BY <1>3, <3>3 DEF PeakAfter
    <3>5. 100 * Gain(p, r.peak) >= t
      BY <1>6, <3>1, <3>2, <3>3, <3>4 DEF Gain
    <3>6. QED
      BY <3>1, <3>2, <3>5
  <2>3. QED
    BY <1>3, <1>6, <2>1, <2>2
<1>8. ASSUME p.shares > 0
      PROVE  100 * (Gain(p, r.peak) - Gain(p, q)) < p.config.trail.delta * Base(p)
  <2>1. p.shares # 0
    BY <1>8
  <2>2. ~TrailHit(now)
    BY <1>2, <2>1 DEF ShouldClose
  <2>3. Activated(now)
    BY <1>3, <1>4, <1>6, <1>7 DEF Activated
  <2>4. ~(100 * (Gain(p, r.peak) - Gain(p, q)) >= p.config.trail.delta * Base(p))
    BY <1>4, <1>5, <2>2, <2>3 DEF TrailHit
  <2>5. PICK t \in Nat : t = p.config.trail.delta * Base(p)
    BY <1>7, TrailNumbers
  <2>6. PICK lost \in Int : lost = 100 * (Gain(p, r.peak) - Gain(p, q))
    <3>1. r.peak \in Prices
      BY TrailNumbers
    <3>2. Gain(p, r.peak) \in Int /\ Gain(p, q) \in Int
      BY <3>1, TrailNumbers
    <3>3. QED
      BY <3>2
  <2>7. QED
    BY <2>4, <2>5, <2>6
<1>9. QED
  BY <1>7, <1>8

TrailInv == \A i \in DOMAIN managed : LockedAt(managed[i])

LEMMA TrailStep ==
    ASSUME BookInv, TrailInv, [Next]_vars
    PROVE  TrailInv'
<1>0. TypeOK /\ SharesBacked /\ NotStarted
  BY DEF BookInv, Backed
<1>1. CASE Idle
  BY <1>1 DEF Idle, TrailInv
<1>2. CASE Start
  BY <1>2 DEF Start, TrailInv
<1>3. CASE Kept
  <2>1. PICK c \in DOMAIN managed, q \in Prices :
          /\ c = cursor /\ managed' = [managed EXCEPT ![cursor] = Checked(@, q)]
          /\ ~ShouldClose(Priced(managed[cursor], q)) \/ managed[cursor].shares = 0
    BY <1>3 DEF Kept
  <2>2. PICK w : w = WithChecked(c, q)
    OBVIOUS
  <2>3. managed' = w
    BY <2>1, <2>2 DEF WithChecked
  <2>4. /\ DOMAIN w = DOMAIN managed /\ w[c] = Checked(managed[c], q)
        /\ \A i \in DOMAIN managed : i # c => w[i] = managed[i]
    BY <1>0, <2>2, CheckedElements
  <2>5. managed[c] \in PositionType /\ LockedAt(managed[c])
    BY <1>0, ManagedTypes DEF TrailInv
  <2>6. LockedAt(Checked(managed[c], q))
    BY <2>1, <2>5, CheckedLocked
  <2>7. \A i \in DOMAIN w : LockedAt(w[i])
    BY <2>4, <2>6 DEF TrailInv
  <2>8. QED
    BY <2>3, <2>7 DEF TrailInv
<1>4. ASSUME NEW m \in Market, NEW o \in Outcome, NEW price \in EntryPrices, NEW n \in Shares,
             NEW config \in Configs,
             OpenFilled(m, o, price, n, config) \/ OpenRefused(m, o, price, n, config)
      PROVE  TrailInv'
  <2>1. PICK l \in Shares \cup {0} : managed' = Append(managed, Position(m, o, price, l, config))
    BY <1>4 DEF OpenFilled, OpenRefused
  <2>2. PICK p \in PositionType : p = Position(m, o, price, l, config)
    BY NewPosition
  <2>3. LockedAt(p)
    BY <2>2 DEF LockedAt, Position
  <2>4. PICK w : w = Append(managed, p)
    OBVIOUS
  <2>5. /\ DOMAIN w = 1 .. Len(managed) + 1 /\ w[Len(managed) + 1] = p
        /\ \A i \in DOMAIN managed : w[i] = managed[i]
        /\ Len(managed) \in Nat /\ DOMAIN managed = 1 .. Len(managed)
    BY <1>0, <2>4, AppendElements, ManagedTypes
  <2>6. ASSUME NEW i \in DOMAIN w PROVE LockedAt(w[i])
    <3>1. i \in DOMAIN managed \/ i = Len(managed) + 1
      BY <2>5
    <3>2. QED
      BY <2>3, <2>5, <3>1 DEF TrailInv
  <2>7. QED
    BY <2>1, <2>2, <2>4, <2>6 DEF TrailInv
<1>5. ASSUME NEW c \in DOMAIN managed, NEW price \in Prices, Sold(c, price)
      PROVE  TrailInv'
  <2>1. PICK w : w = Without(c) /\ managed' = w
    BY <1>5 DEF Sold
  <2>2. \A j \in DOMAIN w : \E l \in DOMAIN managed : w[j] = managed[l]
    BY <1>0, <2>1, WithoutElements
  <2>3. \A j \in DOMAIN w : LockedAt(w[j])
    BY <2>2 DEF TrailInv
  <2>4. QED
    BY <2>1, <2>3 DEF TrailInv
<1>6. QED
  BY <1>0, <1>1, <1>2, <1>3, <1>4, <1>5, StepKinds, Zenon

\* What has been gained at the peak less what was lost since.
LEMMA LockedGain ==
    ASSUME NEW p \in PositionType, LockedAt(p),
           p.outcome = "Yes", p.shares > 0, p.trailing
    PROVE  100 * Gain(p, p.price) > (p.config.trail.activation - p.config.trail.delta) * Base(p)
<1>1. /\ p.config.trail # None
      /\ 100 * Gain(p, p.peak) >= p.config.trail.activation * Base(p)
      /\ 100 * (Gain(p, p.peak) - Gain(p, p.price)) < p.config.trail.delta * Base(p)
  BY DEF LockedAt
<1>2. PICK a \in Nat, d \in Nat, b \in Nat :
        a = p.config.trail.activation /\ d = p.config.trail.delta /\ b = Base(p)
  BY <1>1, TrailNumbers
<1>3. PICK best \in Int, now \in Int : best = Gain(p, p.peak) /\ now = Gain(p, p.price)
  BY TrailNumbers
<1>4. (a - d) * b = a * b - d * b /\ a * b \in Nat /\ d * b \in Nat
  BY <1>2
<1>5. 100 * best >= a * b /\ 100 * (best - now) < d * b
  BY <1>1, <1>2, <1>3
<1>6. 100 * now > (a - d) * b
  BY <1>3, <1>4, <1>5
<1>7. QED
  BY <1>2, <1>3, <1>6

\* A trailing stop keeps what it is set for: whatever prices the passes see, a filled
\* Yes position whose stop is on has gained more than activation less delta for as
\* long as it is open (execution/barriers.py, position_executor.py).
THEOREM TrailingLocks == Spec => []TrailingLocksGain
<1>1. Init => TrailInv
  BY DEF Init, TrailInv
<1>2. BookInv /\ TrailInv /\ [Next]_vars => TrailInv'
  BY TrailStep
<1>3. BookInv /\ TrailInv => TrailingLocksGain
  <2>1. SUFFICES ASSUME BookInv, TrailInv, NEW i \in DOMAIN managed,
                        managed[i].outcome = "Yes", managed[i].shares > 0, managed[i].trailing
                 PROVE  100 * Gain(managed[i], managed[i].price)
                            > (managed[i].config.trail.activation - managed[i].config.trail.delta)
                                * Base(managed[i])
    BY DEF TrailingLocksGain
  <2>2. managed[i] \in PositionType /\ LockedAt(managed[i])
    BY <2>1, ManagedTypes DEF BookInv, Backed, TrailInv
  <2>3. QED
    BY <2>1, <2>2, LockedGain
<1>4. QED
  BY <1>1, <1>2, <1>3, BookAlways, PTL DEF Spec

\* A position a check kept is still within its barriers at the price of the check.
LEMMA CheckedWithin ==
    ASSUME NEW p \in PositionType, NEW q \in Prices, ~ShouldClose(Priced(p, q))
    PROVE  ~ShouldClose(Priced(Checked(p, q), q))
<1>1. PICK now : now = Priced(p, q)
  OBVIOUS
<1>2. /\ now \in PositionType /\ now.price = q /\ now.peak = PeakAfter(p, q)
  BY <1>1, CheckedFields
<1>3. PICK on \in BOOLEAN : on = (Activated(now) \/ now.trailing)
  <2>1. (Activated(now) \/ now.trailing) \in BOOLEAN
    OBVIOUS
  <2>2. QED
    BY <2>1
<1>4. Checked(p, q) = [now EXCEPT !.trailing = on]
  BY <1>1, <1>3 DEF ShouldClose, Checked
<1>5. PICK r : r = [now EXCEPT !.trailing = on]
  OBVIOUS
<1>6. /\ r \in PositionType /\ r.config = now.config /\ r.entry = now.entry
      /\ r.outcome = now.outcome /\ r.price = q /\ r.peak = now.peak /\ r.trailing = on
  BY <1>2, <1>3, <1>5 DEF PositionType
<1>7. PICK s : s = Priced(r, q)
  OBVIOUS
<1>8. /\ s.config = now.config /\ s.entry = now.entry /\ s.outcome = now.outcome
      /\ s.price = now.price /\ s.peak = PeakAfter(r, q) /\ s.trailing = on
  BY <1>2, <1>6, <1>7, CheckedFields
<1>9. s.peak = now.peak
  <2>1. q \in Nat /\ p.peak \in Nat
    BY PositionTypes, PaperOk
  <2>2. now.peak >= q /\ now.peak \in Nat
    BY <1>2, <2>1 DEF PeakAfter
  <2>3. QED
    BY <1>6, <1>8, <2>1, <2>2 DEF PeakAfter
<1>10. Base(s) = Base(now) /\ \A x : Gain(s, x) = Gain(now, x)
  BY <1>8 DEF Base, Gain
<1>11. (StopHit(s) <=> StopHit(now)) /\ (TakeHit(s) <=> TakeHit(now))
  BY <1>8, <1>10 DEF StopHit, TakeHit
<1>12. Activated(s) <=> Activated(now)
  BY <1>3, <1>8, <1>9, <1>10 DEF Activated
<1>13. TrailHit(s) <=> TrailHit(now)
  BY <1>8, <1>9, <1>10, <1>12 DEF TrailHit
<1>14. ~ShouldClose(s)
  BY <1>1, <1>11, <1>13 DEF ShouldClose
<1>15. QED
  BY <1>4, <1>5, <1>7, <1>14

WithinAt(p, q) == q # None => ~ShouldClose(Priced(p, q))

\* While a pass runs, every position it is past is within its barriers at the
\* price it was given.
PassInv == \A i \in DOMAIN managed : i < cursor => WithinAt(managed[i], quotes[managed[i].market])

LEMMA PassStep ==
    ASSUME BookInv, PassInv, [Next]_vars
    PROVE  PassInv'
<1>0. TypeOK /\ SharesBacked /\ NotStarted
  BY DEF BookInv, Backed
<1>1. /\ Len(managed) \in Nat /\ DOMAIN managed = 1 .. Len(managed)
      /\ \A i \in DOMAIN managed : managed[i] \in PositionType
      /\ cursor \in Nat
  BY <1>0, ManagedTypes DEF TypeOK
<1>2. ASSUME cursor' = 0 \/ cursor' = 1 PROVE PassInv'
  <2>1. managed' \in Seq(PositionType)
    BY <1>0, TypeStep DEF TypeOK
  <2>2. DOMAIN managed' = 1 .. Len(managed') /\ Len(managed') \in Nat
    BY <2>1
  <2>3. \A i \in DOMAIN managed' : ~(i < cursor')
    BY <1>2, <2>2
  <2>4. QED
    BY <2>3 DEF PassInv
<1>3. CASE UNCHANGED <<managed, quotes, cursor>>
  BY <1>3 DEF PassInv
<1>4. CASE CheckSkips
  <2>1. /\ cursor' = cursor + 1 /\ managed' = managed /\ quotes' = quotes
        /\ quotes[managed[cursor].market] = None
    BY <1>4 DEF CheckSkips, Quote, Current
  <2>2. ASSUME NEW i \in DOMAIN managed, i < cursor + 1
        PROVE  WithinAt(managed[i], quotes[managed[i].market])
    <3>1. i < cursor \/ i = cursor
      BY <1>1, <2>2
    <3>2. QED
      BY <2>1, <3>1 DEF PassInv, WithinAt
  <2>3. QED
    BY <2>1, <2>2 DEF PassInv
<1>5. CASE CheckKeeps
  <2>1. Quote \in Prices /\ cursor \in DOMAIN managed
    BY <1>0, <1>5, QuoteType DEF CheckKeeps
  <2>2. PICK c \in DOMAIN managed, q \in Prices : c = cursor /\ q = Quote
    BY <2>1
  <2>3. /\ managed' = WithChecked(c, q) /\ cursor' = c + 1 /\ quotes' = quotes
        /\ ~ShouldClose(Priced(managed[c], q)) /\ q = quotes[managed[c].market]
    BY <1>5, <2>2 DEF CheckKeeps, WithChecked, Quote, Current
  <2>4. PICK w : w = WithChecked(c, q)
    OBVIOUS
  <2>5. /\ DOMAIN w = DOMAIN managed /\ w[c] = Checked(managed[c], q)
        /\ \A i \in DOMAIN managed : i # c => w[i] = managed[i]
        /\ w[c].market = managed[c].market
    BY <1>0, <2>4, CheckedElements
  <2>6. ~ShouldClose(Priced(Checked(managed[c], q), q))
    BY <1>1, <2>3, CheckedWithin
  <2>7. ASSUME NEW i \in DOMAIN w, i < c + 1
        PROVE  WithinAt(w[i], quotes[w[i].market])
    <3>1. CASE i = c
      BY <2>3, <2>5, <2>6, <3>1 DEF WithinAt
    <3>2. CASE i # c
      <4>1. i < cursor
        BY <1>1, <2>2, <2>5, <2>7, <3>2
      <4>2. QED
        BY <2>5, <3>2, <4>1 DEF PassInv
    <3>3. QED
      BY <3>1, <3>2
  <2>8. QED
    BY <2>3, <2>4, <2>7 DEF PassInv
<1>6. CASE CheckCloses
  <2>1. PICK c \in DOMAIN managed : c = cursor
    BY <1>6 DEF CheckCloses, Checking
  <2>2. PICK w : w = Without(c)
    OBVIOUS
  <2>3. managed' = w /\ cursor' = c /\ quotes' = quotes
    BY <1>6, <2>1, <2>2 DEF CheckCloses, Sold, CursorAfterClose
  <2>4. \A j \in DOMAIN w : \E l \in DOMAIN managed :
           l = (IF j < c THEN j ELSE j + 1) /\ w[j] = managed[l] /\ l # c
    BY <1>0, <2>2, WithoutElements
  <2>5. ASSUME NEW j \in DOMAIN w, j < c
        PROVE  WithinAt(w[j], quotes[w[j].market])
    <3>1. j \in DOMAIN managed /\ w[j] = managed[j]
      BY <2>4, <2>5
    <3>2. QED
      BY <2>1, <2>5, <3>1 DEF PassInv
  <2>6. QED
    BY <2>3, <2>5 DEF PassInv
<1>7. ASSUME NEW m \in Market,
             \/ SignalDropped(m)
             \/ \E o \in Outcome, price \in EntryPrices, n \in Shares, config \in Configs :
                   OpenFilled(m, o, price, n, config) \/ OpenRefused(m, o, price, n, config)
      PROVE  PassInv'
  BY <1>2, <1>7 DEF SignalDropped, OpenFilled, OpenRefused, Signal
<1>8. ASSUME NEW i \in DOMAIN managed, ClosePosition(i) PROVE PassInv'
  BY <1>2, <1>8 DEF ClosePosition
<1>9. CASE CheckRaises \/ CheckEnds \/ Tick \/ \E q \in [Market -> Optional(Prices)] : CheckBegins(q)
  BY <1>2, <1>9 DEF CheckRaises, CheckEnds, Returned, Tick, CheckBegins
<1>10. CASE Start \/ UNCHANGED vars
  BY <1>3, <1>10 DEF Start, vars
<1>11. QED
  BY <1>4, <1>5, <1>6, <1>7, <1>8, <1>9, <1>10, Zenon DEF Next

\* A pass ends behind the last position, or at one without shares.
LEMMA EndOfPass ==
    ASSUME BookInv, PassInv, [Next]_vars, PassEnds, AllFilled
    PROVE  StillOpenWithinBarriers
<1>0. TypeOK
  BY DEF BookInv
<1>1. /\ Len(managed) \in Nat /\ DOMAIN managed = 1 .. Len(managed)
      /\ cursor \in Nat /\ cursor # 0 /\ cursor' = 0
  BY <1>0, ManagedTypes DEF TypeOK, PassEnds
<1>2. ~CheckRaises
  BY DEF CheckRaises, Checking, Current, AllFilled
<1>3. ASSUME NEW m \in Market,
             \/ SignalDropped(m)
             \/ \E o \in Outcome, price \in EntryPrices, n \in Shares, config \in Configs :
                   OpenFilled(m, o, price, n, config) \/ OpenRefused(m, o, price, n, config)
      PROVE  FALSE
  BY <1>1, <1>3 DEF SignalDropped, OpenFilled, OpenRefused, Signal
<1>4. ASSUME NEW i \in DOMAIN managed, ClosePosition(i) PROVE FALSE
  BY <1>1, <1>4 DEF ClosePosition
<1>5. ASSUME NEW q, CheckBegins(q) PROVE FALSE
  BY <1>1, <1>5 DEF CheckBegins
<1>6. ~CheckSkips /\ ~CheckKeeps
  BY <1>1 DEF CheckSkips, CheckKeeps
<1>7. ~CheckCloses /\ ~Tick /\ ~Start /\ ~UNCHANGED vars
  BY <1>1 DEF CheckCloses, CursorAfterClose, Tick, Start, vars
<1>8. CheckEnds
  BY <1>2, <1>3, <1>4, <1>5, <1>6, <1>7, Zenon DEF Next
<1>9. cursor > Len(managed) /\ managed' = managed
  BY <1>8 DEF CheckEnds
<1>10. \A i \in DOMAIN managed : i < cursor
  BY <1>1, <1>9
<1>11. QED
  BY <1>9, <1>10 DEF StillOpenWithinBarriers, PassInv, WithinAt

\* A pass of check_barriers leaves no position open that is beyond a barrier at
\* the price it was given, however many it closes on the way, as long as every
\* position was filled; for any barriers and prices
\* (execution/position_executor.py).
THEOREM BarriersHold == Spec => BarriersEnforced
<1>1. Init => PassInv
  BY DEF Init, PassInv
<1>2. BookInv /\ PassInv /\ [Next]_vars => PassInv'
  BY PassStep
<1>3. BookInv /\ PassInv /\ [Next]_vars
        => [PassEnds /\ AllFilled => StillOpenWithinBarriers]_vars
  BY EndOfPass
<1>4. QED
  BY <1>1, <1>2, <1>3, BookAlways, PTL DEF Spec, BarriersEnforced

=============================================================================
