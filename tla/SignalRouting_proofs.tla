------------------------ MODULE SignalRouting_proofs ------------------------
(***************************************************************************)
(* What holds of the reads of a trader's configuration for any number of   *)
(* signals, follow-ups, configurations, spellings and other traders, and   *)
(* for any lifetimes of the two caches.                                    *)
(***************************************************************************)
EXTENDS SignalRouting, TLAPS

\* The engine a signal is in has been told a trader: this one, unless another
\* trader's signal came since.
Told ==
  \A s \in Signals : pc[s] \in InEngine =>
    /\ trade[s].engine \in Exchanges /\ engine[trade[s].engine] \in Names
    /\ s \notin overtaken => engine[trade[s].engine] = Given

\* What the table holds has not left it, and a cached configuration left it no
\* longer ago than it was cached.
Dated ==
  /\ \A c \in Configs : c \in Held(db) => since[c] = 0
  /\ \A n \in Names : cache[n].age < TTL /\ cache[n].config # None =>
       since[cache[n].config] <= cache[n].age
  /\ \A n \in Names : runtime[n].age < RuntimeTTL /\ runtime[n].config # None =>
       since[runtime[n].config] <= runtime[n].age

Fresh == TypeOK /\ Told /\ Dated

\* An entry that was filled after the last edit is a row its name finds.
Current == \A n \in Names : cache[n].age < calm => cache[n].config \in Rows(db, n)

\* What a quiet signal has read so far is what the table held all the time,
\* the engine's reads as far as it was told of no other trader.
QuietSignal(s, c) ==
  /\ pc[s] # "received"
  /\ pc[s] \in {"announcing", "parsing", "entered"} \cup InEngine =>
       trade[s].row = ExchangeOf[c]
  /\ pc[s] \in InEngine \cup {"entered"} => trade[s].engine = ExchangeOf[c]
  /\ pc[s] \in {"sized", "resized", "entered"} /\ s \notin overtaken =>
       trade[s].size \in {c, "suggested"}
  /\ /\ pc[s] = "entered" /\ s \notin overtaken
     /\ ExchangeOf[c] = "binance" \/ Rows(db, Lower[Given]) # {}
     => trade[s].leverage = c

\* A quiet follow-up goes where the trade of its quiet signal went.
QuietFollowup(f, c) ==
  /\ fc[f] # "received"
  /\ TradeOf[f] \in quiet /\ pc[TradeOf[f]] = "entered"
  /\ fc[f] \in Exchanges => fc[f] = ExchangeOf[c]

\* The trader has one row, no other is found in lower case, and the quiet tasks
\* have read nothing else.
TheRow(c) == Rows(db, Given) = {c} /\ Rows(db, Lower[Given]) \subseteq {c}
Quiet(c) ==
  /\ TheRow(c)
  /\ \A s \in Signals \cap quiet : QuietSignal(s, c)
  /\ \A f \in Followups \cap quiet : QuietFollowup(f, c)

Undisturbed == quiet # {} => calm = TTL /\ \E c \in Configs : Quiet(c)

RoutingInv == Fresh /\ Current /\ Undisturbed
-----------------------------------------------------------------------------
(* Types *)

Entries(limit) == [config : Answers, age : 0..limit]
Sizes == Answers \cup {"suggested"}
Trades == [row : Exchanges \cup {None}, engine : Exchanges \cup {None},
           size : Sizes, leverage : Answers]
SignalLabels == {"received", "announcing", "parsing"} \cup InEngine \cup SignalEnded
FollowupLabels == {"received", "announcing"} \cup FollowupEnded

TableType ==
  /\ db \in [Names -> Answers]
  /\ since \in [Configs -> 0..TTL] /\ calm \in 0..TTL
CacheType ==
  /\ cache \in [Names -> Entries(TTL)]
  /\ runtime \in [Names -> Entries(RuntimeTTL)]
EngineType == engine \in [Exchanges -> Names \cup {None}] /\ overtaken \subseteq Signals
SignalType == pc \in [Signals -> SignalLabels] /\ trade \in [Signals -> Trades]
FollowupType == fc \in [Followups -> FollowupLabels] /\ quiet \subseteq Tasks

LEMMA Types ==
  TypeOK <=> TableType /\ CacheType /\ EngineType /\ SignalType /\ FollowupType
BY DEF TypeOK, TableType, CacheType, EngineType, SignalType, FollowupType, Entries, Trades,
       Sizes, SignalLabels, FollowupLabels, Answers

LEMMA TypesAfter ==
  TableType' /\ CacheType' /\ EngineType' /\ SignalType' /\ FollowupType' => TypeOK'
BY DEF TypeOK, TableType, CacheType, EngineType, SignalType, FollowupType, Entries, Trades,
       Sizes, SignalLabels, FollowupLabels, Answers

LEMMA Lifetimes ==
  /\ TTL \in Nat /\ RuntimeTTL \in Nat /\ 0 < RuntimeTTL /\ RuntimeTTL <= TTL
  /\ Given \in Names /\ Lower[Given] \in Names
BY LifetimeAssumption, NameAssumption

LEMMA RowsFound ==
  ASSUME NEW table \in [Names -> Answers], NEW n \in Names
  PROVE  /\ Rows(table, n) \subseteq Held(table)
         /\ Held(table) \subseteq Configs /\ None \notin Held(table)
BY NameAssumption DEF Rows, Held, Answers

LEMMA ExchangeType == \A c \in Answers : Exchange(c) \in Exchanges
BY ConfigAssumption DEF Exchange, Exchanges, Answers

LEMMA EntryType ==
  /\ \A c \in Answers : [config |-> c, age |-> 0] \in Entries(TTL)
  /\ \A c \in Answers : [config |-> c, age |-> 0] \in Entries(RuntimeTTL)
  /\ Absent(TTL) \in Entries(TTL) /\ Absent(RuntimeTTL) \in Entries(RuntimeTTL)
BY Lifetimes DEF Entries, Absent, Answers

LEMMA OlderType ==
  ASSUME NEW limit \in Nat, NEW n \in 0..limit
  PROVE  /\ Older(n, limit) \in 0..limit /\ Older(n, limit) <= n + 1
         /\ n = limit => Older(n, limit) = limit
BY DEF Older

\* A tick ages an entry by one or makes it one that is never read.
LEMMA AgedType ==
  ASSUME NEW limit \in Nat, NEW entry \in Entries(limit)
  PROVE  /\ Aged(entry, limit) \in Entries(limit)
         /\ Aged(entry, limit).age < limit =>
              /\ Aged(entry, limit).age = entry.age + 1 /\ entry.age < limit
              /\ Aged(entry, limit).config = entry.config
<1>1. entry.age \in 0..limit /\ entry.config \in Answers
  BY DEF Entries
<1>2. CASE entry.age + 1 < limit
  <2>1. Aged(entry, limit) = [entry EXCEPT !.age = entry.age + 1]
    BY <1>2 DEF Aged
  <2>. QED
    BY <1>1, <1>2, <2>1 DEF Entries
<1>3. CASE ~(entry.age + 1 < limit)
  BY <1>1, <1>3 DEF Aged, Absent, Entries, Answers
<1>. QED
  BY <1>2, <1>3

\* A read fills one entry at most.
LEMMA ReadType ==
  ASSUME TypeOK, NEW key \in Names, NEW c \in Answers, Read(key, c)
  PROVE  cache' \in [Names -> Entries(TTL)]
BY Types, EntryType DEF Read, CacheType

LEMMA RuntimeType ==
  ASSUME TypeOK, NEW n \in Names, NEW c \in Answers, Runtime(n, c)
  PROVE  runtime' \in [Names -> Entries(RuntimeTTL)]
BY Types, EntryType DEF Runtime, CacheType

\* A trade stays one when fields of it are written.
LEMMA TradeType ==
  ASSUME TypeOK, NEW s \in Signals
  PROVE  /\ \A e \in Exchanges \cup {None} :
              /\ [trade EXCEPT ![s].row = e] \in [Signals -> Trades]
              /\ [trade EXCEPT ![s].engine = e] \in [Signals -> Trades]
              /\ [trade EXCEPT ![s].engine = e, ![s].size = "suggested"]
                   \in [Signals -> Trades]
         /\ \A c \in Answers :
              /\ [trade EXCEPT ![s].size = c] \in [Signals -> Trades]
              /\ [trade EXCEPT ![s].leverage = c] \in [Signals -> Trades]
         /\ Unordered(s) \in Trades
         /\ [trade EXCEPT ![s] = Unordered(s)] \in [Signals -> Trades]
<1>1. trade \in [Signals -> Trades]
  BY Types DEF SignalType
<1>2. Unordered(s) \in Trades
  BY <1>1 DEF Unordered, NoTrade, Trades, Sizes, Answers
<1>3. \A e \in Exchanges \cup {None} :
         /\ [trade EXCEPT ![s].row = e] \in [Signals -> Trades]
         /\ [trade EXCEPT ![s].engine = e] \in [Signals -> Trades]
         /\ [trade EXCEPT ![s].engine = e, ![s].size = "suggested"]
              \in [Signals -> Trades]
  BY <1>1 DEF Trades, Sizes
<1>4. \A c \in Answers :
         /\ [trade EXCEPT ![s].size = c] \in [Signals -> Trades]
         /\ [trade EXCEPT ![s].leverage = c] \in [Signals -> Trades]
  BY <1>1 DEF Trades, Sizes
<1>. QED
  BY <1>1, <1>2, <1>3, <1>4

LEMMA LabelType ==
  ASSUME TypeOK, NEW s \in Signals, NEW label \in SignalLabels, SignalTo(s, label)
  PROVE  pc' \in [Signals -> SignalLabels]
BY Types DEF SignalType, SignalTo

LEMMA NotingType ==
  ASSUME TypeOK, NEW t, NEW key, NEW c, Noting(t, key, c)
  PROVE  quiet' \subseteq Tasks
BY Types DEF FollowupType, Noting

LEMMA HandToType ==
  ASSUME TypeOK, NEW s \in Signals, NEW e \in Exchanges, HandTo(s, e)
  PROVE  EngineType'
BY Types, Lifetimes DEF EngineType, HandTo

\* The name an engine asks for is one.
LEMMA KeyType ==
  ASSUME Told, NEW s \in Signals, pc[s] \in InEngine
  PROVE  engine[trade[s].engine] \in Names /\ Lower[engine[trade[s].engine]] \in Names
BY NameAssumption DEF Told

\* The frame of the tasks: they leave the table alone.
LEMMA TablesKept ==
  ASSUME TypeOK, UNCHANGED tables PROVE TableType'
BY Types DEF TableType, tables

\* What the steps of a signal have in common.
LEMMA SignalTypeFrame ==
  ASSUME TypeOK, NEW s \in Signals, SignalStep(s),
         pc' \in [Signals -> SignalLabels], trade' \in [Signals -> Trades],
         cache' \in [Names -> Entries(TTL)], runtime' \in [Names -> Entries(RuntimeTTL)],
         EngineType', quiet' \subseteq Tasks
  PROVE  TypeOK'
<1>1. UNCHANGED tables /\ fc' = fc
  BY DEF SignalStep, Resolve, Gate, NotParsed, Route, Size, RouteAgain, LeverKucoin, LeverBinance
<1>2. TableType' /\ fc' \in [Followups -> FollowupLabels]
  BY <1>1, TablesKept, Types DEF FollowupType
<1>. QED
  BY <1>2, TypesAfter DEF SignalType, CacheType, FollowupType

LEMMA SignalStepType ==
  ASSUME TypeOK, Told, NEW s \in Signals, SignalStep(s)
  PROVE  TypeOK'
<1>n. {"announcing", "parsing", "rejected", "failed", "routed", "sized", "resized", "entered"}
         \subseteq SignalLabels
  BY DEF SignalLabels, SignalEnded, InEngine
<1>k. Given \in Names /\ None \in Answers /\ None \in Exchanges \cup {None}
  BY Lifetimes DEF Answers
<1>t. /\ trade \in [Signals -> Trades] /\ cache \in [Names -> Entries(TTL)]
      /\ runtime \in [Names -> Entries(RuntimeTTL)] /\ quiet \subseteq Tasks /\ EngineType
  BY Types DEF SignalType, CacheType, FollowupType
<1>e. UNCHANGED <<engine, overtaken>> => EngineType'
  BY <1>t DEF EngineType
<1>f. ASSUME Fails(s)
      PROVE  pc' \in [Signals -> SignalLabels] /\ trade' \in [Signals -> Trades]
  BY <1>f, <1>n, LabelType, TradeType DEF Fails
<1>o. ASSUME NEW c \in Answers, Order(s, c)
      PROVE  pc' \in [Signals -> SignalLabels] /\ trade' \in [Signals -> Trades]
  <2>1. CASE SignalTo(s, "entered") /\ trade' = [trade EXCEPT ![s].leverage = c]
    BY <2>1, <1>n, LabelType, TradeType
  <2>. QED
    BY <1>o, <1>f, <2>1 DEF Order
<1>1. CASE Resolve(s)
  <2>1. PICK c \in Answers :
          /\ Read(Given, c)
          /\ trade' = [trade EXCEPT ![s].row = Exchange(c)]
          /\ quiet' = IF calm = TTL /\ OneRow /\ c # None THEN quiet \cup {s} ELSE quiet
    BY <1>1 DEF Resolve
  <2>2. trade' \in [Signals -> Trades]
    BY <2>1, TradeType, ExchangeType
  <2>3. pc' \in [Signals -> SignalLabels] /\ runtime' = runtime /\ EngineType'
    BY <1>1, <1>n, <1>e, LabelType DEF Resolve
  <2>4. cache' \in [Names -> Entries(TTL)] /\ quiet' \subseteq Tasks
    BY <2>1, <1>k, <1>t, ReadType DEF Tasks
  <2>. QED
    BY <1>t, <2>2, <2>3, <2>4, SignalTypeFrame
<1>2. CASE Gate(s)
  <2>1. PICK c \in Answers :
          /\ Read(Given, c) /\ Noting(s, Given, c)
          /\ SignalTo(s, IF c = None THEN "rejected" ELSE "parsing")
          /\ trade' = IF c = None THEN [trade EXCEPT ![s].row = None] ELSE trade
    BY <1>2 DEF Gate
  <2>2. trade' \in [Signals -> Trades]
    BY <2>1, <1>k, <1>t, TradeType
  <2>3. pc' \in [Signals -> SignalLabels] /\ runtime' = runtime /\ EngineType'
    BY <1>2, <2>1, <1>n, <1>e, LabelType DEF Gate
  <2>4. cache' \in [Names -> Entries(TTL)] /\ quiet' \subseteq Tasks
    BY <2>1, <1>k, ReadType, NotingType
  <2>. QED
    BY <1>t, <2>2, <2>3, <2>4, SignalTypeFrame
<1>3. CASE NotParsed(s)
  <2>1. UNCHANGED <<cache, runtime, quiet>> /\ EngineType' /\ Fails(s)
    BY <1>3, <1>e DEF NotParsed
  <2>. QED
    BY <1>t, <1>f, <2>1, SignalTypeFrame
<1>4. CASE Route(s)
  <2>1. PICK c \in Answers :
          /\ Read(Given, c) /\ Noting(s, Given, c)
          /\ trade' = [trade EXCEPT ![s].engine = Exchange(c)]
          /\ HandTo(s, Exchange(c))
    BY <1>4 DEF Route
  <2>2. trade' \in [Signals -> Trades]
    BY <2>1, TradeType, ExchangeType
  <2>3. pc' \in [Signals -> SignalLabels] /\ runtime' = runtime
    BY <1>4, <1>n, LabelType DEF Route
  <2>4. cache' \in [Names -> Entries(TTL)] /\ quiet' \subseteq Tasks
    BY <2>1, <1>k, ReadType, NotingType
  <2>5. EngineType'
    BY <2>1, ExchangeType, HandToType
  <2>. QED
    BY <1>t, <2>2, <2>3, <2>4, <2>5, SignalTypeFrame
<1>5. CASE Size(s)
  <2> DEFINE n == engine[trade[s].engine]
  <2>1. PICK c \in Answers :
          /\ Read(n, c) /\ Noting(s, n, c)
          /\ \/ SignalTo(s, "sized") /\ trade' = [trade EXCEPT ![s].size = c]
             \/ Fails(s)
    BY <1>5 DEF Size
  <2>2. n \in Names
    BY <1>5, KeyType DEF Size, InEngine
  <2>3. pc' \in [Signals -> SignalLabels] /\ trade' \in [Signals -> Trades]
    <3>1. CASE SignalTo(s, "sized") /\ trade' = [trade EXCEPT ![s].size = c]
      BY <3>1, <1>n, LabelType, TradeType
    <3>. QED
      BY <2>1, <1>f, <3>1
  <2>4. cache' \in [Names -> Entries(TTL)] /\ quiet' \subseteq Tasks
    BY <2>1, <2>2, ReadType, NotingType
  <2>5. runtime' = runtime /\ EngineType'
    BY <1>5, <1>e DEF Size
  <2>. QED
    BY <1>t, <2>3, <2>4, <2>5, SignalTypeFrame
<1>6. CASE RouteAgain(s)
  <2>1. PICK c \in Answers :
          /\ Read(Given, c) /\ Noting(s, Given, c)
          /\ trade' = [trade EXCEPT ![s].engine = Exchange(c), ![s].size = "suggested"]
          /\ HandTo(s, Exchange(c))
    BY <1>6 DEF RouteAgain
  <2>2. trade' \in [Signals -> Trades]
    BY <2>1, TradeType, ExchangeType
  <2>3. pc' \in [Signals -> SignalLabels] /\ runtime' = runtime
    BY <1>6, <1>n, LabelType DEF RouteAgain
  <2>4. cache' \in [Names -> Entries(TTL)] /\ quiet' \subseteq Tasks
    BY <2>1, <1>k, ReadType, NotingType
  <2>5. EngineType'
    BY <2>1, ExchangeType, HandToType
  <2>. QED
    BY <1>t, <2>2, <2>3, <2>4, <2>5, SignalTypeFrame
<1>7. CASE LeverKucoin(s)
  <2> DEFINE n == Lower[engine["kucoin"]]
  <2>1. PICK c \in Answers :
          /\ Read(n, c) /\ Noting(s, n, c)
          /\ \E d \in Answers : Order(s, d)
    BY <1>7, <1>k DEF LeverKucoin
  <2>2. n \in Names
    BY <1>7, KeyType DEF LeverKucoin, InEngine
  <2>3. cache' \in [Names -> Entries(TTL)] /\ quiet' \subseteq Tasks
    BY <2>1, <2>2, ReadType, NotingType
  <2>4. runtime' = runtime /\ EngineType'
    BY <1>7, <1>e DEF LeverKucoin
  <2>5. pc' \in [Signals -> SignalLabels] /\ trade' \in [Signals -> Trades]
    BY <1>o, <2>1
  <2>. QED
    BY <1>t, <2>3, <2>4, <2>5, SignalTypeFrame
<1>8. CASE LeverBinance(s)
  <2> DEFINE n == engine["binance"]
  <2>1. PICK c \in Answers :
          /\ Read(n, c) /\ Noting(s, n, c)
          /\ \E d \in Answers : Order(s, d) /\ (Runtime(n, d) \/ UNCHANGED runtime)
    BY <1>8 DEF LeverBinance
  <2>2. n \in Names
    BY <1>8, KeyType DEF LeverBinance, InEngine
  <2>3. cache' \in [Names -> Entries(TTL)] /\ quiet' \subseteq Tasks
    BY <2>1, <2>2, ReadType, NotingType
  <2>4. runtime' \in [Names -> Entries(RuntimeTTL)]
    BY <2>1, <2>2, <1>t, RuntimeType
  <2>5. pc' \in [Signals -> SignalLabels] /\ trade' \in [Signals -> Trades]
    BY <1>o, <2>1
  <2>6. EngineType'
    BY <1>8, <1>e DEF LeverBinance
  <2>. QED
    BY <2>3, <2>4, <2>5, <2>6, SignalTypeFrame
<1>. QED
  BY <1>1, <1>2, <1>3, <1>4, <1>5, <1>6, <1>7, <1>8 DEF SignalStep

LEMMA FollowupStepType ==
  ASSUME TypeOK, NEW f \in Followups, FollowupStep(f)
  PROVE  TypeOK'
<1>0. TableType' /\ UNCHANGED <<runtime, engine, pc, trade, overtaken>>
  BY TablesKept DEF FollowupStep, GateFollowup, RouteFollowup, signals
<1>1. /\ Given \in Names
      /\ Exchanges \cup {"rejected", "announcing"} \subseteq FollowupLabels
  BY Lifetimes DEF FollowupLabels, FollowupEnded
<1>2. fc' \in [Followups -> FollowupLabels]
  BY <1>1, Types, ExchangeType
     DEF FollowupStep, GateFollowup, RouteFollowup, FollowupType
<1>3. cache' \in [Names -> Entries(TTL)]
  BY <1>1, ReadType DEF FollowupStep, GateFollowup, RouteFollowup
<1>4. quiet' \subseteq Tasks
  <2>1. CASE GateFollowup(f)
    BY <2>1, Types DEF GateFollowup, FollowupType, Tasks
  <2>2. CASE RouteFollowup(f)
    BY <2>2, NotingType DEF RouteFollowup
  <2>. QED
    BY <2>1, <2>2 DEF FollowupStep
<1>. QED
  BY <1>0, <1>2, <1>3, <1>4, Types, TypesAfter
     DEF SignalType, CacheType, EngineType, FollowupType

\* An edit dates what the table holds, and nothing stays quiet.
LEMMA EditedType ==
  ASSUME TypeOK, NEW table \in [Names -> Answers], Edited(table)
  PROVE  TableType' /\ quiet' \subseteq Tasks
<1>1. 0 \in 0..TTL
  BY Lifetimes
<1>. QED
  BY <1>1, Types DEF Edited, TableType

LEMMA EditType ==
  ASSUME TypeOK, Edit
  PROVE  TypeOK'
<1>0. UNCHANGED <<runtime, engine, pc, trade, overtaken, fc>>
  BY DEF Edit, Create, Delete, EditUnseen, ClearCache, signals
<1>m. \A n \in Names : MayHold[n] \subseteq Configs
  BY ConfigAssumption
<1>1. db \in [Names -> Answers] /\ cache \in [Names -> Entries(TTL)]
  BY Types DEF TableType, CacheType
<1>2. ASSUME NEW n \in Names, NEW c \in Configs, Create(n, c) PROVE TypeOK'
  <2>1. Write(n, c) \in [Names -> Answers]
    BY <1>1 DEF Write, Answers
  <2>2. Rows(Write(n, c), n) \cup {None} \subseteq Answers
    BY <2>1, RowsFound DEF Answers
  <2>3. cache' \in [Names -> Entries(TTL)]
    BY <1>1, <1>2, <2>2, EntryType DEF Create
  <2>4. TableType' /\ quiet' \subseteq Tasks
    BY <1>2, <2>1, EditedType DEF Create
  <2>. QED
    BY <1>0, <2>3, <2>4, Types, TypesAfter DEF SignalType, CacheType, EngineType, FollowupType
<1>3. ASSUME NEW n \in Names, Delete(n) PROVE TypeOK'
  <2>1. [m \in Names |-> IF m \in Finds[n] THEN None ELSE db[m]] \in [Names -> Answers]
    BY <1>1 DEF Answers
  <2>2. cache' \in [Names -> Entries(TTL)]
    BY <1>1, <1>3, EntryType DEF Delete
  <2>3. TableType' /\ quiet' \subseteq Tasks
    BY <1>3, <2>1, EditedType DEF Delete
  <2>. QED
    BY <1>0, <2>2, <2>3, Types, TypesAfter DEF SignalType, CacheType, EngineType, FollowupType
<1>4. ASSUME NEW n \in Names, NEW c \in Configs \cup {None}, EditUnseen(n, c) PROVE TypeOK'
  <2>1. Write(n, c) \in [Names -> Answers]
    BY <1>1 DEF Write, Answers
  <2>2. TableType' /\ quiet' \subseteq Tasks
    BY <1>4, <2>1, EditedType DEF EditUnseen
  <2>. QED
    BY <1>0, <1>4, <2>2, Types, TypesAfter
       DEF EditUnseen, SignalType, CacheType, EngineType, FollowupType
<1>5. ASSUME NEW names, ClearCache(names) PROVE TypeOK'
  <2>1. cache' \in [Names -> Entries(TTL)]
    BY <1>1, <1>5, EntryType DEF ClearCache
  <2>2. TableType' /\ quiet' = quiet
    BY <1>5, TablesKept DEF ClearCache
  <2>. QED
    BY <1>0, <2>1, <2>2, Types, TypesAfter DEF SignalType, CacheType, EngineType, FollowupType
<1>. QED
  BY <1>m, <1>2, <1>3, <1>4, <1>5 DEF Edit

LEMMA TickType ==
  ASSUME TypeOK, Tick
  PROVE  TypeOK'
<1>1. CacheType'
  BY Types, Lifetimes, AgedType DEF CacheType, Tick
<1>2. \A c \in Configs : since[c] \in 0..TTL /\ Older(since[c], TTL) \in 0..TTL
  BY Types, Lifetimes, OlderType DEF TableType
<1>3. Older(calm, TTL) \in 0..TTL /\ 0 \in 0..TTL
  BY Types, Lifetimes, OlderType DEF TableType
<1>4. TableType'
  BY <1>2, <1>3, Types DEF Tick, TableType
<1>. QED
  BY <1>1, <1>4, Types, TypesAfter DEF Tick, signals, EngineType, SignalType, FollowupType

LEMMA RestartType ==
  ASSUME TypeOK, Restart
  PROVE  TypeOK'
<1>1. CacheType' /\ EngineType'
  BY EntryType, Types DEF Restart, CacheType, EngineType
<1>2. pc' \in [Signals -> SignalLabels]
  BY Types DEF Restart, SignalType, SignalLabels, SignalEnded
<1>3. fc' \in [Followups -> FollowupLabels]
  BY DEF Restart, FollowupLabels, FollowupEnded
<1>4. trade' \in [Signals -> Trades]
  BY Types, TradeType DEF Restart, SignalType
<1>5. TableType' /\ quiet' \subseteq Tasks
  BY TablesKept, Types DEF Restart, FollowupType
<1>. QED
  BY <1>1, <1>2, <1>3, <1>4, <1>5, TypesAfter DEF SignalType, FollowupType

LEMMA OthersType ==
  ASSUME TypeOK, NEW n \in Names, ReadByOthers(n) \/ RouteOther(n)
  PROVE  TypeOK'
<1>1. TableType' /\ UNCHANGED <<pc, trade, fc, quiet>>
  BY TablesKept DEF ReadByOthers, RouteOther, signals
<1>2. CacheType'
  <2>1. cache' \in [Names -> Entries(TTL)]
    BY ReadType, Types DEF ReadByOthers, RouteOther, CacheType
  <2>2. runtime' \in [Names -> Entries(RuntimeTTL)]
    BY RuntimeType, Types DEF ReadByOthers, RouteOther, CacheType
  <2>. QED
    BY <2>1, <2>2 DEF CacheType
<1>3. EngineType'
  <2>1. CASE ReadByOthers(n)
    BY <2>1, Types DEF ReadByOthers, signals, EngineType
  <2>2. CASE RouteOther(n)
    BY <2>2, Types, ExchangeType DEF RouteOther, EngineType
  <2>. QED
    BY <2>1, <2>2
<1>. QED
  BY <1>1, <1>2, <1>3, Types, TypesAfter DEF SignalType, FollowupType

LEMMA StepType == TypeOK /\ Told /\ [Next]_vars => TypeOK'
<1>1. ASSUME TypeOK, UNCHANGED vars PROVE TypeOK'
  BY <1>1 DEF vars, TypeOK
<1>2. OtherTraders \subseteq Names
  BY NameAssumption
<1>. QED
  BY <1>1, <1>2, SignalStepType, FollowupStepType, EditType, TickType, RestartType, OthersType
     DEF Next

-----------------------------------------------------------------------------
(* The trader an engine was told *)

\* A step of a signal leaves the others' engines alone or tells them this
\* trader.
LEMMA SignalStepTold ==
  ASSUME TypeOK, Told, NEW s \in Signals, SignalStep(s)
  PROVE  Told'
<1>0. /\ pc \in [Signals -> SignalLabels] /\ trade \in [Signals -> Trades]
      /\ engine \in [Exchanges -> Names \cup {None}] /\ Given \in Names
  BY Types, Lifetimes DEF SignalType, EngineType
<1>1. \A r \in Signals \ {s} : pc'[r] = pc[r] /\ trade'[r] = trade[r]
  BY <1>0 DEF SignalStep, Resolve, Gate, NotParsed, Route, Size, RouteAgain, LeverKucoin,
              LeverBinance, SignalTo, Order, Fails
<1>2. CASE Route(s) \/ RouteAgain(s)
  <2>1. PICK e \in Exchanges : HandTo(s, e) /\ trade'[s].engine = e
    BY <1>0, <1>2, ExchangeType DEF Route, RouteAgain, Trades
  <2>2. ASSUME NEW r \in Signals, pc'[r] \in InEngine
        PROVE  /\ trade'[r].engine \in Exchanges /\ engine'[trade'[r].engine] \in Names
               /\ r \notin overtaken' => engine'[trade'[r].engine] = Given
    <3>1. CASE r = s
      BY <1>0, <2>1, <3>1 DEF HandTo
    <3>2. CASE r # s
      <4>1. /\ trade'[r] = trade[r] /\ trade[r].engine \in Exchanges
            /\ engine[trade[r].engine] \in Names
            /\ r \notin overtaken => engine[trade[r].engine] = Given
        BY <1>1, <2>2, <3>2 DEF Told
      <4>. QED
        BY <1>0, <2>1, <3>2, <4>1 DEF HandTo
    <3>. QED
      BY <3>1, <3>2
  <2>. QED
    BY <2>2 DEF Told
<1>3. CASE ~(Route(s) \/ RouteAgain(s))
  <2>1. engine' = engine /\ overtaken' = overtaken
    BY <1>3 DEF SignalStep, Resolve, Gate, NotParsed, Size, LeverKucoin, LeverBinance
  <2>2. pc'[s] \in InEngine => pc[s] \in InEngine /\ trade'[s].engine = trade[s].engine
    <3>1. CASE Size(s)
      <4>1. PICK c \in Answers :
              \/ SignalTo(s, "sized") /\ trade' = [trade EXCEPT ![s].size = c]
              \/ Fails(s)
        BY <3>1 DEF Size
      <4>2. pc[s] \in InEngine
        BY <3>1 DEF Size, InEngine
      <4>3. Fails(s) => pc'[s] \notin InEngine
        BY <1>0 DEF Fails, SignalTo, InEngine
      <4>. QED
        BY <1>0, <4>1, <4>2, <4>3 DEF Trades
    <3>2. CASE ~Size(s)
      BY <1>0, <1>3, <3>2
         DEF SignalStep, Resolve, Gate, NotParsed, LeverKucoin, LeverBinance, SignalTo, Order,
             Fails, InEngine
    <3>. QED
      BY <3>1, <3>2
  <2>. QED
    BY <1>1, <2>1, <2>2 DEF Told
<1>. QED
  BY <1>2, <1>3

LEMMA StepTold == TypeOK /\ Told /\ [Next]_vars => Told'
<1> SUFFICES ASSUME TypeOK, Told, [Next]_vars PROVE Told'
  OBVIOUS
<1>1. ASSUME UNCHANGED <<engine, pc, trade, overtaken>> PROVE Told'
  BY <1>1 DEF Told
<1>2. ASSUME NEW n \in Names, RouteOther(n) PROVE Told'
  <2>1. PICK e \in Exchanges :
          /\ engine' = [engine EXCEPT ![e] = n]
          /\ overtaken' = overtaken \cup
               {s \in Signals : pc[s] \in InEngine /\ trade[s].engine = e}
    BY <1>2, ExchangeType DEF RouteOther
  <2>2. pc' = pc /\ trade' = trade /\ engine \in [Exchanges -> Names \cup {None}]
    BY <1>2, Types DEF RouteOther, EngineType
  <2>. QED
    BY <2>1, <2>2 DEF Told
<1>3. ASSUME Restart PROVE Told'
  <2>1. \A s \in Signals : pc'[s] \notin InEngine
    BY <1>3 DEF Restart, InEngine, SignalEnded
  <2>. QED
    BY <2>1 DEF Told
<1>4. OtherTraders \subseteq Names
  BY NameAssumption
<1>5. CASE Edit \/ Tick \/ (\E n \in Names : ReadByOthers(n)) \/ UNCHANGED vars
           \/ \E f \in Followups : FollowupStep(f)
  BY <1>1, <1>5 DEF Edit, Create, Delete, EditUnseen, ClearCache, Tick, ReadByOthers, vars,
                    FollowupStep, GateFollowup, RouteFollowup, signals
<1>. QED
  BY <1>2, <1>3, <1>4, <1>5, SignalStepTold DEF Next

-----------------------------------------------------------------------------
(* How old what is read can be *)

\* Every step of a task reads through the caches, or not at all.
Reading ==
  /\ UNCHANGED tables
  /\ cache' = cache \/ \E key \in Names, c \in Answers : Read(key, c)
  /\ runtime' = runtime \/ \E n \in Names, d \in Answers : Runtime(n, d)

LEMMA StepsRead ==
  ASSUME Told
  PROVE  /\ \A s \in Signals : SignalStep(s) => Reading
         /\ \A f \in Followups : FollowupStep(f) => Reading
         /\ \A n \in Names : ReadByOthers(n) \/ RouteOther(n) => Reading
<1>1. Given \in Names
  BY Lifetimes
<1>2. ASSUME NEW s \in Signals, SignalStep(s) PROVE Reading
  <2>1. CASE Resolve(s)
    BY <1>1, <2>1 DEF Resolve, Reading
  <2>2. CASE Gate(s)
    BY <1>1, <2>2 DEF Gate, Reading
  <2>3. CASE NotParsed(s)
    BY <2>3 DEF NotParsed, Reading
  <2>4. CASE Route(s)
    BY <1>1, <2>4 DEF Route, Reading
  <2>5. CASE Size(s)
    <3>1. engine[trade[s].engine] \in Names
      BY <2>5, KeyType DEF Size, InEngine
    <3>. QED
      BY <2>5, <3>1 DEF Size, Reading
  <2>6. CASE RouteAgain(s)
    BY <1>1, <2>6 DEF RouteAgain, Reading
  <2>7. CASE LeverKucoin(s)
    <3>1. Lower[engine["kucoin"]] \in Names
      BY <2>7, KeyType DEF LeverKucoin, InEngine
    <3>. QED
      BY <2>7, <3>1 DEF LeverKucoin, Reading
  <2>8. CASE LeverBinance(s)
    <3>1. engine["binance"] \in Names
      BY <2>8, KeyType DEF LeverBinance, InEngine
    <3>. QED
      BY <2>8, <3>1 DEF LeverBinance, Reading
  <2>. QED
    BY <1>2, <2>1, <2>2, <2>3, <2>4, <2>5, <2>6, <2>7, <2>8 DEF SignalStep
<1>3. ASSUME NEW f \in Followups, FollowupStep(f) PROVE Reading
  BY <1>1, <1>3 DEF FollowupStep, GateFollowup, RouteFollowup, Reading
<1>4. ASSUME NEW n \in Names, ReadByOthers(n) \/ RouteOther(n) PROVE Reading
  BY <1>4 DEF ReadByOthers, RouteOther, Reading
<1>. QED
  BY <1>2, <1>3, <1>4

\* What a read answers left the table less than the lifetime of an entry ago,
\* and what it caches is in the table.
LEMMA ReadDated ==
  ASSUME Fresh, NEW key \in Names, NEW c \in Answers, Read(key, c)
  PROVE  /\ c # None => since[c] < TTL
         /\ \A n \in Names : cache'[n].age < TTL /\ cache'[n].config # None =>
              since[cache'[n].config] <= cache'[n].age
<1>1. /\ cache \in [Names -> Entries(TTL)] /\ db \in [Names -> Answers]
      /\ since \in [Configs -> 0..TTL] /\ TTL \in Nat /\ 0 < TTL
  BY Types, Lifetimes DEF Fresh, CacheType, TableType
<1>2. CASE Valid(key) /\ c = cache[key].config /\ UNCHANGED cache
  BY <1>1, <1>2 DEF Valid, Fresh, Dated, Entries, Answers
<1>3. CASE /\ ~Valid(key) /\ c \in Rows(db, key)
           /\ cache' = [cache EXCEPT ![key] = [config |-> c, age |-> 0]]
  <2>1. c \in Configs /\ since[c] = 0
    BY <1>1, <1>3, RowsFound DEF Fresh, Dated
  <2>. QED
    BY <1>1, <1>3, <2>1 DEF Fresh, Dated
<1>4. CASE ~Valid(key) /\ c = None /\ UNCHANGED cache
  BY <1>4 DEF Fresh, Dated
<1>. QED
  BY <1>2, <1>3, <1>4 DEF Read

LEMMA RuntimeDated ==
  ASSUME Fresh, NEW n \in Names, NEW c \in Answers, Runtime(n, c)
  PROVE  /\ c # None => since[c] < TTL
         /\ \A m \in Names : runtime'[m].age < RuntimeTTL /\ runtime'[m].config # None =>
              since[runtime'[m].config] <= runtime'[m].age
<1>1. /\ runtime \in [Names -> Entries(RuntimeTTL)] /\ db \in [Names -> Answers]
      /\ since \in [Configs -> 0..TTL]
      /\ TTL \in Nat /\ RuntimeTTL \in Nat /\ 0 < RuntimeTTL /\ RuntimeTTL <= TTL
  BY Types, Lifetimes DEF Fresh, CacheType, TableType
<1>2. CASE runtime[n].age < RuntimeTTL
  <2>1. c = runtime[n].config /\ runtime' = runtime
    BY <1>2 DEF Runtime
  <2>2. runtime[n].age \in Nat
    BY <1>1 DEF Entries
  <2>. QED
    BY <1>1, <1>2, <2>1, <2>2 DEF Fresh, Dated, Answers
<1>3. CASE ~(runtime[n].age < RuntimeTTL)
  <2>1. c # None /\ c = db[n] => c \in Configs /\ c \in Held(db)
    BY <1>1 DEF Held, Answers
  <2>2. c # None => /\ c \in Configs /\ since[c] = 0
                    /\ runtime' = [runtime EXCEPT ![n] = [config |-> c, age |-> 0]]
    BY <1>3, <2>1 DEF Runtime, Fresh, Dated
  <2>3. c = None => runtime' = runtime
    BY <1>3 DEF Runtime
  <2>4. CASE c = None
    BY <2>3, <2>4 DEF Fresh, Dated
  <2>5. CASE c # None
    BY <1>1, <2>2, <2>5 DEF Fresh, Dated
  <2>. QED
    BY <2>4, <2>5
<1>. QED
  BY <1>2, <1>3

LEMMA ReadingDated == ASSUME Fresh, Reading PROVE Dated'
<1>1. db' = db /\ since' = since
  BY DEF Reading, tables
<1>2. \A c \in Configs : c \in Held(db)' => since'[c] = 0
  BY <1>1 DEF Fresh, Dated, Held
<1>3. \A n \in Names : cache'[n].age < TTL /\ cache'[n].config # None =>
        since'[cache'[n].config] <= cache'[n].age
  BY <1>1, ReadDated DEF Reading, Fresh, Dated
<1>4. \A n \in Names : runtime'[n].age < RuntimeTTL /\ runtime'[n].config # None =>
        since'[runtime'[n].config] <= runtime'[n].age
  BY <1>1, RuntimeDated DEF Reading, Fresh, Dated
<1>. QED
  BY <1>2, <1>3, <1>4 DEF Dated

\* An edit dates the caches anew: what leaves the table has just been in it.
LEMMA EditDated == ASSUME Fresh, Edit PROVE Dated'
<1>0. /\ cache \in [Names -> Entries(TTL)] /\ runtime \in [Names -> Entries(RuntimeTTL)]
      /\ db \in [Names -> Answers] /\ since \in [Configs -> 0..TTL]
      /\ TTL \in Nat /\ RuntimeTTL \in Nat /\ 0 < TTL
  BY Types, Lifetimes DEF Fresh, CacheType, TableType
<1>1. ASSUME NEW table \in [Names -> Answers], Edited(table)
      PROVE  /\ \A c \in Configs : c \in Held(db)' => since'[c] = 0
             /\ \A c \in Configs : since'[c] <= since[c]
  BY <1>0, <1>1 DEF Edited, Held
<1>2. ASSUME runtime' = runtime, \A c \in Configs : since'[c] <= since[c],
             since' \in [Configs -> 0..TTL]
      PROVE  \A n \in Names : runtime'[n].age < RuntimeTTL /\ runtime'[n].config # None =>
               since'[runtime'[n].config] <= runtime'[n].age
  BY <1>0, <1>2 DEF Fresh, Dated, Entries, Answers
<1>3. ASSUME NEW n \in Names, \A c \in Configs : since'[c] <= since[c],
             since' \in [Configs -> 0..TTL], cache'[n] = cache[n]
      PROVE  cache'[n].age < TTL /\ cache'[n].config # None =>
               since'[cache'[n].config] <= cache'[n].age
  BY <1>0, <1>3 DEF Fresh, Dated, Entries, Answers
<1>4. since' \in [Configs -> 0..TTL]
  BY EditType, Types DEF Fresh, TypeOK
<1>m. \A n \in Names : MayHold[n] \subseteq Configs
  BY ConfigAssumption
<1>5. ASSUME NEW n \in Names, NEW c \in Configs, Create(n, c) PROVE Dated'
  <2>1. Write(n, c) \in [Names -> Answers]
    BY <1>0 DEF Write, Answers
  <2>2. PICK d \in Rows(Write(n, c), n) \cup {None} :
          cache' = [cache EXCEPT ![n] = IF d = None THEN Absent(TTL)
                                        ELSE [config |-> d, age |-> 0]]
    BY <1>5 DEF Create
  <2>3. Edited(Write(n, c)) /\ db' = Write(n, c) /\ runtime' = runtime
    BY <1>5 DEF Create, Edited
  <2>4. d # None => d \in Configs /\ since'[d] = 0
    BY <1>1, <2>1, <2>2, <2>3, RowsFound DEF Held
  <2>5. cache'[n].age < TTL /\ cache'[n].config # None =>
          since'[cache'[n].config] <= cache'[n].age
    BY <1>0, <2>2, <2>4 DEF Absent
  <2>6. \A m \in Names \ {n} : cache'[m] = cache[m]
    BY <1>0, <2>2
  <2>. QED
    BY <1>1, <1>2, <1>3, <1>4, <2>1, <2>3, <2>5, <2>6 DEF Dated
<1>6. ASSUME NEW n \in Names, Delete(n) PROVE Dated'
  <2> DEFINE table == [m \in Names |-> IF m \in Finds[n] THEN None ELSE db[m]]
  <2>1. table \in [Names -> Answers]
    BY <1>0 DEF Answers
  <2>2. Edited(table) /\ cache' = [cache EXCEPT ![n] = Absent(TTL)] /\ runtime' = runtime
    BY <1>6 DEF Delete
  <2>3. cache'[n].age = TTL /\ \A m \in Names \ {n} : cache'[m] = cache[m]
    BY <1>0, <2>2 DEF Absent
  <2> HIDE DEF table
  <2>. QED
    BY <1>0, <1>1, <1>2, <1>3, <1>4, <2>1, <2>2, <2>3 DEF Dated
<1>7. ASSUME NEW n \in Names, NEW c \in Configs \cup {None}, EditUnseen(n, c) PROVE Dated'
  <2>1. Write(n, c) \in [Names -> Answers]
    BY <1>0 DEF Write, Answers
  <2>2. Edited(Write(n, c)) /\ cache' = cache /\ runtime' = runtime
    BY <1>7 DEF EditUnseen
  <2>. QED
    BY <1>1, <1>2, <1>3, <1>4, <2>1, <2>2 DEF Dated
<1>8. ASSUME NEW names, ClearCache(names) PROVE Dated'
  <2>1. db' = db /\ since' = since /\ runtime' = runtime
    BY <1>8 DEF ClearCache, tables
  <2>2. \A n \in Names : cache'[n] = cache[n] \/ cache'[n].age = TTL
    BY <1>8 DEF ClearCache, Absent
  <2>3. \A n \in Names : cache'[n].age < TTL /\ cache'[n].config # None =>
          since'[cache'[n].config] <= cache'[n].age
    BY <1>0, <2>1, <2>2 DEF Fresh, Dated
  <2>. QED
    BY <2>1, <2>3 DEF Fresh, Dated, Held
<1>. QED
  BY <1>m, <1>5, <1>6, <1>7, <1>8 DEF Edit

LEMMA TickDated == ASSUME Fresh, Tick PROVE Dated'
<1>0. /\ cache \in [Names -> Entries(TTL)] /\ runtime \in [Names -> Entries(RuntimeTTL)]
      /\ since \in [Configs -> 0..TTL] /\ since' \in [Configs -> 0..TTL]
      /\ TTL \in Nat /\ RuntimeTTL \in Nat /\ RuntimeTTL <= TTL
  BY TickType, Types, Lifetimes DEF Fresh, CacheType, TableType, TypeOK
<1>1. \A c \in Configs : since'[c] <= since[c] + 1 /\ (c \in Held(db) => since'[c] = 0)
  BY <1>0 DEF Tick, Older
\* In either cache, what is still used has aged as its configuration has.
<1>2. ASSUME NEW limit \in {TTL, RuntimeTTL}, NEW entry \in Entries(limit),
             entry.age < limit /\ entry.config # None => since[entry.config] <= entry.age,
             Aged(entry, limit).age < limit, Aged(entry, limit).config # None
      PROVE  since'[Aged(entry, limit).config] <= Aged(entry, limit).age
  <2>1. limit \in Nat /\ entry.age \in Nat /\ entry.config \in Answers
    BY <1>0 DEF Entries
  <2>2. /\ Aged(entry, limit).age = entry.age + 1 /\ entry.age < limit
        /\ Aged(entry, limit).config = entry.config
    BY <1>2, <2>1, AgedType
  <2>3. entry.config \in Configs /\ since[entry.config] <= entry.age
    BY <1>2, <2>1, <2>2 DEF Answers
  <2>4. since'[entry.config] \in Nat /\ since[entry.config] \in Nat
    BY <1>0, <2>3
  <2>. QED
    BY <1>1, <2>1, <2>2, <2>3, <2>4
<1>3. ASSUME NEW n \in Names, cache'[n].age < TTL, cache'[n].config # None
      PROVE  since'[cache'[n].config] <= cache'[n].age
  <2>1. cache'[n] = Aged(cache[n], TTL) /\ cache[n] \in Entries(TTL)
    BY <1>0 DEF Tick
  <2>. QED
    BY <1>2, <1>3, <2>1 DEF Fresh, Dated
<1>4. ASSUME NEW n \in Names, runtime'[n].age < RuntimeTTL, runtime'[n].config # None
      PROVE  since'[runtime'[n].config] <= runtime'[n].age
  <2>1. runtime'[n] = Aged(runtime[n], RuntimeTTL) /\ runtime[n] \in Entries(RuntimeTTL)
    BY <1>0 DEF Tick
  <2>. QED
    BY <1>2, <1>4, <2>1 DEF Fresh, Dated
<1>5. \A c \in Configs : c \in Held(db)' => since'[c] = 0
  BY <1>1 DEF Tick, Held
<1>. QED
  BY <1>3, <1>4, <1>5 DEF Dated

LEMMA RestartDated == ASSUME Fresh, Restart PROVE Dated'
BY Lifetimes DEF Restart, Fresh, Dated, tables, Held, Absent

LEMMA StepFresh == Fresh /\ [Next]_vars => Fresh'
<1> SUFFICES ASSUME Fresh, [Next]_vars PROVE Fresh'
  OBVIOUS
<1>1. TypeOK'
  BY StepType DEF Fresh
<1>2. Dated'
  <2>1. CASE UNCHANGED vars
    BY <2>1 DEF vars, Fresh, Dated, Held
  <2>2. CASE Next
    <3>1. Told /\ OtherTraders \subseteq Names
      BY NameAssumption DEF Fresh
    <3>. QED
      BY <2>2, <3>1, StepsRead, ReadingDated, EditDated, TickDated, RestartDated DEF Next
  <2>. QED
    BY <2>1, <2>2
<1>3. Told'
  BY StepTold DEF Fresh
<1>. QED
  BY <1>1, <1>2, <1>3 DEF Fresh

-----------------------------------------------------------------------------
(* What is cached after the last edit is in the table *)

LEMMA ReadCurrent ==
  ASSUME TypeOK, Current, NEW key \in Names, NEW c \in Answers, Read(key, c)
  PROVE  \A n \in Names : cache'[n].age < calm => cache'[n].config \in Rows(db, n)
<1>1. cache \in [Names -> Entries(TTL)]
  BY Types DEF CacheType
<1>. QED
  BY <1>1 DEF Read, Current

LEMMA EditCurrent == ASSUME TypeOK, Current, Edit PROVE Current'
<1>1. cache' \in [Names -> Entries(TTL)] /\ calm \in 0..TTL /\ TTL \in Nat
  BY EditType, Types, Lifetimes DEF CacheType, TableType, TypeOK, Entries, Answers
<1>2. ASSUME NEW table, Edited(table) PROVE Current'
  <2>1. calm' = 0 /\ \A n \in Names : cache'[n].age \in Nat
    BY <1>1, <1>2 DEF Edited, Entries
  <2>. QED
    BY <2>1 DEF Current
<1>3. ASSUME NEW names, ClearCache(names) PROVE Current'
  <2>1. db' = db /\ calm' = calm
    BY <1>3 DEF ClearCache, tables
  <2>2. \A n \in Names : cache'[n] = cache[n] \/ cache'[n].age = TTL
    BY <1>3 DEF ClearCache, Absent
  <2>. QED
    BY <1>1, <2>1, <2>2 DEF Current, Rows
<1>. QED
  BY <1>2, <1>3 DEF Edit, Create, Delete, EditUnseen

LEMMA TickCurrent == ASSUME TypeOK, Current, Tick PROVE Current'
<1>1. cache \in [Names -> Entries(TTL)] /\ calm \in 0..TTL /\ TTL \in Nat
  BY Types, Lifetimes DEF CacheType, TableType
<1>2. ASSUME NEW n \in Names, cache'[n].age < calm' PROVE cache'[n].config \in Rows(db, n)
  <2>1. cache'[n] = Aged(cache[n], TTL) /\ calm' = Older(calm, TTL)
    BY DEF Tick
  <2>2. calm' \in 0..TTL /\ calm' <= calm + 1 /\ cache'[n] \in Entries(TTL)
    BY <1>1, <2>1, OlderType, AgedType
  <2>3. cache'[n].age < TTL
    BY <1>1, <1>2, <2>2 DEF Entries
  <2>4. cache'[n].age = cache[n].age + 1 /\ cache'[n].config = cache[n].config
    BY <1>1, <2>1, <2>3, AgedType
  <2>5. cache[n].age < calm
    BY <1>1, <1>2, <2>2, <2>4 DEF Entries
  <2>. QED
    BY <2>4, <2>5 DEF Current
<1>. QED
  BY <1>2 DEF Current, Tick, Rows

LEMMA RestartCurrent == ASSUME TypeOK, Restart PROVE Current'
<1>1. calm' \in 0..TTL /\ TTL \in Nat
  BY RestartType, Types, Lifetimes DEF TypeOK
<1>2. \A n \in Names : cache'[n].age = TTL
  BY DEF Restart, Absent
<1>. QED
  BY <1>1, <1>2 DEF Current

LEMMA StepCurrent == TypeOK /\ Told /\ Current /\ [Next]_vars => Current'
<1> SUFFICES ASSUME TypeOK, Told, Current, [Next]_vars PROVE Current'
  OBVIOUS
<1>1. ASSUME Reading PROVE Current'
  <2>1. db' = db /\ calm' = calm
    BY <1>1 DEF Reading, tables
  <2>2. \A n \in Names : cache'[n].age < calm => cache'[n].config \in Rows(db, n)
    BY <1>1, ReadCurrent DEF Reading, Current
  <2>. QED
    BY <2>1, <2>2 DEF Current, Rows
<1>2. CASE UNCHANGED vars
  BY <1>2 DEF vars, Current, Rows
<1>o. OtherTraders \subseteq Names
  BY NameAssumption
<1>3. CASE Next
  BY <1>1, <1>3, <1>o, StepsRead, EditCurrent, TickCurrent, RestartCurrent DEF Next
<1>. QED
  BY <1>2, <1>3

-----------------------------------------------------------------------------
(* The quiet tasks *)

\* With one row and no edit for the lifetime of an entry, a read answers that
\* row or nothing.
LEMMA ReadQuiet ==
  ASSUME Current, calm = TTL, NEW key \in Names, NEW c \in Answers, Read(key, c),
         NEW one \in Configs, Rows(db, key) \subseteq {one}
  PROVE  c # None => c = one /\ Rows(db, key) = {one}
<1>1. c # None => c \in Rows(db, key)
  BY DEF Read, Valid, Current
<1>. QED
  BY <1>1

\* What a step of one signal leaves of the quiet tasks.
LEMMA SignalFrame ==
  ASSUME NEW c \in Configs, Quiet(c), NEW s \in Signals, pc[s] # "entered",
         db' = db, fc' = fc,
         \A r \in Signals \ {s} : /\ pc'[r] = pc[r] /\ trade'[r] = trade[r]
                                  /\ r \in overtaken => r \in overtaken',
         quiet' \subseteq quiet \cup {s}, quiet \subseteq quiet' \cup {s},
         s \in quiet' => QuietSignal(s, c)'
  PROVE  Quiet(c)'
<1>1. TheRow(c)'
  BY DEF Quiet, TheRow, Rows
<1>2. ASSUME NEW r \in Signals \cap quiet' PROVE QuietSignal(r, c)'
  <2>1. CASE r = s
    BY <1>2, <2>1
  <2>2. CASE r # s
    <3>1. /\ QuietSignal(r, c) /\ pc'[r] = pc[r] /\ trade'[r] = trade[r]
          /\ r \in overtaken => r \in overtaken'
      BY <2>2 DEF Quiet
    <3>. QED
      BY <3>1 DEF QuietSignal, Rows
  <2>. QED
    BY <2>1, <2>2
<1>3. ASSUME NEW f \in Followups \cap quiet' PROVE QuietFollowup(f, c)'
  <2>1. f \in quiet /\ TradeOf[f] \in Signals
    BY TaskAssumption
  <2>2. QuietFollowup(f, c)
    BY <2>1 DEF Quiet
  <2>. QED
    BY <2>1, <2>2 DEF QuietFollowup
<1>. QED
  BY <1>1, <1>2, <1>3 DEF Quiet

\* A task that stays quiet when it notes a read found what there was.
LEMMA NotedQuiet ==
  ASSUME NEW t, NEW key, NEW c, Noting(t, key, c)
  PROVE  /\ quiet' \subseteq quiet /\ quiet \subseteq quiet' \cup {t}
         /\ t \in quiet' => t \in quiet /\ (c # None \/ Rows(db, key) = {})
BY DEF Noting

LEMMA SignalStepQuiet ==
  ASSUME TypeOK, Told, Current, Undisturbed, NEW s \in Signals, SignalStep(s)
  PROVE  Undisturbed'
<1>0. pc \in [Signals -> SignalLabels] /\ trade \in [Signals -> Trades]
  BY Types DEF SignalType
<1>1. db' = db /\ calm' = calm /\ fc' = fc /\ pc[s] # "entered"
  BY DEF SignalStep, Resolve, Gate, NotParsed, Route, Size, RouteAgain, LeverKucoin,
         LeverBinance, tables
<1>2. Given \in Names /\ Lower[Given] \in Names /\ {"binance", "kucoin"} = Exchanges
  BY Lifetimes DEF Exchanges
<1>3. \A r \in Signals \ {s} : /\ pc'[r] = pc[r] /\ trade'[r] = trade[r]
                               /\ r \in overtaken => r \in overtaken'
  BY <1>0 DEF SignalStep, Resolve, Gate, NotParsed, Route, Size, RouteAgain, LeverKucoin,
              LeverBinance, SignalTo, Order, Fails, HandTo
<1>4. \A label : SignalTo(s, label) => pc'[s] = label
  BY <1>0 DEF SignalTo
\* A step of a task that has begun, as seen by the one row there is.
<1>5. ASSUME NEW c \in Configs, Quiet(c), calm = TTL, quiet' \subseteq quiet,
             quiet \subseteq quiet' \cup {s}, s \in quiet' => QuietSignal(s, c)'
      PROVE  Undisturbed'
  <2>1. Quiet(c)'
    BY <1>1, <1>3, <1>5, SignalFrame
  <2>. QED
    BY <1>1, <1>5, <2>1 DEF Undisturbed
<1>6. CASE Resolve(s)
  <2>1. PICK c \in Answers :
          /\ Read(Given, c)
          /\ trade' = [trade EXCEPT ![s].row = Exchange(c)]
          /\ quiet' = IF calm = TTL /\ OneRow /\ c # None THEN quiet \cup {s} ELSE quiet
    BY <1>6 DEF Resolve
  <2>2. pc[s] = "received" /\ pc'[s] = "announcing"
    BY <1>4, <1>6 DEF Resolve
  <2>3. ASSUME NEW one \in Configs, TheRow(one), calm = TTL, c # None
        PROVE  QuietSignal(s, one)'
    <3>1. c = one
      BY <1>2, <2>1, <2>3, ReadQuiet DEF TheRow
    <3>2. trade'[s].row = ExchangeOf[one]
      BY <1>0, <2>1, <3>1, ConfigAssumption DEF Exchange, Trades
    <3>. QED
      BY <2>2, <3>2 DEF QuietSignal, InEngine
  <2>4. CASE quiet # {}
    <3>1. PICK one \in Configs : Quiet(one)
      BY <2>4 DEF Undisturbed
    <3>2. calm = TTL /\ TheRow(one) /\ s \notin quiet
      BY <2>2, <2>4, <3>1 DEF Undisturbed, Quiet, QuietSignal
    <3>3. s \in quiet' => QuietSignal(s, one)'
      BY <2>1, <2>3, <3>2
    <3>4. Quiet(one)'
      BY <1>1, <1>3, <2>1, <3>1, <3>3, SignalFrame
    <3>. QED
      BY <1>1, <3>2, <3>4 DEF Undisturbed
  <2>5. CASE quiet = {} /\ quiet' # {}
    <3>1. calm = TTL /\ OneRow /\ c # None /\ quiet' = {s}
      BY <2>1, <2>5
    <3>2. PICK one \in Configs : TheRow(one)
      BY <3>1 DEF OneRow, TheRow
    <3>3. QuietSignal(s, one)'
      BY <2>3, <3>1, <3>2
    <3>4. Followups \cap quiet' = {}
      BY <3>1, TaskAssumption
    <3>5. TheRow(one)'
      BY <1>1, <3>2 DEF TheRow, Rows
    <3>6. Quiet(one)'
      BY <3>1, <3>3, <3>4, <3>5 DEF Quiet
    <3>. QED
      BY <1>1, <3>1, <3>6 DEF Undisturbed
  <2>. QED
    BY <2>4, <2>5 DEF Undisturbed
<1>7. ASSUME ~Resolve(s), quiet = {} PROVE Undisturbed'
  BY <1>7 DEF SignalStep, Gate, NotParsed, Route, Size, RouteAgain, LeverKucoin, LeverBinance,
              Noting, Undisturbed
<1>8. ASSUME ~Resolve(s), quiet # {} PROVE Undisturbed'
  <2>1. PICK one \in Configs : Quiet(one)
    BY <1>8 DEF Undisturbed
  <2>2. /\ calm = TTL /\ Rows(db, Given) = {one} /\ Rows(db, Lower[Given]) \subseteq {one}
        /\ s \in quiet => QuietSignal(s, one)
    BY <1>8, <2>1 DEF Undisturbed, Quiet, TheRow
  <2>3. Exchange(one) = ExchangeOf[one] /\ one # None
    BY ConfigAssumption DEF Exchange
  <2>4. ASSUME NEW key, NEW c, Noting(s, key, c)
        PROVE  /\ quiet' \subseteq quiet /\ quiet \subseteq quiet' \cup {s}
               /\ s \in quiet' => QuietSignal(s, one)
    BY <2>2, <2>4, NotedQuiet
  \* What it reads under its own name, or that in lower case.
  <2>5. ASSUME NEW key \in {Given, Lower[Given]}, NEW c \in Answers,
               Read(key, c), Noting(s, key, c), s \in quiet'
        PROVE  IF Rows(db, key) = {} THEN c = None ELSE c = one
    <3>1. c # None => c = one /\ Rows(db, key) = {one}
      BY <1>2, <2>2, <2>5, ReadQuiet
    <3>. QED
      BY <2>5, <3>1, NotedQuiet
  \* A signal that ends without an order agrees with any row.
  <2>6. ASSUME Fails(s) PROVE QuietSignal(s, one)'
    BY <1>4, <2>6 DEF Fails, QuietSignal, InEngine
  <2>7. CASE Gate(s)
    <3>1. PICK c \in Answers :
            /\ Read(Given, c) /\ Noting(s, Given, c)
            /\ SignalTo(s, IF c = None THEN "rejected" ELSE "parsing")
            /\ c # None => trade' = trade
      BY <2>7 DEF Gate
    <3>2. ASSUME s \in quiet' PROVE QuietSignal(s, one)'
      <4>1. c = one
        BY <2>2, <2>5, <3>1, <3>2
      <4>2. pc'[s] = "parsing" /\ trade' = trade
        BY <1>4, <2>3, <3>1, <4>1
      <4>3. trade[s].row = ExchangeOf[one]
        BY <2>4, <2>7, <3>1, <3>2 DEF Gate, QuietSignal
      <4>. QED
        BY <4>2, <4>3 DEF QuietSignal, InEngine
    <3>. QED
      BY <1>5, <2>1, <2>2, <2>4, <3>1, <3>2
  <2>8. CASE NotParsed(s)
    <3>1. quiet' = quiet /\ QuietSignal(s, one)'
      BY <2>6, <2>8 DEF NotParsed
    <3>. QED
      BY <1>5, <2>1, <2>2, <3>1
  <2>9. CASE Route(s)
    <3>1. PICK c \in Answers :
            /\ Read(Given, c) /\ Noting(s, Given, c)
            /\ trade' = [trade EXCEPT ![s].engine = Exchange(c)]
      BY <2>9 DEF Route
    <3>2. ASSUME s \in quiet' PROVE QuietSignal(s, one)'
      <4>1. c = one /\ pc'[s] = "routed" /\ pc[s] = "parsing"
        BY <1>4, <2>2, <2>5, <2>9, <3>1, <3>2 DEF Route
      <4>2. trade[s].row = ExchangeOf[one]
        BY <2>4, <3>1, <3>2, <4>1 DEF QuietSignal
      <4>3. trade'[s].row = ExchangeOf[one] /\ trade'[s].engine = ExchangeOf[one]
        BY <1>0, <2>3, <3>1, <4>1, <4>2 DEF Trades
      <4>. QED
        BY <4>1, <4>3 DEF QuietSignal
    <3>. QED
      BY <1>5, <2>1, <2>2, <2>4, <3>1, <3>2
  <2>10. CASE Size(s)
    <3> DEFINE n == engine[trade[s].engine]
    <3>1. PICK c \in Answers :
            /\ Read(n, c) /\ Noting(s, n, c)
            /\ \/ SignalTo(s, "sized") /\ trade' = [trade EXCEPT ![s].size = c]
               \/ Fails(s)
      BY <2>10 DEF Size
    <3>2. ASSUME s \in quiet' PROVE QuietSignal(s, one)'
      <4>1. QuietSignal(s, one) /\ pc[s] = "routed" /\ overtaken' = overtaken
        BY <2>4, <2>10, <3>1, <3>2 DEF Size
      <4>2. trade[s].row = ExchangeOf[one] /\ trade[s].engine = ExchangeOf[one]
        BY <4>1 DEF QuietSignal, InEngine
      <4>3. s \notin overtaken => n = Given
        BY <4>1 DEF Told, InEngine
      <4>4. s \notin overtaken => c = one
        BY <2>2, <2>5, <3>1, <3>2, <4>3
      <4>5. CASE SignalTo(s, "sized") /\ trade' = [trade EXCEPT ![s].size = c]
        <5>1. /\ trade'[s].row = ExchangeOf[one] /\ trade'[s].engine = ExchangeOf[one]
              /\ trade'[s].size = c /\ pc'[s] = "sized"
          BY <1>0, <1>4, <4>2, <4>5 DEF Trades
        <5>. QED
          BY <4>1, <4>4, <5>1 DEF QuietSignal
      <4>. QED
        BY <2>6, <3>1, <4>5
    <3>. QED
      BY <1>5, <2>1, <2>2, <2>4, <3>1, <3>2
  <2>11. CASE RouteAgain(s)
    <3>1. PICK c \in Answers :
            /\ Read(Given, c) /\ Noting(s, Given, c)
            /\ trade' = [trade EXCEPT ![s].engine = Exchange(c), ![s].size = "suggested"]
      BY <2>11 DEF RouteAgain
    <3>2. ASSUME s \in quiet' PROVE QuietSignal(s, one)'
      <4>1. c = one /\ pc'[s] = "resized" /\ pc[s] \in {"routed", "sized"}
        BY <1>4, <2>2, <2>5, <2>11, <3>1, <3>2 DEF RouteAgain
      <4>2. trade[s].row = ExchangeOf[one]
        BY <2>4, <3>1, <3>2, <4>1 DEF QuietSignal, InEngine
      <4>3. /\ trade'[s].row = ExchangeOf[one] /\ trade'[s].engine = ExchangeOf[one]
            /\ trade'[s].size = "suggested"
        BY <1>0, <2>3, <3>1, <4>1, <4>2 DEF Trades
      <4>. QED
        BY <4>1, <4>3 DEF QuietSignal
    <3>. QED
      BY <1>5, <2>1, <2>2, <2>4, <3>1, <3>2
  \* The order, of a quiet signal with this leverage.
  <2>12. ASSUME NEW c, Order(s, c), pc[s] \in {"sized", "resized"}, QuietSignal(s, one),
                overtaken' = overtaken,
                /\ s \notin overtaken
                /\ ExchangeOf[one] = "binance" \/ Rows(db, Lower[Given]) # {}
                => c = one
         PROVE  QuietSignal(s, one)'
    <3>1. CASE SignalTo(s, "entered") /\ trade' = [trade EXCEPT ![s].leverage = c]
      <4>1. pc'[s] = "entered" /\ trade'[s].leverage = c
        BY <1>0, <1>4, <3>1 DEF Trades
      <4>2. /\ trade'[s].row = trade[s].row /\ trade'[s].engine = trade[s].engine
            /\ trade'[s].size = trade[s].size
        BY <1>0, <3>1 DEF Trades
      <4>3. /\ trade[s].row = ExchangeOf[one] /\ trade[s].engine = ExchangeOf[one]
            /\ s \notin overtaken => trade[s].size \in {one, "suggested"}
        BY <2>12 DEF QuietSignal, InEngine
      <4>. QED
        BY <1>1, <2>12, <4>1, <4>2, <4>3 DEF QuietSignal, Rows
    <3>. QED
      BY <2>6, <2>12, <3>1 DEF Order
  <2>13. CASE LeverKucoin(s)
    <3> DEFINE n == Lower[engine["kucoin"]]
    <3>1. PICK c \in Answers :
            /\ Read(n, c) /\ Noting(s, n, c)
            /\ Order(s, IF c # None /\ Exchange(c) = "kucoin" THEN c ELSE None)
      BY <2>13 DEF LeverKucoin
    <3>2. ASSUME s \in quiet' PROVE QuietSignal(s, one)'
      <4>1. /\ QuietSignal(s, one) /\ pc[s] \in {"sized", "resized"}
            /\ trade[s].engine = "kucoin" /\ overtaken' = overtaken
        BY <2>4, <2>13, <3>1, <3>2 DEF LeverKucoin
      <4>2. ExchangeOf[one] = "kucoin"
        BY <4>1 DEF QuietSignal, InEngine
      <4>3. s \notin overtaken => n = Lower[Given]
        BY <4>1 DEF Told, InEngine
      <4>4. s \notin overtaken /\ Rows(db, Lower[Given]) # {} => c = one
        BY <2>5, <3>1, <3>2, <4>3
      <4>. QED
        BY <2>3, <2>12, <3>1, <4>1, <4>2, <4>4
    <3>. QED
      BY <1>5, <2>1, <2>2, <2>4, <3>1, <3>2
  <2>14. CASE LeverBinance(s)
    <3> DEFINE n == engine["binance"]
    <3>1. PICK c \in Answers :
            /\ Read(n, c) /\ Noting(s, n, c)
            /\ IF c # None /\ Exchange(c) = "binance" THEN Order(s, c)
               ELSE \E d \in Answers : Order(s, d)
      BY <2>14 DEF LeverBinance
    <3>2. ASSUME s \in quiet' PROVE QuietSignal(s, one)'
      <4>1. /\ QuietSignal(s, one) /\ pc[s] \in {"sized", "resized"}
            /\ trade[s].engine = "binance" /\ overtaken' = overtaken
        BY <2>4, <2>14, <3>1, <3>2 DEF LeverBinance
      <4>2. ExchangeOf[one] = "binance"
        BY <4>1 DEF QuietSignal, InEngine
      <4>3. s \notin overtaken => n = Given
        BY <4>1 DEF Told, InEngine
      <4>4. s \notin overtaken => c = one
        BY <2>2, <2>5, <3>1, <3>2, <4>3
      <4>5. CASE s \in overtaken
        <5>1. PICK d : Order(s, d)
          BY <3>1
        <5>. QED
          BY <2>12, <4>1, <4>5, <5>1
      <4>6. CASE s \notin overtaken
        <5>1. Order(s, one)
          BY <2>3, <3>1, <4>2, <4>4, <4>6
        <5>. QED
          BY <2>12, <4>1, <5>1
      <4>. QED
        BY <4>5, <4>6
    <3>. QED
      BY <1>5, <2>1, <2>2, <2>4, <3>1, <3>2
  <2>. QED
    BY <1>8, <2>7, <2>8, <2>9, <2>10, <2>11, <2>13, <2>14 DEF SignalStep
<1>. QED
  BY <1>6, <1>7, <1>8

LEMMA FollowupStepQuiet ==
  ASSUME TypeOK, Current, Undisturbed, NEW f \in Followups, FollowupStep(f)
  PROVE  Undisturbed'
<1>0. fc \in [Followups -> FollowupLabels]
  BY Types DEF FollowupType
<1>1. db' = db /\ calm' = calm /\ UNCHANGED <<pc, trade, overtaken>>
  BY DEF FollowupStep, GateFollowup, RouteFollowup, tables, signals
<1>2. /\ \A g \in Followups \ {f} : fc'[g] = fc[g]
      /\ quiet' \subseteq quiet \cup {f} /\ quiet \subseteq quiet' \cup {f}
  BY <1>0 DEF FollowupStep, GateFollowup, RouteFollowup, Noting
<1>3. Given \in Names /\ "rejected" \notin Exchanges /\ "announcing" \notin Exchanges
  BY Lifetimes DEF Exchanges
<1>4. \A s \in Signals : s \in quiet' <=> s \in quiet
  BY <1>2, TaskAssumption
\* A follow-up becomes quiet only on a trade that is.
<1>5. quiet = {} => quiet' = {}
  BY DEF FollowupStep, GateFollowup, RouteFollowup, Noting
<1>6. ASSUME NEW one \in Configs, Quiet(one), calm = TTL,
             f \in quiet' => QuietFollowup(f, one)'
      PROVE  Undisturbed'
  <2>1. TheRow(one)'
    BY <1>1, <1>6 DEF Quiet, TheRow, Rows
  <2>2. ASSUME NEW s \in Signals \cap quiet' PROVE QuietSignal(s, one)'
    BY <1>1, <1>4, <1>6 DEF Quiet, QuietSignal, Rows
  <2>3. ASSUME NEW g \in Followups \cap quiet' PROVE QuietFollowup(g, one)'
    <3>1. CASE g = f
      BY <1>6, <2>3, <3>1
    <3>2. CASE g # f
      <4>1. QuietFollowup(g, one) /\ fc'[g] = fc[g] /\ TradeOf[g] \in Signals
        BY <1>2, <1>6, <3>2, TaskAssumption DEF Quiet
      <4>. QED
        BY <1>1, <1>4, <4>1 DEF QuietFollowup
    <3>. QED
      BY <3>1, <3>2
  <2>4. Quiet(one)'
    BY <2>1, <2>2, <2>3 DEF Quiet
  <2>. QED
    BY <1>1, <1>6, <2>4 DEF Undisturbed
<1>7. CASE quiet # {}
  <2>1. PICK one \in Configs : Quiet(one)
    BY <1>7 DEF Undisturbed
  <2>2. calm = TTL /\ Rows(db, Given) = {one}
    BY <1>7, <2>1 DEF Undisturbed, Quiet, TheRow
  <2>3. ASSUME f \in quiet' PROVE QuietFollowup(f, one)'
    <3>1. CASE GateFollowup(f)
      <4>1. f \notin quiet
        BY <2>1, <3>1 DEF GateFollowup, Quiet, QuietFollowup
      <4>2. /\ TradeOf[f] \in quiet /\ pc[TradeOf[f]] = "entered"
            /\ fc'[f] \in {"rejected", "announcing"}
        BY <1>0, <2>3, <3>1, <4>1 DEF GateFollowup
      <4>3. TradeOf[f] \in quiet'
        BY <1>4, <4>2, TaskAssumption
      <4>. QED
        BY <1>1, <1>3, <4>2, <4>3 DEF QuietFollowup
    <3>2. CASE RouteFollowup(f)
      <4>1. PICK c \in Answers :
              /\ Read(Given, c) /\ Noting(f, Given, c)
              /\ fc' = [fc EXCEPT ![f] = Exchange(c)]
        BY <3>2 DEF RouteFollowup
      <4>2. f \in quiet /\ c # None
        BY <2>2, <2>3, <4>1, NotedQuiet
      <4>3. c = one
        BY <1>3, <2>2, <4>1, <4>2, ReadQuiet
      <4>4. fc'[f] = ExchangeOf[one] /\ fc'[f] # "received"
        BY <1>0, <4>1, <4>2, <4>3, ConfigAssumption DEF Exchange
      <4>5. TradeOf[f] \in quiet /\ pc[TradeOf[f]] = "entered"
        BY <2>1, <4>2 DEF Quiet, QuietFollowup
      <4>6. TradeOf[f] \in quiet'
        BY <1>4, <4>5, TaskAssumption
      <4>. QED
        BY <1>1, <4>4, <4>5, <4>6 DEF QuietFollowup
    <3>. QED
      BY <3>1, <3>2 DEF FollowupStep
  <2>. QED
    BY <1>6, <2>1, <2>2, <2>3
<1>. QED
  BY <1>5, <1>7 DEF Undisturbed

\* Every edit ends the quiet; steps of the caches and of other traders' signals
\* keep it.
LEMMA CachesQuiet ==
  ASSUME Undisturbed, UNCHANGED <<db, pc, trade, fc, quiet>>, overtaken \subseteq overtaken',
         calm = TTL => calm' = TTL
  PROVE  Undisturbed'
<1>1. ASSUME quiet # {} PROVE \E c \in Configs : Quiet(c)'
  <2>1. PICK c \in Configs : Quiet(c)
    BY <1>1 DEF Undisturbed
  <2>2. ASSUME NEW s \in Signals, QuietSignal(s, c) PROVE QuietSignal(s, c)'
    BY <2>2 DEF QuietSignal, Rows
  <2>3. TheRow(c)' /\ \A f \in Followups : QuietFollowup(f, c) => QuietFollowup(f, c)'
    BY <2>1 DEF Quiet, TheRow, QuietFollowup, Rows
  <2>. QED
    BY <2>1, <2>2, <2>3 DEF Quiet
<1>. QED
  BY <1>1 DEF Undisturbed

LEMMA EditQuiet == ASSUME Undisturbed, Edit PROVE Undisturbed'
<1>1. ASSUME NEW names, ClearCache(names) PROVE Undisturbed'
  BY <1>1, CachesQuiet DEF ClearCache, tables, signals
<1>2. ASSUME quiet' = {} PROVE Undisturbed'
  BY <1>2 DEF Undisturbed
<1>. QED
  BY <1>1, <1>2 DEF Edit, Create, Delete, EditUnseen, Edited

LEMMA TickQuiet == ASSUME TypeOK, Undisturbed, Tick PROVE Undisturbed'
<1>1. calm = TTL => calm' = TTL
  BY Lifetimes, OlderType DEF Tick
<1>. QED
  BY <1>1, CachesQuiet DEF Tick, signals

LEMMA RestartQuiet == ASSUME TypeOK, Undisturbed, Restart PROVE Undisturbed'
<1>1. db' = db /\ calm' = calm /\ quiet' = quiet /\ overtaken' = overtaken
  BY DEF Restart, tables
<1>2. \A s \in Signals :
         IF pc[s] \in SignalEnded \cup {"received"}
         THEN pc'[s] = pc[s] /\ trade'[s] = trade[s] ELSE pc'[s] = "cut"
  BY DEF Restart
<1>3. \A f \in Followups : fc'[f] = IF fc[f] \in FollowupEnded \cup {"received"}
                                    THEN fc[f] ELSE "cut"
  BY DEF Restart
<1>4. ASSUME quiet # {} PROVE \E c \in Configs : Quiet(c)'
  <2>1. PICK c \in Configs : Quiet(c)
    BY <1>4 DEF Undisturbed
  <2>2. TheRow(c)'
    BY <1>1, <2>1 DEF Quiet, TheRow, Rows
  <2>3. ASSUME NEW s \in Signals \cap quiet' PROVE QuietSignal(s, c)'
    <3>1. QuietSignal(s, c)
      BY <1>1, <2>1 DEF Quiet
    <3>2. CASE pc[s] \in SignalEnded \cup {"received"}
      BY <1>1, <1>2, <3>1, <3>2 DEF QuietSignal, Rows
    <3>3. CASE pc[s] \notin SignalEnded \cup {"received"}
      BY <1>2, <3>3 DEF QuietSignal, InEngine
    <3>. QED
      BY <3>2, <3>3
  <2>4. ASSUME NEW f \in Followups \cap quiet' PROVE QuietFollowup(f, c)'
    <3>1. QuietFollowup(f, c) /\ TradeOf[f] \in Signals
      BY <1>1, <2>1, TaskAssumption DEF Quiet
    <3>. QED
      BY <1>1, <1>2, <1>3, <3>1 DEF QuietFollowup, SignalEnded, Exchanges
  <2>. QED
    BY <2>2, <2>3, <2>4 DEF Quiet
<1>. QED
  BY <1>1, <1>4 DEF Undisturbed

LEMMA StepQuiet == TypeOK /\ Told /\ Current /\ Undisturbed /\ [Next]_vars => Undisturbed'
<1> SUFFICES ASSUME TypeOK, Told, Current, Undisturbed, [Next]_vars PROVE Undisturbed'
  OBVIOUS
<1>1. CASE UNCHANGED vars
  BY <1>1, CachesQuiet DEF vars
<1>2. ASSUME NEW n, ReadByOthers(n) \/ RouteOther(n) PROVE Undisturbed'
  BY <1>2, CachesQuiet DEF ReadByOthers, RouteOther, tables, signals
<1>3. CASE Next
  BY <1>2, <1>3, SignalStepQuiet, FollowupStepQuiet, EditQuiet, TickQuiet, RestartQuiet
     DEF Next
<1>. QED
  BY <1>1, <1>3

-----------------------------------------------------------------------------
(* The invariant and what follows *)

LEMMA InitRouting == Init => RoutingInv
<1> SUFFICES ASSUME Init PROVE RoutingInv
  OBVIOUS
<1>1. TTL \in 0..TTL /\ 0 \in 0..TTL /\ TTL \in Nat /\ RuntimeTTL \in Nat
  BY Lifetimes
<1>2. TableType
  BY <1>1 DEF Init, TableType, Answers
<1>3. CacheType /\ EngineType /\ SignalType /\ FollowupType
  BY EntryType DEF Init, CacheType, EngineType, SignalType, FollowupType, SignalLabels,
                   FollowupLabels, Trades, NoTrade, Sizes, Answers
<1>4. Dated
  BY <1>1 DEF Init, Dated, Absent
<1>5. Current
  BY <1>1 DEF Init, Current, Absent
<1>6. Undisturbed
  BY DEF Init, Undisturbed
<1>7. Told
  BY DEF Init, Told, InEngine
<1>. QED
  BY <1>2, <1>3, <1>4, <1>5, <1>6, <1>7, Types DEF RoutingInv, Fresh

\* The inductive invariant: an engine was told this trader or the signal knows
\* that it was overtaken; cached entries are as old as what they hold can be;
\* those filled since the last edit are in the table; and tasks that were quiet
\* have read nothing but the one row there is.
THEOREM RoutingInvariant == Spec => []RoutingInv
<1>1. RoutingInv /\ [Next]_vars => RoutingInv'
  BY StepFresh, StepCurrent, StepQuiet DEF RoutingInv, Fresh
<1>. QED
  BY <1>1, InitRouting, PTL DEF Spec

\* No step leaves the types, the ages the caches' lifetimes included; an engine
\* never asks for the configuration of nobody.
THEOREM TypeCorrect == Spec => []TypeOK
<1>1. RoutingInv => TypeOK
  BY DEF RoutingInv, Fresh
<1>. QED
  BY <1>1, RoutingInvariant, PTL

\* A quiet signal's row names the exchange of its order; and if no signal of
\* another trader came to that engine meanwhile, the order has the size of the
\* trader's row, or the suggested one, and the row's leverage, on KuCoin only
\* where the row is found in lower case.
THEOREM QuietAgree == Spec => []QuietTradesAgree
<1>1. RoutingInv => QuietTradesAgree
  <2> SUFFICES ASSUME RoutingInv, NEW s \in Signals \cap quiet, pc[s] = "entered"
               PROVE  /\ trade[s].row = trade[s].engine
                      /\ s \notin overtaken =>
                           /\ trade[s].size \in Rows(db, Given) \cup {"suggested"}
                           /\ trade[s].engine = "binance" \/ Rows(db, Lower[Given]) # {}
                                => trade[s].leverage \in Rows(db, Given)
    BY DEF QuietTradesAgree
  <2>1. PICK c \in Configs : QuietSignal(s, c) /\ Rows(db, Given) = {c}
    BY DEF RoutingInv, Undisturbed, Quiet, TheRow
  <2>2. trade[s].row = ExchangeOf[c] /\ trade[s].engine = ExchangeOf[c]
    BY <2>1 DEF QuietSignal
  <2>. QED
    BY <2>1, <2>2 DEF QuietSignal
<1>. QED
  BY <1>1, RoutingInvariant, PTL

\* A quiet follow-up is routed to the exchange its trade was entered on, though
\* route_followup_signal asks for the trader and never for the trade's row.
THEOREM QuietReach == Spec => []QuietFollowupsReach
<1>1. RoutingInv => QuietFollowupsReach
  <2> SUFFICES ASSUME RoutingInv, NEW f \in Followups \cap quiet, fc[f] \in Exchanges
               PROVE  fc[f] = trade[TradeOf[f]].engine
    BY DEF QuietFollowupsReach
  <2>1. PICK c \in Configs : Quiet(c)
    BY DEF RoutingInv, Undisturbed
  <2>2. QuietFollowup(f, c) /\ TradeOf[f] \in Signals
    BY <2>1, TaskAssumption DEF Quiet
  <2>3. QuietSignal(TradeOf[f], c)
    BY <2>1, <2>2 DEF Quiet, QuietFollowup
  <2>. QED
    BY <2>2, <2>3 DEF QuietFollowup, QuietSignal
<1>. QED
  BY <1>1, RoutingInvariant, PTL

\* What a step puts into the order of s, it has just read.
Reads(s) ==
  /\ trade'[s].size \notin {trade[s].size, None, "suggested"} => since[trade'[s].size] < TTL
  /\ trade'[s].leverage \notin {trade[s].leverage, None}
       => since[trade'[s].leverage] < TTL

LEMMA SignalReadsFresh ==
  ASSUME Fresh, NEW r \in Signals, SignalStep(r), NEW s \in Signals
  PROVE  Reads(s)
<1>0. trade \in [Signals -> Trades] /\ Given \in Names
  BY Types, Lifetimes DEF Fresh, SignalType
<1>r. ASSUME NEW e, NEW z \in {trade[r].size, None, "suggested"},
             NEW v \in {trade[r].leverage, None},
             /\ \A q \in Signals \ {r} : trade'[q] = trade[q]
             /\ trade'[r].size = z /\ trade'[r].leverage = v
      PROVE  Reads(s)
  <2>1. CASE s = r
    BY <1>r, <2>1 DEF Reads
  <2>2. CASE s # r
    BY <1>r, <2>2 DEF Reads
  <2>. QED
    BY <2>1, <2>2
\* Steps that write neither, the step that gives the order up, and the retry.
<1>1. ASSUME NEW e,
             \/ trade' = [trade EXCEPT ![r].row = e]
             \/ trade' = [trade EXCEPT ![r].engine = e]
             \/ trade' = [trade EXCEPT ![r].engine = e, ![r].size = "suggested"]
             \/ trade' = trade
      PROVE  Reads(s)
  <2>1. /\ \A q \in Signals \ {r} : trade'[q] = trade[q]
        /\ trade'[r].size \in {trade[r].size, "suggested"}
        /\ trade'[r].leverage = trade[r].leverage
    BY <1>0, <1>1 DEF Trades
  <2>. QED
    BY <1>r, <2>1
<1>2. ASSUME Fails(r) PROVE Reads(s)
  <2>1. /\ \A q \in Signals \ {r} : trade'[q] = trade[q]
        /\ trade'[r] = Unordered(r)
    BY <1>0, <1>2 DEF Fails
  <2>2. trade'[r].size = None /\ trade'[r].leverage = None
    BY <2>1 DEF Unordered, NoTrade
  <2>. QED
    BY <1>r, <2>1, <2>2
<1>3. ASSUME NEW c \in Answers, c # None => since[c] < TTL, Order(r, c) PROVE Reads(s)
  <2>1. CASE trade' = [trade EXCEPT ![r].leverage = c]
    <3>1. CASE s = r
      BY <1>0, <1>3, <2>1, <3>1 DEF Trades, Reads
    <3>2. CASE s # r
      BY <1>0, <2>1, <3>2 DEF Reads
    <3>. QED
      BY <3>1, <3>2
  <2>. QED
    BY <1>2, <1>3, <2>1 DEF Order
<1>4. CASE Resolve(r) \/ Gate(r) \/ Route(r) \/ RouteAgain(r)
  <2>1. \E e : \/ trade' = [trade EXCEPT ![r].row = e]
               \/ trade' = [trade EXCEPT ![r].engine = e]
               \/ trade' = [trade EXCEPT ![r].engine = e, ![r].size = "suggested"]
               \/ trade' = trade
    BY <1>4 DEF Resolve, Gate, Route, RouteAgain
  <2>. QED
    BY <1>1, <2>1
<1>5. CASE NotParsed(r)
  BY <1>2, <1>5 DEF NotParsed
<1>6. CASE Size(r)
  <2>1. PICK c \in Answers :
          /\ Read(engine[trade[r].engine], c)
          /\ Fails(r) \/ trade' = [trade EXCEPT ![r].size = c]
    BY <1>6 DEF Size
  <2>2. engine[trade[r].engine] \in Names
    BY <1>6, KeyType DEF Fresh, Size, InEngine
  <2>3. c # None => since[c] < TTL
    BY <2>1, <2>2, ReadDated
  <2>4. CASE trade' = [trade EXCEPT ![r].size = c]
    <3>1. CASE s = r
      BY <1>0, <2>3, <2>4, <3>1 DEF Trades, Reads
    <3>2. CASE s # r
      BY <1>0, <2>4, <3>2 DEF Reads
    <3>. QED
      BY <3>1, <3>2
  <2>. QED
    BY <1>2, <2>1, <2>4
<1>7. CASE LeverKucoin(r)
  <2>1. PICK c \in Answers :
          /\ Read(Lower[engine["kucoin"]], c)
          /\ Order(r, IF c # None /\ Exchange(c) = "kucoin" THEN c ELSE None)
    BY <1>7 DEF LeverKucoin
  <2>2. Lower[engine["kucoin"]] \in Names
    BY <1>7, KeyType DEF Fresh, LeverKucoin, InEngine
  <2>3. c # None => since[c] < TTL
    BY <2>1, <2>2, ReadDated
  <2>4. \E d \in Answers : Order(r, d) /\ (d # None => since[d] < TTL)
    BY <2>1, <2>3 DEF Answers
  <2>. QED
    BY <1>3, <2>4
<1>8. CASE LeverBinance(r)
  <2> DEFINE n == engine["binance"]
  <2>1. PICK c \in Answers :
          /\ Read(n, c)
          /\ Order(r, c) \/ \E d \in Answers : Runtime(n, d) /\ Order(r, d)
    BY <1>8 DEF LeverBinance
  <2>2. n \in Names
    BY <1>8, KeyType DEF Fresh, LeverBinance, InEngine
  <2>3. c # None => since[c] < TTL
    BY <2>1, <2>2, ReadDated
  <2>4. \E d \in Answers : Order(r, d) /\ (d # None => since[d] < TTL)
    BY <2>1, <2>2, <2>3, RuntimeDated
  <2>. QED
    BY <1>3, <2>4
<1>. QED
  BY <1>4, <1>5, <1>6, <1>7, <1>8 DEF SignalStep

\* An order is never sized or levered by a configuration that, when it is read,
\* left the table the lifetime of a cached entry ago or longer, whatever was
\* edited round the cache and whichever trader the engine was told.
THEOREM ReadsAreFresh == Spec => FreshReads
<1>1. ASSUME Fresh, [Next]_vars, NEW s \in Signals PROVE Reads(s)
  <2>1. CASE \E r \in Signals : SignalStep(r)
    BY <1>1, <2>1, SignalReadsFresh
  <2>2. CASE trade' = trade
    BY <2>2 DEF Reads
  <2>3. CASE Restart
    <3>1. trade'[s] = trade[s] \/ trade'[s] = Unordered(s)
      BY <2>3 DEF Restart
    <3>2. Unordered(s).size = None /\ Unordered(s).leverage = None
      BY DEF Unordered, NoTrade
    <3>. QED
      BY <3>1, <3>2 DEF Reads
  <2>4. (\E r \in Signals : SignalStep(r)) \/ trade' = trade \/ Restart
    BY <1>1 DEF vars, Next, FollowupStep, GateFollowup, RouteFollowup, RouteOther, ReadByOthers,
                Edit, Create, Delete, EditUnseen, ClearCache, Tick, signals
  <2>. QED
    BY <2>1, <2>2, <2>3, <2>4
<1>2. RoutingInv /\ [Next]_vars =>
        [\A s \in Signals :
           /\ trade'[s].size \notin {trade[s].size, None, "suggested"}
                => since[trade'[s].size] < TTL
           /\ trade'[s].leverage \notin {trade[s].leverage, None}
                => since[trade'[s].leverage] < TTL]_vars
  BY <1>1 DEF RoutingInv, Reads
<1>. QED
  BY <1>2, RoutingInvariant, PTL DEF FreshReads, Spec
=============================================================================
