--------------------------- MODULE SignalRouting ---------------------------
(***************************************************************************)
(* Which exchange a trader's signals and follow-ups go to, and whose       *)
(* position size and leverage an order gets: the reads of                  *)
(* TraderConfigService (src/services/trader_config_service.py) by the bot, *)
(* the SignalRouter and the two engines, its cache and that of             *)
(* RuntimeConfig, and the edits that go round or through them.             *)
(*                                                                         *)
(* The signals and follow-ups of one trader; the tasks of all the others   *)
(* are around them: they share the two engines, each of which remembers    *)
(* whose signal it was given last and sizes and levers every order by the  *)
(* configuration of that trader.  A read does not wait for the network in  *)
(* the sense of the event loop, so it is atomic; the work between two      *)
(* reads is not, and time passes in ticks of which TTL make the lifetime   *)
(* of a cached configuration.                                              *)
(***************************************************************************)
EXTENDS Integers

CONSTANTS
  Signals, Followups,  \* tasks of the bot for this trader
  TradeOf,             \* the signal whose trade a follow-up is about
  Configs,             \* contents of a row: exchange, position size, leverage
  ExchangeOf,          \* the exchange of each
  MayHold,             \* the contents a row of each name may have, a bound
  Names,               \* spellings of traders' names in rows and cache keys
  Given,               \* the spelling this trader's signals come with
  OtherTraders,        \* the names other traders' signals come with
  Lower,               \* KuCoin's engine: (trader_id).strip().lower()
  Finds,               \* the rows a name finds: _variants and the ilike match
  Legacy,              \* the exchange of a trader without a configuration
  TTL, RuntimeTTL,     \* ticks an entry of each cache is used for
  None

ASSUME NameAssumption ==
  /\ Given \in Names /\ OtherTraders \subseteq Names \ {Given}
  /\ Lower \in [Names -> Names]
  /\ Finds \in [Names -> SUBSET Names] /\ \A n \in Names : n \in Finds[n]
ASSUME ConfigAssumption ==
  /\ ExchangeOf \in [Configs -> {"binance", "kucoin"}]
  /\ MayHold \in [Names -> SUBSET Configs]
  /\ Legacy \in {"binance", "kucoin"}
  /\ None \notin Configs \cup Names /\ "suggested" \notin Configs \cup {None}
ASSUME LifetimeAssumption == TTL \in Nat \ {0} /\ RuntimeTTL \in 1..TTL
ASSUME TaskAssumption ==
  TradeOf \in [Followups -> Signals] /\ Signals \cap Followups = {}

VARIABLES
  db,       \* trader_exchange_config: the row under each name
  cache,    \* TraderConfigService: _config_cache and its timestamps
  runtime,  \* RuntimeConfig: the entry of each name on Binance
  engine,   \* trader_id of the engine of each exchange
  pc,       \* where the task of a signal waits, or how it ended
  trade,    \* exchange_type, stored in its row; engine, size and leverage
            \* of its order, the size a configuration's or the one suggested
  fc,       \* where a follow-up waits, or the exchange it was routed to
  since,    \* history: ticks since the table last held a configuration
  calm,     \* history: ticks since the table was last edited
  quiet,    \* history: tasks that saw neither an edit, a leftover of one,
            \* two rows of the trader, nor a failing read
  overtaken \* history: signals whose engine was given another trader's signal
            \* before it was done with them

tables == <<db, since, calm>>
signals == <<pc, trade, overtaken>>
vars == <<db, cache, runtime, engine, pc, trade, fc, since, calm, quiet, overtaken>>

Exchanges == {"binance", "kucoin"}
Tasks == Signals \cup Followups
Answers == Configs \cup {None}
InEngine == {"routed", "sized", "resized"}
SignalEnded == {"entered", "rejected", "failed", "cut"}
FollowupEnded == Exchanges \cup {"rejected", "cut"}
Absent(limit) == [config |-> None, age |-> limit]
NoTrade == [row |-> None, engine |-> None, size |-> None, leverage |-> None]

TypeOK ==
  /\ db \in [Names -> Configs \cup {None}]
  /\ cache \in [Names -> [config : Configs \cup {None}, age : 0..TTL]]
  /\ runtime \in [Names -> [config : Configs \cup {None}, age : 0..RuntimeTTL]]
  /\ engine \in [Exchanges -> Names \cup {None}]
  /\ pc \in [Signals -> {"received", "announcing", "parsing"} \cup InEngine
                        \cup SignalEnded]
  /\ trade \in [Signals -> [row : Exchanges \cup {None}, engine : Exchanges \cup {None},
                            size : Configs \cup {None, "suggested"},
                            leverage : Configs \cup {None}]]
  /\ fc \in [Followups -> {"received", "announcing"} \cup FollowupEnded]
  /\ since \in [Configs -> 0..TTL] /\ calm \in 0..TTL
  /\ quiet \subseteq Tasks /\ overtaken \subseteq Signals

\* The configurations the rows a name finds hold.
Rows(table, key) == {table[n] : n \in Finds[key]} \ {None}
Held(table) == {table[n] : n \in Names} \ {None}
OneRow == \E c \in Configs : Rows(db, Given) = {c} /\ Rows(db, Lower[Given]) \subseteq {c}

Init ==
  /\ db \in [Names -> Configs \cup {None}]
  /\ \A n \in Names : db[n] \in MayHold[n] \cup {None}
  /\ cache = [n \in Names |-> Absent(TTL)]
  /\ runtime = [n \in Names |-> Absent(RuntimeTTL)]
  /\ engine = [e \in Exchanges |-> None]
  /\ pc = [s \in Signals |-> "received"]
  /\ trade = [s \in Signals |-> NoTrade]
  /\ fc = [f \in Followups |-> "received"]
  /\ since = [c \in Configs |-> IF c \in Held(db) THEN 0 ELSE TTL]
  /\ calm = TTL
  /\ quiet = {} /\ overtaken = {}

-----------------------------------------------------------------------------
(* Reading a configuration *)

\* _is_cache_valid
Valid(key) == cache[key].age < TTL

\* Faulty variant: a hit counts as a fresh read.
HitRefreshes(key, c) ==
  \/ /\ Valid(key) /\ c = cache[key].config
     /\ cache' = [cache EXCEPT ![key].age = 0]
  \/ /\ ~Valid(key) /\ c \in Rows(db, key)
     /\ cache' = [cache EXCEPT ![key] = [config |-> c, age |-> 0]]
  \/ ~Valid(key) /\ c = None /\ UNCHANGED cache

\* get_trader_config: a valid entry, or the first of the rows in whatever
\* order the table answers with, which is then cached; None when there is no
\* row or the read fails, and that is not cached.
Read(key, c) ==
  \/ Valid(key) /\ c = cache[key].config /\ UNCHANGED cache
  \/ /\ ~Valid(key) /\ c \in Rows(db, key)
     /\ cache' = [cache EXCEPT ![key] = [config |-> c, age |-> 0]]
  \/ ~Valid(key) /\ c = None /\ UNCHANGED cache

\* get_exchange_for_trader
Exchange(c) == IF c = None THEN Legacy ELSE ExchangeOf[c]

\* History: a task stays quiet if this read found what the table holds.
Noting(t, key, c) ==
  quiet' = IF c = None /\ Rows(db, key) # {} THEN quiet \ {t} ELSE quiet

-----------------------------------------------------------------------------
(* process_initial_signal and the engines *)

SignalTo(s, label) == pc' = [pc EXCEPT ![s] = label]

\* A signal that ends so has no order; the row, if there is one, keeps its
\* exchange.
Unordered(s) == [NoTrade EXCEPT !.row = trade[s].row]
Fails(s) ==
  /\ SignalTo(s, "failed")
  /\ trade' = [trade EXCEPT ![s] = Unordered(s)]

\* The exchange is resolved and the entry announced ...
Resolve(s) ==
  /\ pc[s] = "received"
  /\ \E c \in Answers :
       /\ Read(Given, c)
       /\ trade' = [trade EXCEPT ![s].row = Exchange(c)]
       /\ quiet' = IF calm = TTL /\ OneRow /\ c # None
                   THEN quiet \cup {s} ELSE quiet
  /\ SignalTo(s, "announcing")
  /\ UNCHANGED <<tables, runtime, engine, fc, overtaken>>

\* ... before is_trader_supported is asked; then the row is created with that
\* exchange, and the signal parsed.
Gate(s) ==
  /\ pc[s] = "announcing"
  /\ \E c \in Answers :
       /\ Read(Given, c) /\ Noting(s, Given, c)
       /\ SignalTo(s, IF c = None THEN "rejected" ELSE "parsing")
       /\ trade' = IF c = None THEN [trade EXCEPT ![s].row = None] ELSE trade
  /\ UNCHANGED <<tables, runtime, engine, fc, overtaken>>

NotParsed(s) ==
  /\ pc[s] = "parsing" /\ Fails(s)
  /\ UNCHANGED <<tables, cache, runtime, engine, fc, quiet, overtaken>>

\* Faulty variant: an engine is told the trader of its first signal only.
HandToFirst(s, e) ==
  /\ engine' = IF engine[e] = None THEN [engine EXCEPT ![e] = Given] ELSE engine
  /\ overtaken' = overtaken \ {s}

\* The engine is told whose signal it is given.
HandTo(s, e) ==
  /\ engine' = [engine EXCEPT ![e] = Given]
  /\ overtaken' = overtaken \ {s}

\* route_initial_signal asks again.
Route(s) ==
  /\ pc[s] = "parsing"
  /\ \E c \in Answers :
       /\ Read(Given, c) /\ Noting(s, Given, c)
       /\ trade' = [trade EXCEPT ![s].engine = Exchange(c)]
       /\ HandTo(s, Exchange(c))
  /\ SignalTo(s, "routed")
  /\ UNCHANGED <<tables, runtime, fc>>

\* _calculate_trade_amount, for the trader the engine was told last: no
\* configuration, or one of the other exchange, is no amount.
Size(s) ==
  LET n == engine[trade[s].engine]
  IN /\ pc[s] = "routed"
     /\ \E c \in Answers :
          /\ Read(n, c) /\ Noting(s, n, c)
          /\ IF c # None /\ Exchange(c) = trade[s].engine
             THEN SignalTo(s, "sized") /\ trade' = [trade EXCEPT ![s].size = c]
             ELSE Fails(s)
     /\ UNCHANGED <<tables, runtime, engine, fc, overtaken>>

\* Binance's engine finds the order too small, before or after it is sized, and
\* suggests a size: the signal is routed once more, with that size.
RouteAgain(s) ==
  /\ pc[s] \in {"routed", "sized"} /\ trade[s].engine = "binance"
  /\ \E c \in Answers :
       /\ Read(Given, c) /\ Noting(s, Given, c)
       /\ trade' = [trade EXCEPT ![s].engine = Exchange(c), ![s].size = "suggested"]
       /\ HandTo(s, Exchange(c))
  /\ SignalTo(s, "resized")
  /\ UNCHANGED <<tables, runtime, fc>>

\* The order is submitted with this leverage, None being the default of 1x,
\* or the signal ends before that.
Order(s, c) ==
  \/ SignalTo(s, "entered") /\ trade' = [trade EXCEPT ![s].leverage = c]
  \/ Fails(s)

\* Both engines ask for the leverage under the name they were told last.
LeverKucoin(s) ==
  LET n == Lower[engine["kucoin"]]
  IN /\ pc[s] \in {"sized", "resized"} /\ trade[s].engine = "kucoin"
     /\ \E c \in Answers :
          /\ Read(n, c) /\ Noting(s, n, c)
          /\ Order(s, IF c # None /\ Exchange(c) = "kucoin" THEN c ELSE None)
     /\ UNCHANGED <<tables, runtime, engine, fc, overtaken>>

\* RuntimeConfig.get_trader_exchange_config on Binance: its own cache, then
\* the row of exactly this name and exchange, else the default.
Runtime(n, c) ==
  IF runtime[n].age < RuntimeTTL THEN c = runtime[n].config /\ UNCHANGED runtime
  ELSE \/ /\ c # None /\ c = db[n] /\ ExchangeOf[c] = "binance"
          /\ runtime' = [runtime EXCEPT ![n] = [config |-> c, age |-> 0]]
       \/ c = None /\ UNCHANGED runtime

LeverBinance(s) ==
  LET n == engine["binance"]
  IN /\ pc[s] \in {"sized", "resized"} /\ trade[s].engine = "binance"
     /\ \E c \in Answers :
          /\ Read(n, c) /\ Noting(s, n, c)
          /\ IF c # None /\ Exchange(c) = "binance"
             THEN Order(s, c) /\ UNCHANGED runtime
             ELSE \E d \in Answers : Runtime(n, d) /\ Order(s, d)
     /\ UNCHANGED <<tables, engine, fc, overtaken>>

\* Another trader's signal is routed, to the engine that some of this trader's
\* signals may be in.
RouteOther(n) ==
  /\ \E c \in Answers :
       /\ Read(n, c)
       /\ engine' = [engine EXCEPT ![Exchange(c)] = n]
       /\ overtaken' = overtaken \cup
            {s \in Signals : pc[s] \in InEngine /\ trade[s].engine = Exchange(c)}
  /\ UNCHANGED <<tables, runtime, pc, trade, fc, quiet>>

-----------------------------------------------------------------------------
(* process_update_signal *)

GateFollowup(f) ==
  /\ fc[f] = "received"
  /\ \E c \in Answers :
       /\ Read(Given, c)
       /\ fc' = [fc EXCEPT ![f] = IF c = None THEN "rejected" ELSE "announcing"]
       /\ quiet' = IF c # None /\ TradeOf[f] \in quiet /\ pc[TradeOf[f]] = "entered"
                   THEN quiet \cup {f} ELSE quiet
  /\ UNCHANGED <<tables, runtime, engine, signals>>

\* route_followup_signal asks for the trader, not for the trade's row.
RouteFollowup(f) ==
  /\ fc[f] = "announcing"
  /\ \E c \in Answers :
       /\ Read(Given, c) /\ Noting(f, Given, c)
       /\ fc' = [fc EXCEPT ![f] = Exchange(c)]
  /\ UNCHANGED <<tables, runtime, engine, signals>>

-----------------------------------------------------------------------------
(* Edits of the table *)

Edited(table) ==
  /\ db' = table
  /\ since' = [c \in Configs |-> IF c \in Held(table) THEN 0 ELSE since[c]]
  /\ calm' = 0 /\ quiet' = {}

Write(n, c) == [db EXCEPT ![n] = c]

\* create_trader_config: the upsert clears the entry of the very name it is
\* given, and the answer is read again.
Create(n, c) ==
  /\ Edited(Write(n, c))
  /\ \E d \in Rows(Write(n, c), n) \cup {None} :
       cache' = [cache EXCEPT ![n] = IF d = None THEN Absent(TTL)
                                     ELSE [config |-> d, age |-> 0]]
  /\ UNCHANGED <<runtime, engine, signals, fc>>

\* delete_trader_config: every spelling is deleted, one entry is cleared.
Delete(n) ==
  /\ Valid(n) \/ Rows(db, n) # {}
  /\ Edited([m \in Names |-> IF m \in Finds[n] THEN None ELSE db[m]])
  /\ cache' = [cache EXCEPT ![n] = Absent(TTL)]
  /\ UNCHANGED <<runtime, engine, signals, fc>>

\* An edit in the database itself, or one whose answer is lost: no entry is
\* cleared.
EditUnseen(n, c) ==
  /\ c # db[n]
  /\ Edited(Write(n, c))
  /\ UNCHANGED <<cache, runtime, engine, signals, fc>>

\* clear_cache, of one name or of all.
ClearCache(names) ==
  /\ cache' = [n \in Names |-> IF n \in names THEN Absent(TTL) ELSE cache[n]]
  /\ UNCHANGED <<tables, runtime, engine, signals, fc, quiet>>

\* The endpoints' and the engines' other reads, which only fill the caches.
ReadByOthers(n) ==
  /\ \/ (\E c \in Answers : Read(n, c)) /\ UNCHANGED runtime
     \/ /\ n = engine["binance"] /\ UNCHANGED cache
        /\ \E d \in Answers : Runtime(n, d)
  /\ UNCHANGED <<tables, engine, signals, fc, quiet>>

-----------------------------------------------------------------------------
\* Faulty variant: the age of an entry is a plain counter.
OlderUnbounded(age, limit) == age + 1

Older(age, limit) == IF age < limit THEN age + 1 ELSE limit

\* Faulty variant: an entry once cached is used for ever.
AgedNever(entry, limit) == entry

\* An entry that reaches its lifetime is never read again.
Aged(entry, limit) ==
  IF entry.age + 1 < limit THEN [entry EXCEPT !.age = @ + 1] ELSE Absent(limit)

Tick ==
  /\ cache' = [n \in Names |-> Aged(cache[n], TTL)]
  /\ runtime' = [n \in Names |-> Aged(runtime[n], RuntimeTTL)]
  /\ since' = [c \in Configs |-> IF c \in Held(db) THEN 0 ELSE Older(since[c], TTL)]
  /\ calm' = Older(calm, TTL)
  /\ UNCHANGED <<db, engine, signals, fc, quiet>>

\* The process ends and starts again: caches and tasks are gone.
Restart ==
  LET cut == {s \in Signals : pc[s] \notin SignalEnded \cup {"received"}}
  IN /\ cache' = [n \in Names |-> Absent(TTL)]
     /\ runtime' = [n \in Names |-> Absent(RuntimeTTL)]
     /\ engine' = [e \in Exchanges |-> None]
     /\ pc' = [s \in Signals |-> IF s \in cut THEN "cut" ELSE pc[s]]
     /\ trade' = [s \in Signals |-> IF s \in cut THEN Unordered(s) ELSE trade[s]]
     /\ fc' = [f \in Followups |->
                 IF fc[f] \in FollowupEnded \cup {"received"} THEN fc[f] ELSE "cut"]
     /\ UNCHANGED <<tables, quiet, overtaken>>

SignalStep(s) ==
  Resolve(s) \/ Gate(s) \/ NotParsed(s) \/ Route(s) \/ Size(s)
    \/ RouteAgain(s) \/ LeverKucoin(s) \/ LeverBinance(s)

FollowupStep(f) == GateFollowup(f) \/ RouteFollowup(f)

Edit ==
  \/ \E n \in Names : \E c \in MayHold[n] : Create(n, c)
  \/ \E n \in Names : Delete(n)
  \/ \E n \in Names : \E c \in MayHold[n] \cup {None} : EditUnseen(n, c)
  \/ \E names \in {Names} \cup {{n} : n \in Names} : ClearCache(names)

Next ==
  \/ \E s \in Signals : SignalStep(s)
  \/ \E f \in Followups : FollowupStep(f)
  \/ \E n \in OtherTraders : RouteOther(n)
  \/ \E n \in Names : ReadByOthers(n)
  \/ Edit \/ Tick \/ Restart

Spec == Init /\ [][Next]_vars

-----------------------------------------------------------------------------
\* Configurations an order is sized and levered by are, at that moment, in
\* the table or have left it less than the time to live ago.
FreshReads ==
  [][\A s \in Signals :
       /\ trade'[s].size \notin {trade[s].size, None, "suggested"}
            => since[trade'[s].size] < TTL
       /\ trade'[s].leverage \notin {trade[s].leverage, None}
            => since[trade'[s].leverage] < TTL]_vars

\* If the trader had one row for as long as a cached one is used, and no read
\* failed, the row of the trade names the exchange of its order.  If besides no
\* other trader's signal came to the engine meanwhile, the order has the size of
\* the trader's row or the one suggested in its place, and the row's leverage,
\* on KuCoin only if the row is found in lower case.
QuietTradesAgree ==
  \A s \in Signals \cap quiet :
    pc[s] = "entered" =>
      /\ trade[s].row = trade[s].engine
      /\ s \notin overtaken =>
           /\ trade[s].size \in Rows(db, Given) \cup {"suggested"}
           /\ trade[s].engine = "binance" \/ Rows(db, Lower[Given]) # {}
                => trade[s].leverage \in Rows(db, Given)

\* And a follow-up, that goes where its trader is configured, reaches the
\* exchange its trade was entered on.
QuietFollowupsReach ==
  \A f \in Followups \cap quiet :
    fc[f] \in Exchanges => fc[f] = trade[TradeOf[f]].engine
=============================================================================
