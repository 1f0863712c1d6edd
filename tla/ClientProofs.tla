---------------------------- MODULE ClientProofs ----------------------------
(* What the client's calls keep, for every set of sessions, calls and terms: *)
(* a call says Ok only of what was executed, an update touches nothing else, *)
(* a maximum computed from current reserves is no obstacle, quotes are kept. *)
EXTENDS Client, PumpFunProofs, SequenceTheorems

-----------------------------------------------------------------------------
(* What a session submits: instructions whose arguments are of their types.  *)
Submittable(t) ==
    /\ t.user \in Users
    /\ t.ix \in {"buy_tokens_from_exact_quote", "buy_exact_tokens_from_quote", "sell"} =>
           t.m \in BaseMints /\ t.amount \in U64
    /\ t.ix \in {"withdraw", "create_pool"} => t.m \in BaseMints
    /\ t.ix = "transfer_ownership" => t.new_owner \in Holders
    /\ t.ix = "update_main_state" => t.input \in UpdateMainStateInput

(* Executing one keeps the program's invariant, although the amounts need    *)
(* not be among those that Next tries.                                       *)
LEMMA ExecuteKeepsIInv ==
    ASSUME IInv, NEW t, Submittable(t), Execute(t)
    PROVE  IInv'
<1>1. LedgerTypeOK /\ mainState \in MainStateAccount /\ PoolsOK
  BY IInvParts
<1>2. ASSUME MainStateKept, UNCHANGED pool
      PROVE  IInv'
  BY <1>1, <1>2, IInvPartsPrimed DEF MainStateKept, LedgerTypeOK, PoolsOK
<1>3. CASE t.ix = "buy_tokens_from_exact_quote"
  BY <1>3, ExactQuoteStep DEF Execute, Submittable
<1>4. CASE t.ix = "buy_exact_tokens_from_quote"
  BY <1>4, ExactBaseStep DEF Execute, Submittable
<1>5. CASE t.ix = "sell"
  BY <1>5, SellStep DEF Execute, Submittable
<1>6. CASE t.ix = "withdraw"
  BY <1>6, WithdrawStep DEF Execute, Submittable
<1>7. CASE t.ix = "create_pool"
  BY <1>7, CreatePoolStep DEF Execute, Submittable
<1>8. CASE t.ix = "init_main_state"
  BY <1>1, <1>2, <1>8, InitMainStateKeeps DEF Execute, Submittable
<1>9. CASE t.ix = "transfer_ownership"
  BY <1>1, <1>2, <1>9, TransferOwnershipKeeps DEF Execute, Submittable
<1>10. CASE t.ix = "update_main_state"
  BY <1>1, <1>2, <1>10, UpdateMainStateKeeps DEF Execute, Submittable
<1> QED BY <1>3, <1>4, <1>5, <1>6, <1>7, <1>8, <1>9, <1>10 DEF Execute

-----------------------------------------------------------------------------
(* Calls.                                                                    *)
Ops == Quotes \cup Scripts
           \cup {"buy", "buy2", "sell", "withdraw", "createPool", "initMainState",
                 "transferOwnership", "updateMainState"}
Accounts == MainStateAccount \cup PoolState
Results == {"none", "Ok", "thrown", "FAILED_TO_FETCH_DATA", "POOL_NOT_FOUND", "TX_FAILED"}
Fates == {"unknown", "executed", "failed", "expired"}

Called ==
    [phase : {"running", "waiting", "returned"}, n : Nat \ {0}, op : Ops,
     c : CallArguments, seen : Seq(Accounts), toFetch : Seq({"main", "pool"}),
     result : Results, fate : Fates]

(* An account as a fetch returns it.                                         *)
Fetched(what) ==
    {a \in IF what = "main" THEN MainStateAccount ELSE PoolState : a.exists}

(* What a call has seen is what it wanted first; what it still wants is the  *)
(* rest, unless the quote of a buy2 failed and the call goes on without it.  *)
HasSeen(k) ==
    /\ Len(k.seen) <= Len(Fetches(k.op))
    /\ \A i \in 1 .. Len(k.seen) : k.seen[i] \in Fetched(Fetches(k.op)[i])

Wants(k) ==
    IF k.phase = "running" /\ k.toFetch # << >>
    THEN /\ Len(k.seen) + Len(k.toFetch) = Len(Fetches(k.op))
         /\ \A i \in 1 .. Len(k.toFetch) :
                k.toFetch[i] = Fetches(k.op)[Len(k.seen) + i]
    ELSE k.phase = "returned" \/ k.op = "buy2" \/ Len(k.seen) = Len(Fetches(k.op))

CallOK(k) ==
    /\ k \in Called
    /\ k.op = k.c.op
    /\ HasSeen(k)
    /\ Wants(k)
    /\ k.phase = "running" => k.fate = "unknown"

CallsOK ==
    /\ DOMAIN call = Sessions
    /\ call = [s \in Sessions |-> call[s]]
    /\ \A s \in Sessions : call[s] = NoCall \/ CallOK(call[s])

(* The arguments each operation is called with.                              *)
LEMMA ArgumentFacts ==
    ASSUME NEW c \in CallArguments
    PROVE  /\ c.op \in Ops
           /\ c.op \in Quotes \cup {"buy", "buy2", "sell"} =>
                  c.m \in BaseMints /\ c.amount \in U64
           /\ c.op \in {"withdraw", "createPool"} => c.m \in BaseMints
           /\ c.op = "transferOwnership" => c.new_owner \in Holders
           /\ c.op = "updateMainState" => c.given \in GivenTerms
           /\ c.op = "update_state" => c.given \in UpdateMainStateInput
  BY DEF CallArguments, Ops, Quotes, Scripts

(* What each operation fetches, in its order.                                *)
LEMMA FetchesFacts ==
    /\ \A op \in Quotes \cup {"buy", "sell", "withdraw"} : Fetches(op) = <<"main", "pool">>
    /\ Fetches("buy2") = <<"main", "pool", "main", "pool">>
    /\ \A op \in {"transferOwnership", "updateMainState"} : Fetches(op) = <<"main">>
    /\ \A op \in Scripts \cup {"initMainState", "createPool"} : Fetches(op) = << >>
<1> DEFINE Both == Quotes \cup {"buy", "sell", "withdraw"}
           One  == {"transferOwnership", "updateMainState"}
           Nothing == Scripts \cup {"initMainState", "createPool"}
<1>1. /\ \A op \in Both : op # "buy2" /\ op \notin One /\ op \notin Nothing
      /\ "buy2" \notin Both /\ "buy2" \notin One /\ "buy2" \notin Nothing
      /\ \A op \in One : op # "buy2" /\ op \notin Both /\ op \notin Nothing
      /\ \A op \in Nothing : op # "buy2" /\ op \notin Both /\ op \notin One
  BY DEF Quotes, Scripts
<1>2. \A op : Fetches(op) =
         CASE op \in Both -> <<"main", "pool">>
           [] op = "buy2" -> <<"main", "pool", "main", "pool">>
           [] op \in One -> <<"main">>
           [] op \in Nothing -> << >>
  BY Zenon DEF Fetches
<1> HIDE DEF Both, One, Nothing
<1>3. \A op \in Both : Fetches(op) = <<"main", "pool">>
  BY <1>1, <1>2, Zenon
<1>4. Fetches("buy2") = <<"main", "pool", "main", "pool">>
  BY <1>1, <1>2, Zenon
<1>5. \A op \in One : Fetches(op) = <<"main">>
  BY <1>1, <1>2, Zenon
<1>6. \A op \in Nothing : Fetches(op) = << >>
  BY <1>1, <1>2, Zenon
<1> QED BY <1>3, <1>4, <1>5, <1>6 DEF Both, One, Nothing

(* An account of the accounts' types.                                        *)
LEMMA FetchedIsAccount ==
    ASSUME NEW what, NEW a \in Fetched(what)
    PROVE  a \in Accounts /\ (what = "main" => a \in MainStateAccount)
           /\ (what # "main" => a \in PoolState /\ a.exists)
  BY DEF Fetched, Accounts

(* The session's record, changed in one place.                               *)
LEMMA CallSet ==
    ASSUME CallsOK, NEW s \in Sessions, NEW k, CallOK(k), call' = [call EXCEPT ![s] = k]
    PROVE  CallsOK' /\ call'[s] = k
           /\ \A r \in Sessions \ {s} : call'[r] = call[r]
<1>1. call'[s] = k /\ DOMAIN call' = Sessions /\ call' = [r \in Sessions |-> call'[r]]
      /\ \A r \in Sessions \ {s} : call'[r] = call[r]
  BY DEF CallsOK
<1>2. ASSUME NEW r \in Sessions PROVE call'[r] = NoCall \/ CallOK(call'[r])
  BY <1>1 DEF CallsOK
<1> QED BY <1>1, <1>2 DEF CallsOK

(* A call that returns keeps what it has seen.                               *)
LEMMA ReturnedOK ==
    ASSUME NEW k, CallOK(k), NEW r \in Results
    PROVE  LET q == [k EXCEPT !.phase = "returned", !.result = r]
           IN  CallOK(q) /\ q.phase = "returned" /\ q.result = r /\ q.n = k.n
               /\ q.op = k.op /\ q.c = k.c /\ q.seen = k.seen /\ q.fate = k.fate
<1> DEFINE q == [k EXCEPT !.phase = "returned", !.result = r]
<1>1. q \in Called /\ q.phase = "returned" /\ q.result = r /\ q.n = k.n
      /\ q.op = k.op /\ q.c = k.c /\ q.seen = k.seen /\ q.fate = k.fate
  BY DEF CallOK, Called
<1> HIDE DEF q
<1> QED BY <1>1 DEF CallOK, HasSeen, Wants, q

(* A call that has sent its transaction has fetched everything.              *)
LEMMA WaitingOK ==
    ASSUME NEW k, CallOK(k), k.phase = "running", k.toFetch = << >>
    PROVE  LET q == [k EXCEPT !.phase = "waiting"]
           IN  CallOK(q) /\ q.phase = "waiting" /\ q.n = k.n /\ q.op = k.op
               /\ q.c = k.c /\ q.seen = k.seen /\ q.fate = k.fate
<1> DEFINE q == [k EXCEPT !.phase = "waiting"]
<1>1. q \in Called /\ q.phase = "waiting" /\ q.n = k.n
      /\ q.op = k.op /\ q.c = k.c /\ q.seen = k.seen /\ q.fate = k.fate
  BY DEF CallOK, Called
<1> HIDE DEF q
<1> QED BY <1>1 DEF CallOK, HasSeen, Wants, q

(* The fate of a sent transaction is all that settling changes.              *)
LEMMA SettledOK ==
    ASSUME NEW k, CallOK(k), k.phase # "running", NEW f \in Fates
    PROVE  LET q == [k EXCEPT !.fate = f]
           IN  CallOK(q) /\ q.phase = k.phase /\ q.result = k.result /\ q.n = k.n
               /\ q.op = k.op /\ q.c = k.c /\ q.seen = k.seen /\ q.fate = f
<1> DEFINE q == [k EXCEPT !.fate = f]
<1>1. q \in Called /\ q.phase = k.phase /\ q.n = k.n /\ q.result = k.result
      /\ q.op = k.op /\ q.c = k.c /\ q.seen = k.seen /\ q.fate = f /\ q.toFetch = k.toFetch
  BY DEF CallOK, Called
<1> HIDE DEF q
<1> QED BY <1>1 DEF CallOK, HasSeen, Wants, q

(* buy2 without the second half of its fetches, as when its quote fails      *)
(* (ali_index.ts:286).                                                       *)
LEMMA GivenUpQuoteOK ==
    ASSUME NEW k, CallOK(k), k.op = "buy2"
    PROVE  LET q == [k EXCEPT !.toFetch = << >>]
           IN  CallOK(q) /\ q.phase = k.phase /\ q.result = k.result /\ q.n = k.n
               /\ q.op = k.op /\ q.c = k.c /\ q.seen = k.seen /\ q.fate = k.fate
<1> DEFINE q == [k EXCEPT !.toFetch = << >>]
<1>0. << >> \in Seq({"main", "pool"})
  OBVIOUS
<1>1. q \in Called /\ q.phase = k.phase /\ q.n = k.n /\ q.result = k.result
      /\ q.op = k.op /\ q.c = k.c /\ q.seen = k.seen /\ q.fate = k.fate /\ q.toFetch = << >>
  BY <1>0 DEF CallOK, Called
<1> HIDE DEF q
<1> QED BY <1>1 DEF CallOK, HasSeen, Wants, q

(* A fetch that succeeds: one more account seen, one less to fetch.          *)
LEMMA FetchOK ==
    ASSUME NEW k, CallOK(k), k.phase = "running", k.toFetch # << >>,
           NEW a \in Fetched(Head(k.toFetch))
    PROVE  LET q == [k EXCEPT !.toFetch = Tail(@), !.seen = Append(@, a)]
           IN  CallOK(q) /\ q.phase = k.phase /\ q.result = k.result /\ q.n = k.n
               /\ q.op = k.op /\ q.c = k.c /\ q.fate = k.fate
<1> DEFINE q == [k EXCEPT !.toFetch = Tail(@), !.seen = Append(@, a)]
           F == Fetches(k.op)
           seen == k.seen
           todo == k.toFetch
<1>1. seen \in Seq(Accounts) /\ todo \in Seq({"main", "pool"}) /\ a \in Accounts
  BY FetchedIsAccount DEF CallOK, Called
<1>2. Append(seen, a) \in Seq(Accounts) /\ Tail(todo) \in Seq({"main", "pool"})
  BY <1>1
<1>3. q \in Called /\ q.phase = k.phase /\ q.n = k.n /\ q.result = k.result
      /\ q.op = k.op /\ q.c = k.c /\ q.fate = k.fate
      /\ q.toFetch = Tail(todo) /\ q.seen = Append(seen, a)
  BY <1>2 DEF CallOK, Called
<1>4. /\ Len(seen) + Len(todo) = Len(F)
      /\ \A i \in 1 .. Len(todo) : todo[i] = F[Len(seen) + i]
      /\ \A i \in 1 .. Len(seen) : seen[i] \in Fetched(F[i])
  BY DEF CallOK, HasSeen, Wants
<1> HIDE DEF q, F, seen, todo
<1>5. /\ Len(todo) \in Nat \ {0} /\ Len(seen) \in Nat
      /\ Head(todo) = todo[1] /\ Len(Tail(todo)) = Len(todo) - 1
      /\ \A i \in 1 .. Len(Tail(todo)) : Tail(todo)[i] = todo[i + 1]
      /\ Len(Append(seen, a)) = Len(seen) + 1
      /\ \A i \in 1 .. Len(seen) : Append(seen, a)[i] = seen[i]
      /\ Append(seen, a)[Len(seen) + 1] = a
  BY <1>1 DEF todo
<1>6. HasSeen(q)
  <2>1. a \in Fetched(F[Len(seen) + 1])
    BY <1>4, <1>5 DEF todo
  <2>2. \A i \in 1 .. Len(seen) + 1 : Append(seen, a)[i] \in Fetched(F[i])
    BY <1>4, <1>5, <2>1
  <2>3. Len(seen) + 1 <= Len(F)
    BY <1>4, <1>5
  <2> QED BY <1>3, <1>5, <2>2, <2>3 DEF HasSeen, F
<1>7. Wants(q)
  <2>1. Len(seen) + 1 + Len(Tail(todo)) = Len(F)
    BY <1>4, <1>5
  <2>2. \A i \in 1 .. Len(Tail(todo)) : Tail(todo)[i] = F[Len(seen) + 1 + i]
    BY <1>4, <1>5
  <2>3. Tail(todo) = << >> => Len(seen) + 1 = Len(F)
    <3>1. Tail(todo) = << >> => Len(Tail(todo)) = 0
      BY <1>1, EmptySeq
    <3>2. Tail(todo) = << >> => Len(seen) + 1 + 0 = Len(F)
      BY <3>1, <2>1
    <3> QED BY <3>2, <1>5
  <2> QED BY <1>3, <1>5, <2>1, <2>2, <2>3 DEF Wants, F
<1> QED BY <1>3, <1>6, <1>7 DEF CallOK, q

(* A record of these fields is a call.                                       *)
LEMMA CalledRecord ==
    ASSUME NEW phase \in {"running", "waiting", "returned"}, NEW n \in Nat \ {0},
           NEW op \in Ops, NEW c \in CallArguments, NEW seen \in Seq(Accounts),
           NEW toFetch \in Seq({"main", "pool"}), NEW result \in Results, NEW fate \in Fates
    PROVE  [phase |-> phase, n |-> n, op |-> op, c |-> c, seen |-> seen,
            toFetch |-> toFetch, result |-> result, fate |-> fate] \in Called
  BY DEF Called

(* A call that starts.                                                       *)
LEMMA StartOK ==
    ASSUME NEW n \in Nat, NEW c \in CallArguments
    PROVE  CallOK([phase |-> "running", n |-> n + 1, op |-> c.op, c |-> c, seen |-> << >>,
                   toFetch |-> Fetches(c.op), result |-> "none", fate |-> "unknown"])
<1> DEFINE k == [phase |-> "running", n |-> n + 1, op |-> c.op, c |-> c, seen |-> << >>,
                 toFetch |-> Fetches(c.op), result |-> "none", fate |-> "unknown"]
<1>1. c.op \in Ops /\ n + 1 \in Nat \ {0}
  BY ArgumentFacts
<1>2. Fetches(c.op) \in Seq({"main", "pool"})
  <2>1. CASE c.op = "buy2"
    <3>1. Fetches(c.op) = <<"main", "pool", "main", "pool">>
      BY <2>1, FetchesFacts
    <3> QED BY <3>1
  <2>2. CASE c.op \in Quotes \cup {"buy", "sell", "withdraw"}
    <3>1. Fetches(c.op) = <<"main", "pool">>
      BY <2>2, FetchesFacts
    <3> QED BY <3>1
  <2>3. CASE c.op \in {"transferOwnership", "updateMainState"}
    <3>1. Fetches(c.op) = <<"main">>
      BY <2>3, FetchesFacts
    <3> QED BY <3>1
  <2>4. CASE c.op \in Scripts \cup {"initMainState", "createPool"}
    <3>1. Fetches(c.op) = << >>
      BY <2>4, FetchesFacts
    <3> QED BY <3>1
  <2> QED BY <1>1, <2>1, <2>2, <2>3, <2>4 DEF Ops
<1>3. << >> \in Seq(Accounts)
  OBVIOUS
<1> DEFINE F == Fetches(c.op)
           op == c.op
           n1 == n + 1
<1>4. n1 \in Nat \ {0} /\ op \in Ops /\ F \in Seq({"main", "pool"})
  BY <1>1, <1>2
<1> DEFINE none == << >>
<1> HIDE DEF F, op, n1
<1> DEFINE q == [phase |-> "running", n |-> n1, op |-> op, c |-> c, seen |-> none,
                 toFetch |-> F, result |-> "none", fate |-> "unknown"]
<1>5. q \in Called
  <2>1. none \in Seq(Accounts)
    BY <1>3
  <2> HIDE DEF none
  <2>2. "running" \in {"running", "waiting", "returned"}
    OBVIOUS
  <2>3. "none" \in Results /\ "unknown" \in Fates
    BY DEF Results, Fates
  <2>4. c \in CallArguments
    OBVIOUS
  <2> QED BY <2>1, <2>2, <2>3, <2>4, <1>4, CalledRecord, Zenon
<1>6. q.phase = "running" /\ q.op = op /\ q.c = c /\ q.seen = << >> /\ q.toFetch = F
      /\ q.fate = "unknown"
  OBVIOUS
<1>7. k = q
  BY DEF F, op, n1
<1> HIDE DEF k, q
<1>8. Len(F) \in Nat /\ Len(<< >>) = 0 /\ Fetches(op) = F
  BY <1>4 DEF F, op
<1>9. HasSeen(q)
  BY <1>6, <1>8 DEF HasSeen
<1>10. Wants(q)
  <2>1. F = << >> => Len(F) = 0
    OBVIOUS
  <2> QED BY <1>6, <1>8, <2>1 DEF Wants
<1>11. CallOK(q)
  BY <1>5, <1>6, <1>9, <1>10 DEF CallOK, op
<1> QED BY <1>7, <1>11 DEF k

(* An update of fields of call[s] is an update of call[s].                   *)
LEMMA ReturnPath ==
    ASSUME CallsOK, NEW s \in Sessions, NEW r,
           call' = [call EXCEPT ![s].phase = "returned", ![s].result = r]
    PROVE  call' = [call EXCEPT ![s] = [call[s] EXCEPT !.phase = "returned", !.result = r]]
<1>1. DOMAIN call = Sessions
  BY DEF CallsOK
<1> QED BY <1>1

(* The same for a fetch.                                                     *)
LEMMA FetchPath ==
    ASSUME CallsOK, NEW s \in Sessions, NEW r,
           call' = [call EXCEPT ![s].toFetch = Tail(@), ![s].seen = Append(@, r)]
    PROVE  call' = [call EXCEPT ![s] = [call[s] EXCEPT !.toFetch = Tail(@), !.seen = Append(@, r)]]
<1>1. DOMAIN call = Sessions
  BY DEF CallsOK
<1> QED BY <1>1

(* The same for a fate.                                                      *)
LEMMA FatePath ==
    ASSUME CallsOK, NEW s \in Sessions, NEW r,
           call' = [call EXCEPT ![s].fate = r]
    PROVE  call' = [call EXCEPT ![s] = [call[s] EXCEPT !.fate = r]]
<1>1. DOMAIN call = Sessions
  BY DEF CallsOK
<1> QED BY <1>1

(* The instruction each call submits.                                        *)
LEMMA InstructionFacts ==
    ASSUME NEW u, NEW c, NEW seen
    PROVE  /\ c.op = "buy" => Instruction(u, c, seen) =
                  Trade("buy_tokens_from_exact_quote", u, c, 0, seen)
           /\ c.op = "buy2" => Instruction(u, c, seen) =
                  Trade("buy_exact_tokens_from_quote", u, c, MaxQuoteAmount(c, seen), seen)
           /\ c.op = "sell" => Instruction(u, c, seen) = Trade("sell", u, c, 0, seen)
           /\ c.op = "withdraw" => Instruction(u, c, seen) =
                  [ix |-> "withdraw", user |-> u, m |-> c.m]
           /\ c.op = "createPool" => Instruction(u, c, seen) =
                  [ix |-> "create_pool", user |-> u, m |-> c.m]
           /\ c.op \in {"initMainState", "init_state"} => Instruction(u, c, seen) =
                  [ix |-> "init_main_state", user |-> u]
           /\ c.op = "transferOwnership" => Instruction(u, c, seen) =
                  [ix |-> "transfer_ownership", user |-> u, new_owner |-> c.new_owner]
           /\ c.op = "updateMainState" => Instruction(u, c, seen) =
                  [ix |-> "update_main_state", user |-> u,
                   input |-> UpdateInput(c.given, seen[1])]
           /\ c.op = "update_state" => Instruction(u, c, seen) =
                  [ix |-> "update_main_state", user |-> u, input |-> c.given]
<1> DEFINE op == c.op
           Inits == {"initMainState", "init_state"}
           A1 == Trade("buy_tokens_from_exact_quote", u, c, 0, seen)
           A2 == Trade("buy_exact_tokens_from_quote", u, c, MaxQuoteAmount(c, seen), seen)
           A3 == Trade("sell", u, c, 0, seen)
           A4 == [ix |-> "withdraw", user |-> u, m |-> c.m]
           A5 == [ix |-> "create_pool", user |-> u, m |-> c.m]
           A6 == [ix |-> "init_main_state", user |-> u]
           A7 == [ix |-> "transfer_ownership", user |-> u, new_owner |-> c.new_owner]
           A8 == [ix |-> "update_main_state", user |-> u,
                  input |-> UpdateInput(c.given, seen[1])]
           A9 == [ix |-> "update_main_state", user |-> u, input |-> c.given]
<1>1. Instruction(u, c, seen) =
        CASE op = "buy" -> A1
          [] op = "buy2" -> A2
          [] op = "sell" -> A3
          [] op = "withdraw" -> A4
          [] op = "createPool" -> A5
          [] op \in Inits -> A6
          [] op = "transferOwnership" -> A7
          [] op = "updateMainState" -> A8
          [] op = "update_state" -> A9
  BY Zenon DEF Instruction
<1>2. /\ "buy" \notin Inits /\ "buy2" \notin Inits /\ "sell" \notin Inits
      /\ "withdraw" \notin Inits /\ "createPool" \notin Inits
      /\ "transferOwnership" \notin Inits /\ "updateMainState" \notin Inits
      /\ "update_state" \notin Inits
      /\ op \in Inits => /\ op # "buy" /\ op # "buy2" /\ op # "sell" /\ op # "withdraw"
                         /\ op # "createPool" /\ op # "transferOwnership"
                         /\ op # "updateMainState" /\ op # "update_state"
  OBVIOUS
<1> HIDE DEF op, Inits, A1, A2, A3, A4, A5, A6, A7, A8, A9
<1>3. op = "buy" => Instruction(u, c, seen) = A1
  BY <1>1, <1>2, Zenon
<1>4. op = "buy2" => Instruction(u, c, seen) = A2
  BY <1>1, <1>2, Zenon
<1>5. op = "sell" => Instruction(u, c, seen) = A3
  BY <1>1, <1>2, Zenon
<1>6. op = "withdraw" => Instruction(u, c, seen) = A4
  BY <1>1, <1>2, Zenon
<1>7. op = "createPool" => Instruction(u, c, seen) = A5
  BY <1>1, <1>2, Zenon
<1>8. op \in Inits => Instruction(u, c, seen) = A6
  BY <1>1, <1>2, Zenon
<1>9. op = "transferOwnership" => Instruction(u, c, seen) = A7
  BY <1>1, <1>2, Zenon
<1>10. op = "updateMainState" => Instruction(u, c, seen) = A8
  BY <1>1, <1>2, Zenon
<1>11. op = "update_state" => Instruction(u, c, seen) = A9
  BY <1>1, <1>2, Zenon
<1> QED BY <1>3, <1>4, <1>5, <1>6, <1>7, <1>8, <1>9, <1>10, <1>11, Zenon
       DEF op, Inits, A1, A2, A3, A4, A5, A6, A7, A8, A9

(* What an update sends is of the type the program takes.                    *)
LEMMA UpdateInputFacts ==
    ASSUME NEW given \in GivenTerms, NEW read \in MainStateAccount
    PROVE  UpdateInput(given, read) \in UpdateMainStateInput
<1>1. MAX_TRADING_FEE <= U64_MAX /\ U64_MAX \in Nat /\ MAX_TRADING_FEE \in Nat
  BY ConfigAssumption, WidthAssumption, FeeAssumption DEF MAX_TRADING_FEE
<1>2. read.trading_fee \in U64 /\ read.withdrawer \in Holders /\ read.fee_recipient \in Holders
  BY <1>1 DEF MainStateAccount, U64
<1>3. /\ OrElse(given.withdrawer, read.withdrawer) \in Holders
      /\ OrElse(given.fee_recipient, read.fee_recipient) \in Holders
      /\ (IF Truthy(given.trading_fee) THEN given.trading_fee ELSE read.trading_fee) \in U64
  BY <1>2 DEF GivenTerms, Option, OrElse, Truthy
<1>4. ASSUME NEW n \in Option(U64)
      PROVE  (IF Truthy(n) THEN n ELSE None) \in Option(U64)
  BY DEF Option
<1>5. /\ given.total_supply \in Option(U64) /\ given.init_virt_base_reserves \in Option(U64)
      /\ given.init_virt_quote_reserves \in Option(U64)
      /\ given.real_quote_threshold \in Option(U64)
  BY DEF GivenTerms
<1> QED BY <1>3, <1>4, <1>5 DEF UpdateInput, UpdateMainStateInput

(* Who fetches a pool names its mint.                                        *)
LEMMA PoolIsNamed ==
    ASSUME NEW c \in CallArguments, NEW i \in 1 .. Len(Fetches(c.op)),
           Fetches(c.op)[i] = "pool"
    PROVE  c.m \in BaseMints
<1>1. c.op \in Ops
  BY ArgumentFacts
<1>2. CASE c.op \in {"transferOwnership", "updateMainState"}
  <2>1. Fetches(c.op) = <<"main">>
    BY <1>2, FetchesFacts
  <2> QED BY <2>1
<1>3. CASE c.op \in Scripts \cup {"initMainState", "createPool"}
  <2>1. Fetches(c.op) = << >>
    BY <1>3, FetchesFacts
  <2> QED BY <2>1
<1>4. CASE c.op \in Quotes \cup {"buy", "sell", "withdraw", "buy2"}
  BY <1>4, ArgumentFacts
<1> QED BY <1>1, <1>2, <1>3, <1>4 DEF Ops

(* A call that is ready submits an instruction of the right types.           *)
LEMMA InstructionIsTyped ==
    ASSUME NEW k, CallOK(k), k.phase = "running", k.toFetch = << >>, k.op \notin Quotes,
           NEW u \in Users
    PROVE  Submittable(Instruction(u, k.c, k.seen))
<1> DEFINE c == k.c
           t == Instruction(u, c, k.seen)
<1>1. c \in CallArguments /\ c.op = k.op /\ k.op \in Ops
  BY DEF CallOK, Called
<1>2. CASE c.op \in {"buy", "buy2", "sell"}
  <2>1. c.m \in BaseMints /\ c.amount \in U64
    BY <1>1, <1>2, ArgumentFacts
  <2>2. t.user = u /\ t.m = c.m /\ t.amount = c.amount
        /\ t.ix \in {"buy_tokens_from_exact_quote", "buy_exact_tokens_from_quote", "sell"}
    BY <1>2, InstructionFacts DEF Trade
  <2> HIDE DEF t
  <2> QED BY <2>1, <2>2 DEF Submittable, t
<1>3. CASE c.op \in {"withdraw", "createPool"}
  <2>1. c.m \in BaseMints
    BY <1>1, <1>3, ArgumentFacts
  <2>2. t.user = u /\ t.m = c.m /\ t.ix \in {"withdraw", "create_pool"}
    BY <1>3, InstructionFacts
  <2> HIDE DEF t
  <2> QED BY <2>1, <2>2 DEF Submittable, t
<1>4. CASE c.op \in {"initMainState", "init_state"}
  <2>1. t.user = u /\ t.ix = "init_main_state"
    BY <1>4, InstructionFacts
  <2> HIDE DEF t
  <2> QED BY <2>1 DEF Submittable, t
<1>5. CASE c.op = "transferOwnership"
  <2>1. t.user = u /\ t.ix = "transfer_ownership" /\ t.new_owner = c.new_owner
    BY <1>5, InstructionFacts
  <2>2. c.new_owner \in Holders
    BY <1>1, <1>5, ArgumentFacts
  <2> HIDE DEF t
  <2> QED BY <2>1, <2>2 DEF Submittable, t
<1>6. CASE c.op = "updateMainState"
  <2>1. t.user = u /\ t.ix = "update_main_state" /\ t.input = UpdateInput(c.given, k.seen[1])
    BY <1>6, InstructionFacts
  <2>2. c.given \in GivenTerms
    BY <1>1, <1>6, ArgumentFacts
  <2>3. Fetches(k.op) = <<"main">>
    BY <1>1, <1>6, FetchesFacts
  <2>4. Len(k.seen) = 1 /\ k.seen[1] \in Fetched("main")
    BY <1>1, <1>6, <2>3 DEF CallOK, HasSeen, Wants
  <2>5. t.input \in UpdateMainStateInput
    BY <2>1, <2>2, <2>4, FetchedIsAccount, UpdateInputFacts
  <2> HIDE DEF t
  <2> QED BY <2>1, <2>5 DEF Submittable, t
<1>7. CASE c.op = "update_state"
  <2>1. t.user = u /\ t.ix = "update_main_state" /\ t.input = c.given
    BY <1>7, InstructionFacts
  <2>2. c.given \in UpdateMainStateInput
    BY <1>1, <1>7, ArgumentFacts
  <2> HIDE DEF t
  <2> QED BY <2>1, <2>2 DEF Submittable, t
<1> QED BY <1>1, <1>2, <1>3, <1>4, <1>5, <1>6, <1>7 DEF Ops, Scripts

-----------------------------------------------------------------------------
(* The sessions and the network between them and the program.                *)
(* A transaction on its way is typed; that of its session's present call is  *)
(* what the call built from what it had seen, and its fate is not known yet. *)
OnItsWay(t) ==
    /\ t.by \in Sessions
    /\ t.n \in Nat \ {0}
    /\ t.n <= call[t.by].n
    /\ Submittable(t.tx)
    /\ t.n = call[t.by].n =>
           /\ call[t.by].phase # "running"
           /\ call[t.by].fate = "unknown"
           /\ t.tx = Instruction(Wallet[t.by], call[t.by].c, call[t.by].seen)

InflightOK ==
    /\ \A t \in inflight : OnItsWay(t)
    /\ \A t, r \in inflight : t.by = r.by /\ t.n = r.n => t = r

(* The result of one call is true.                                           *)
Truthful(k) ==
    k.phase = "returned" /\ k.result = "Ok"
        /\ k.op \notin Quotes \cup Scripts \cup {"none"}
        => k.fate = "executed"

SessionInv == CallsOK /\ InflightOK /\ OkMeansExecuted

(* OkMeansExecuted, call by call.                                            *)
LEMMA OkIsTruthful == OkMeansExecuted <=> \A s \in Sessions : Truthful(call[s])
  BY DEF OkMeansExecuted, Truthful

(* The same after a step.                                                    *)
LEMMA OkIsTruthfulPrimed ==
    OkMeansExecuted' <=> \A s \in Sessions : Truthful(call'[s])
  BY DEF OkMeansExecuted, Truthful

(* Whoever is not back from a call has made one.                             *)
LEMMA NumberIsNat ==
    ASSUME CallsOK, NEW s \in Sessions
    PROVE  call[s].n \in Nat
           /\ (call[s].phase # "returned" => CallOK(call[s]))
           /\ (call[s].n # 0 => CallOK(call[s]))
<1>1. CASE call[s] = NoCall
  BY <1>1 DEF NoCall
<1>2. CASE CallOK(call[s])
  BY <1>2 DEF CallOK, Called
<1> QED BY <1>1, <1>2 DEF CallsOK

(* A step of one session that sends nothing.                                 *)
LEMMA SessionStep ==
    ASSUME SessionInv, inflight' = inflight, NEW s \in Sessions,
           NEW k, CallOK(k), Truthful(k), call' = [call EXCEPT ![s] = k],
           \/ call[s].n < k.n
           \/ /\ k.n = call[s].n
              /\ \/ call[s].phase = "running"
                 \/ /\ k.phase # "running" /\ k.fate = call[s].fate
                    /\ k.c = call[s].c /\ k.seen = call[s].seen
    PROVE  SessionInv'
<1>1. CallsOK' /\ call'[s] = k /\ \A r \in Sessions \ {s} : call'[r] = call[r]
  BY CallSet DEF SessionInv
<1>2. OkMeansExecuted'
  BY <1>1, OkIsTruthful, OkIsTruthfulPrimed DEF SessionInv
<1>3. k.n \in Nat /\ call[s].n \in Nat
  BY NumberIsNat DEF CallOK, Called, SessionInv
<1>4. ASSUME NEW t \in inflight PROVE OnItsWay(t)'
  <2>1. OnItsWay(t) /\ t.by \in Sessions
    BY DEF SessionInv, InflightOK, OnItsWay
  <2>2. CASE t.by # s
    BY <1>1, <2>1, <2>2 DEF OnItsWay
  <2>3. CASE t.by = s /\ t.n < k.n
    BY <1>1, <1>3, <2>1, <2>3 DEF OnItsWay
  <2>4. CASE t.by = s /\ ~(t.n < k.n)
    <3>1. t.n = call[s].n /\ k.n = call[s].n
      BY <1>3, <2>1, <2>4 DEF OnItsWay
    <3>2. call[s].phase # "running"
      BY <3>1, <2>1, <2>4 DEF OnItsWay
    <3> QED BY <1>1, <2>1, <2>4, <3>1, <3>2 DEF OnItsWay
  <2> QED BY <2>2, <2>3, <2>4
<1>5. InflightOK'
  BY <1>4 DEF SessionInv, InflightOK
<1> QED BY <1>1, <1>2, <1>5 DEF SessionInv

(* A call returns something it may return.                                   *)
LEMMA ReturnStep ==
    ASSUME SessionInv, inflight' = inflight, NEW s \in Sessions,
           NEW r \in Results, Return(s, r), call[s].phase # "returned",
           r = "Ok" /\ call[s].op \notin Quotes \cup Scripts => call[s].fate = "executed"
    PROVE  SessionInv'
<1>1. CallsOK /\ CallOK(call[s])
  BY NumberIsNat DEF SessionInv
<1> DEFINE k == [call[s] EXCEPT !.phase = "returned", !.result = r]
<1>2. call' = [call EXCEPT ![s] = k]
  BY <1>1, ReturnPath DEF Return
<1>3. /\ CallOK(k) /\ k.phase = "returned" /\ k.result = r /\ k.n = call[s].n
      /\ k.op = call[s].op /\ k.c = call[s].c /\ k.seen = call[s].seen
      /\ k.fate = call[s].fate
  BY <1>1, ReturnedOK
<1> HIDE DEF k
<1>4. Truthful(k)
  BY <1>3 DEF Truthful
<1> QED BY <1>2, <1>3, <1>4, SessionStep

(* The steps of a session, one by one.                                       *)
LEMMA StartStep ==
    ASSUME SessionInv, NEW s \in Sessions, NEW c \in Calls[s], Start(s, c)
    PROVE  SessionInv'
<1> DEFINE n == call[s].n
           k == [phase |-> "running", n |-> n + 1, op |-> c.op, c |-> c, seen |-> << >>,
                 toFetch |-> Fetches(c.op), result |-> "none", fate |-> "unknown"]
<1>1. CallsOK /\ n \in Nat /\ c \in CallArguments
  BY NumberIsNat, ClientAssumption DEF SessionInv
<1>2. call' = [call EXCEPT ![s] = k] /\ inflight' = inflight
  BY DEF Start
<1>3. CallOK(k)
  BY <1>1, StartOK
<1>4. k.phase = "running" /\ k.n = n + 1
  OBVIOUS
<1> HIDE DEF k
<1>5. Truthful(k) /\ n < k.n
  BY <1>1, <1>4 DEF Truthful
<1> QED BY <1>2, <1>3, <1>5, SessionStep

(* A fetch, whether it succeeds or not.                                      *)
LEMMA FetchStep ==
    ASSUME IInv, SessionInv, NEW s \in Sessions, Fetch(s)
    PROVE  SessionInv'
<1> DEFINE k == call[s]
           what == Head(k.toFetch)
           there == IF what = "main" THEN mainState.exists ELSE pool[k.c.m].exists
           a == IF what = "main" THEN mainState ELSE pool[k.c.m]
           got == [k EXCEPT !.toFetch = Tail(@), !.seen = Append(@, a)]
           without == [k EXCEPT !.toFetch = << >>]
<1>1. /\ k.phase = "running" /\ k.toFetch # << >> /\ inflight' = inflight
      /\ \/ there /\ call' = [call EXCEPT ![s].toFetch = Tail(@), ![s].seen = Append(@, a)]
         \/ k.op = "buy2" /\ call' = [call EXCEPT ![s].toFetch = << >>]
         \/ Return(s, IF what = "main" THEN "FAILED_TO_FETCH_DATA" ELSE "POOL_NOT_FOUND")
  BY DEF Fetch
<1>2. CallsOK /\ CallOK(k)
  BY <1>1, NumberIsNat DEF SessionInv
<1>3. CASE there /\ call' = [call EXCEPT ![s].toFetch = Tail(@), ![s].seen = Append(@, a)]
  <2>1. call' = [call EXCEPT ![s] = got]
    BY <1>2, <1>3, FetchPath
  <2>2. what \in {"main", "pool"} /\ (what # "main" => k.c.m \in BaseMints)
    <3>1. /\ k.toFetch \in Seq({"main", "pool"}) /\ k.c \in CallArguments
          /\ k.seen \in Seq(Accounts) /\ k.op = k.c.op
          /\ Len(k.seen) + Len(k.toFetch) = Len(Fetches(k.op))
          /\ \A i \in 1 .. Len(k.toFetch) : k.toFetch[i] = Fetches(k.op)[Len(k.seen) + i]
      BY <1>1, <1>2 DEF CallOK, Called, Wants
    <3>2. Len(k.toFetch) \in Nat \ {0} /\ Len(k.seen) \in Nat
          /\ what = k.toFetch[1] /\ what \in {"main", "pool"}
      BY <1>1, <3>1
    <3>3. what = Fetches(k.op)[Len(k.seen) + 1]
          /\ Len(k.seen) + 1 \in 1 .. Len(Fetches(k.op))
      <4> DEFINE F == Fetches(k.op)
                 seen == k.seen
                 todo == k.toFetch
      <4>1. Len(seen) + Len(todo) = Len(F) /\ Len(todo) \in Nat \ {0} /\ Len(seen) \in Nat
            /\ what = todo[1]
        BY <3>1, <3>2
      <4>2. 1 \in 1 .. Len(todo) => todo[1] = F[Len(seen) + 1]
        BY <3>1
      <4> HIDE DEF F, seen, todo, what
      <4>3. what = F[Len(seen) + 1] /\ Len(seen) + 1 \in 1 .. Len(F)
        BY <4>1, <4>2
      <4> QED BY <4>3 DEF F, seen
    <3> QED BY <3>1, <3>2, <3>3, PoolIsNamed
  <2>3. a \in Fetched(what)
    BY <1>3, <2>2, IInvParts DEF Fetched, PoolsOK
  <2>4. CallOK(got) /\ got.phase = k.phase /\ got.n = k.n
    BY <1>1, <1>2, <2>3, FetchOK
  <2> HIDE DEF got
  <2>5. Truthful(got)
    BY <1>1, <2>4 DEF Truthful
  <2> QED BY <1>1, <2>1, <2>4, <2>5, SessionStep
<1>4. CASE k.op = "buy2" /\ call' = [call EXCEPT ![s].toFetch = << >>]
  <2>1. call' = [call EXCEPT ![s] = without]
    BY <1>2, <1>4 DEF CallsOK
  <2>2. CallOK(without) /\ without.phase = k.phase /\ without.n = k.n
    BY <1>2, <1>4, GivenUpQuoteOK
  <2> HIDE DEF without
  <2>3. Truthful(without)
    BY <1>1, <2>2 DEF Truthful
  <2> QED BY <1>1, <2>1, <2>2, <2>3, SessionStep
<1>5. CASE Return(s, IF what = "main" THEN "FAILED_TO_FETCH_DATA" ELSE "POOL_NOT_FOUND")
  BY <1>1, <1>5, ReturnStep DEF Results
<1> QED BY <1>1, <1>3, <1>4, <1>5

(* The answer of a quote.                                                    *)
LEMMA AnswerStep ==
    ASSUME SessionInv, NEW s \in Sessions, Answer(s)
    PROVE  SessionInv'
<1>1. /\ call[s].phase = "running" /\ call[s].op \in Quotes /\ inflight' = inflight
      /\ Return(s, "thrown") \/ Return(s, "Ok")
  BY Zenon DEF Answer, Ready
<1> QED BY <1>1, ReturnStep DEF Results

(* What a submission does, whatever the simulation says.                     *)
LEMMA SubmitCases ==
    ASSUME NEW s \in Sessions, Submit(s)
    PROVE  /\ call[s].phase = "running" /\ call[s].toFetch = << >>
           /\ call[s].op \notin Quotes
           /\ \/ Return(s, "thrown") /\ UNCHANGED inflight
              \/ Return(s, "TX_FAILED") /\ UNCHANGED inflight
              \/ /\ inflight' = inflight \cup
                       {[by |-> s, n |-> call[s].n,
                         tx |-> Instruction(Wallet[s], call[s].c, call[s].seen)]}
                 /\ call' = [call EXCEPT ![s].phase = "waiting"]
  BY Zenon DEF Submit, Ready

(* A submission, by its three outcomes.                                      *)
LEMMA SubmitStep ==
    ASSUME SessionInv, NEW s \in Sessions, Submit(s)
    PROVE  SessionInv'
<1> DEFINE k == call[s]
           tx == Instruction(Wallet[s], k.c, k.seen)
           sent == [by |-> s, n |-> k.n, tx |-> tx]
           w == [k EXCEPT !.phase = "waiting"]
<1>1. k.phase = "running" /\ k.toFetch = << >> /\ k.op \notin Quotes
  BY SubmitCases
<1>2. CallsOK /\ CallOK(k) /\ k.n \in Nat \ {0}
  BY <1>1, NumberIsNat DEF SessionInv, CallOK, Called
<1>3. CASE Return(s, "thrown") /\ UNCHANGED inflight
  BY <1>1, <1>3, ReturnStep DEF Results
<1>4. CASE Return(s, "TX_FAILED") /\ UNCHANGED inflight
  BY <1>1, <1>4, ReturnStep DEF Results
<1>5. CASE inflight' = inflight \cup {sent} /\ call' = [call EXCEPT ![s].phase = "waiting"]
  <2>1. call' = [call EXCEPT ![s] = w]
    BY <1>2, <1>5 DEF CallsOK
  <2>2. CallOK(w) /\ w.phase = "waiting" /\ w.n = k.n /\ w.c = k.c /\ w.seen = k.seen
        /\ w.fate = k.fate
    BY <1>1, <1>2, WaitingOK
  <2> HIDE DEF w
  <2>3. CallsOK' /\ call'[s] = w /\ \A r \in Sessions \ {s} : call'[r] = call[r]
    BY <1>2, <2>1, <2>2, CallSet
  <2>4. Truthful(w)
    BY <2>2 DEF Truthful
  <2>5. OkMeansExecuted'
    BY <2>3, <2>4, OkIsTruthful, OkIsTruthfulPrimed DEF SessionInv
  <2>6. k.fate = "unknown"
    BY <1>1, <1>2 DEF CallOK
  <2>7. Submittable(tx)
    BY <1>1, <1>2, InstructionIsTyped, ClientAssumption
  <2>8. sent.by = s /\ sent.n = k.n /\ sent.tx = tx
    OBVIOUS
  <2>9. ASSUME NEW t, t = sent
        PROVE  OnItsWay(t)'
    <3> HIDE DEF tx
    <3>1. t.by = s /\ t.n = k.n /\ t.tx = tx
      BY <2>9
    <3> QED BY <3>1, <1>2, <2>2, <2>3, <2>6, <2>7 DEF OnItsWay, tx
  <2>10. ASSUME NEW t \in inflight
         PROVE  OnItsWay(t)' /\ ~(t.by = s /\ t.n = k.n)
    BY <1>1, <2>2, <2>3 DEF SessionInv, InflightOK, OnItsWay
  <2>11. InflightOK'
    <3> HIDE DEF sent
    <3>1. \A t \in inflight' : t \in inflight \/ t = sent
      BY <1>5
    <3>2. \A t \in inflight' : OnItsWay(t)'
      BY <3>1, <2>9, <2>10
    <3>3. \A t, r \in inflight' : t.by = r.by /\ t.n = r.n => t = r
      BY <3>1, <2>8, <2>10 DEF SessionInv, InflightOK
    <3> QED BY <3>2, <3>3 DEF InflightOK
  <2> QED BY <2>3, <2>5, <2>11 DEF SessionInv
<1> QED BY <1>3, <1>4, <1>5, SubmitCases

(* What the caller is told at the end, or instead of it.                     *)
LEMMA ConfirmStep ==
    ASSUME SessionInv, NEW s \in Sessions, Confirm(s) \/ GiveUp(s)
    PROVE  SessionInv'
  BY ReturnStep DEF Confirm, GiveUp, Results

(* A transaction lands, is refused or expires: its call, when it is still    *)
(* the session's present one, learns the fate, once.                         *)
LEMMA SettleStep ==
    ASSUME SessionInv, NEW t \in inflight, NEW f \in Fates, Settle(t, f)
    PROVE  SessionInv'
<1> DEFINE s == t.by
           k == [call[s] EXCEPT !.fate = f]
<1>1. /\ OnItsWay(t) /\ s \in Sessions /\ CallsOK
      /\ \A r \in inflight : OnItsWay(r)
      /\ \A r \in inflight : r.by = s /\ r.n = t.n => r = t
      /\ inflight' = inflight \ {t}
  BY DEF SessionInv, InflightOK, OnItsWay, Settle
<1>2. CASE call[s].n # t.n
  <2>1. call' = call
    BY <1>2 DEF Settle
  <2>2. \A r \in inflight' : OnItsWay(r)'
    BY <1>1, <2>1 DEF OnItsWay
  <2> QED BY <1>1, <2>1, <2>2 DEF SessionInv, CallsOK, InflightOK, OkMeansExecuted
<1>3. CASE call[s].n = t.n
  <2>1. /\ call[s].phase # "running" /\ call[s].fate = "unknown" /\ call[s].n # 0
    BY <1>1, <1>3 DEF OnItsWay
  <2>2. CallOK(call[s])
    BY <1>1, <2>1, NumberIsNat
  <2>3. call' = [call EXCEPT ![s] = k]
    BY <1>1, <1>3, FatePath DEF Settle
  <2>4. /\ CallOK(k) /\ k.phase = call[s].phase /\ k.result = call[s].result
        /\ k.n = call[s].n /\ k.op = call[s].op
    BY <2>1, <2>2, SettledOK
  <2> HIDE DEF k
  <2>5. CallsOK' /\ call'[s] = k /\ \A r \in Sessions \ {s} : call'[r] = call[r]
    BY <1>1, <2>3, <2>4, CallSet
  <2>6. Truthful(k)
    <3>1. Truthful(call[s])
      BY <1>1, OkIsTruthful DEF SessionInv
    <3> QED BY <3>1, <2>1, <2>4 DEF Truthful
  <2>7. OkMeansExecuted'
    BY <2>5, <2>6, OkIsTruthful, OkIsTruthfulPrimed DEF SessionInv
  <2>8. ASSUME NEW r \in inflight' PROVE OnItsWay(r)'
    <3>1. r \in inflight /\ OnItsWay(r) /\ ~(r.by = s /\ r.n = t.n)
      BY <1>1
    <3>2. CASE r.by # s
      BY <3>1, <3>2, <2>5 DEF OnItsWay
    <3>3. CASE r.by = s
      BY <3>1, <3>3, <2>4, <2>5, <1>3 DEF OnItsWay
    <3> QED BY <3>2, <3>3
  <2>9. InflightOK'
    BY <1>1, <2>8 DEF InflightOK, SessionInv
  <2> QED BY <2>5, <2>7, <2>9 DEF SessionInv
<1> QED BY <1>2, <1>3

-----------------------------------------------------------------------------
(* The invariant of the program and its callers.                             *)
ClientInv == IInv /\ SessionInv

(* What a transaction's end does to the program: all of it or nothing.       *)
LEMMA DeliverCases ==
    ASSUME NEW s, NEW n, Deliver(s, n)
    PROVE  \E t \in inflight, f \in Fates :
               Settle(t, f) /\ (Execute(t.tx) \/ UNCHANGED vars)
<1>1. PICK t \in inflight : Land(t) \/ Refuse(t) \/ Expire(t)
  BY Zenon DEF Deliver
<1>2. CASE Land(t)
  BY <1>2 DEF Land, Fates
<1>3. CASE Refuse(t)
  <2>1. UNCHANGED vars /\ Settle(t, "failed")
    BY <1>3, Zenon DEF Refuse
  <2> QED BY <2>1 DEF Fates
<1>4. CASE Expire(t)
  BY <1>4 DEF Expire, Fates
<1> QED BY <1>1, <1>2, <1>3, <1>4

(* Steps of the client alone leave the program as it is.                     *)
LEMMA UnchangedKeepsIInv == ASSUME IInv, UNCHANGED vars PROVE IInv'
  BY NextIInv

(* Every step keeps the invariant of the callers.                            *)
LEMMA NextClientInv ==
    ASSUME ClientInv, [ClientNext]_clientVars
    PROVE  ClientInv'
<1>1. IInv /\ SessionInv
  BY DEF ClientInv
<1>2. ASSUME NEW s \in Sessions, NEW c \in Calls[s], Start(s, c) PROVE ClientInv'
  <2>1. UNCHANGED vars
    BY <1>2 DEF Start
  <2> QED BY <1>1, <1>2, <2>1, StartStep, UnchangedKeepsIInv DEF ClientInv
<1>3. ASSUME NEW s \in Sessions, ClientStep(s) \/ GiveUp(s) PROVE ClientInv'
  <2>1. CASE Fetch(s)
    <3>1. UNCHANGED vars
      BY <2>1, Zenon DEF Fetch
    <3> QED BY <1>1, <2>1, <3>1, FetchStep, UnchangedKeepsIInv DEF ClientInv
  <2>2. CASE Answer(s)
    <3>1. UNCHANGED vars
      BY <2>2, Zenon DEF Answer
    <3> QED BY <1>1, <2>2, <3>1, AnswerStep, UnchangedKeepsIInv DEF ClientInv
  <2>3. CASE Submit(s)
    <3>1. UNCHANGED vars
      BY <2>3, Zenon DEF Submit
    <3> QED BY <1>1, <2>3, <3>1, SubmitStep, UnchangedKeepsIInv DEF ClientInv
  <2>4. CASE Confirm(s) \/ GiveUp(s)
    <3>1. UNCHANGED vars
      BY <2>4, Zenon DEF Confirm, GiveUp
    <3> QED BY <1>1, <2>4, <3>1, ConfirmStep, UnchangedKeepsIInv DEF ClientInv
  <2> QED BY <1>3, <2>1, <2>2, <2>3, <2>4 DEF ClientStep
<1>4. ASSUME NEW s \in Sessions, NEW n \in 1 .. MaxCalls, Deliver(s, n) PROVE ClientInv'
  <2>1. PICK t \in inflight, f \in Fates :
          Settle(t, f) /\ (Execute(t.tx) \/ UNCHANGED vars)
    BY <1>4, DeliverCases
  <2>2. Submittable(t.tx)
    BY <1>1 DEF SessionInv, InflightOK, OnItsWay
  <2>3. IInv'
    BY <1>1, <2>1, <2>2, ExecuteKeepsIInv, UnchangedKeepsIInv
  <2> QED BY <1>1, <2>1, <2>3, SettleStep DEF ClientInv
<1>5. CASE Next /\ UNCHANGED <<call, inflight, quote>>
  <2>1. IInv'
    BY <1>1, <1>5, NextIInv
  <2>2. SessionInv'
    BY <1>1, <1>5 DEF SessionInv, CallsOK, InflightOK, OnItsWay, OkMeansExecuted
  <2> QED BY <2>1, <2>2 DEF ClientInv
<1>6. CASE UNCHANGED clientVars
  <2>1. UNCHANGED vars /\ UNCHANGED <<call, inflight, quote>>
    BY <1>6 DEF clientVars
  <2>2. SessionInv'
    BY <1>1, <2>1 DEF SessionInv, CallsOK, InflightOK, OnItsWay, OkMeansExecuted
  <2> QED BY <1>1, <2>1, <2>2, UnchangedKeepsIInv DEF ClientInv
<1> QED BY <1>2, <1>3, <1>4, <1>5, <1>6 DEF ClientNext

(* It holds at the beginning, when nobody has called.                        *)
LEMMA InitClientInv == ClientInit => ClientInv
<1> SUFFICES ASSUME ClientInit PROVE ClientInv
  OBVIOUS
<1>1. IInv
  BY InitIInv DEF ClientInit
<1>2. CallsOK
  BY DEF ClientInit, CallsOK
<1>3. InflightOK
  BY DEF ClientInit, InflightOK
<1>4. OkMeansExecuted
  <2>1. \A s \in Sessions : call[s].op = "none"
    BY DEF ClientInit, NoCall
  <2> QED BY <2>1 DEF OkMeansExecuted
<1> QED BY <1>1, <1>2, <1>3, <1>4 DEF ClientInv, SessionInv

(* Throughout, the accounts are sound (IInv), every call is at a stage its   *)
(* operation has, with the accounts it has fetched of their types, and a     *)
(* transaction on its way for a call still waiting is the one that call      *)
(* built (ali_index.ts:200-414, scripts).                                    *)
THEOREM CallersInvariant == ClientSpec => []ClientInv
<1>1. ClientInv /\ [ClientNext]_clientVars => ClientInv'
  BY NextClientInv
<1> QED BY <1>1, InitClientInv, PTL DEF ClientSpec

(* A call of the client says Ok only of a transaction the program executed,  *)
(* whatever the network loses or delays and however late it settles          *)
(* (ali_index.ts:255-260, ali_index.ts:376-378).                             *)
THEOREM OkIsOnlySaidOfWhatWasExecuted == ClientSpec => []OkMeansExecuted
<1>1. ClientInv => OkMeansExecuted
  BY DEF ClientInv, SessionInv
<1> QED BY <1>1, CallersInvariant, PTL

-----------------------------------------------------------------------------
(* Updates.                                                                  *)
LEMMA LandedUpdate ==
    ASSUME ClientInv, NEW t \in inflight, Land(t),
           call[t.by].n = t.n, call[t.by].op = "updateMainState"
    PROVE  LET input == UpdateInput(call[t.by].c.given, call[t.by].seen[1])
           IN  mainState' = [mainState EXCEPT
                   !.withdrawer = input.withdrawer,
                   !.fee_recipient = input.fee_recipient,
                   !.trading_fee = input.trading_fee,
                   !.total_supply = OrElse(input.total_supply, @),
                   !.init_virt_base_reserves = OrElse(input.init_virt_base_reserves, @),
                   !.init_virt_quote_reserves = OrElse(input.init_virt_quote_reserves, @),
                   !.real_quote_threshold = OrElse(input.real_quote_threshold, @)]
<1> DEFINE k == call[t.by]
           input == UpdateInput(k.c.given, k.seen[1])
<1>1. OnItsWay(t) /\ CallsOK
  BY DEF ClientInv, SessionInv, InflightOK
<1>2. t.by \in Sessions /\ k.n # 0 /\ t.tx = Instruction(Wallet[t.by], k.c, k.seen)
  BY <1>1 DEF OnItsWay
<1>3. k.c.op = "updateMainState"
  BY <1>1, <1>2, NumberIsNat DEF CallOK
<1>4. t.tx = [ix |-> "update_main_state", user |-> Wallet[t.by], input |-> input]
  BY <1>2, <1>3, InstructionFacts
<1> HIDE DEF input
<1>5. t.tx.ix = "update_main_state" /\ t.tx.input = input
  BY <1>4
<1>6. UpdateMainState(t.tx.user, input)
  BY <1>5 DEF Land, Execute
<1> QED BY <1>6 DEF UpdateMainState, input

(* An update of one caller keeps every term it was not given, whoever changed*)
(* it meanwhile, and the roles and the fee unless they changed since it read *)
(* them (ali_index.ts:113-166).                                              *)
THEOREM UpdatesTouchNothingElse == ClientSpec => UpdatesKeepTheRest
<1>1. ASSUME ClientInv, NEW t \in inflight, Land(t),
             call[t.by].n = t.n, call[t.by].op = "updateMainState",
             NEW f \in Terms \cup Roles,
             call[t.by].c.given[f] = None,
             f \in Terms \/ call[t.by].seen[1][f] = mainState[f]
      PROVE  mainState'[f] = mainState[f]
  <2> DEFINE k == call[t.by]
             given == k.c.given
             read == k.seen[1]
             input == UpdateInput(given, read)
  <2>1. mainState \in MainStateAccount
    BY <1>1, IInvParts DEF ClientInv
  <2>2. mainState' = [mainState EXCEPT
                   !.withdrawer = input.withdrawer,
                   !.fee_recipient = input.fee_recipient,
                   !.trading_fee = input.trading_fee,
                   !.total_supply = OrElse(input.total_supply, @),
                   !.init_virt_base_reserves = OrElse(input.init_virt_base_reserves, @),
                   !.init_virt_quote_reserves = OrElse(input.init_virt_quote_reserves, @),
                   !.real_quote_threshold = OrElse(input.real_quote_threshold, @)]
    BY <1>1, LandedUpdate
  <2>3. /\ input.withdrawer = OrElse(given.withdrawer, read.withdrawer)
        /\ input.fee_recipient = OrElse(given.fee_recipient, read.fee_recipient)
        /\ input.trading_fee = (IF Truthy(given.trading_fee) THEN given.trading_fee
                                ELSE read.trading_fee)
        /\ input.total_supply = (IF Truthy(given.total_supply) THEN given.total_supply
                                 ELSE None)
        /\ input.init_virt_base_reserves =
               (IF Truthy(given.init_virt_base_reserves)
                THEN given.init_virt_base_reserves ELSE None)
        /\ input.init_virt_quote_reserves =
               (IF Truthy(given.init_virt_quote_reserves)
                THEN given.init_virt_quote_reserves ELSE None)
        /\ input.real_quote_threshold =
               (IF Truthy(given.real_quote_threshold)
                THEN given.real_quote_threshold ELSE None)
    BY DEF UpdateInput
  <2> HIDE DEF input, given, read
  <2>4. given[f] = None /\ (f \in Terms \/ read[f] = mainState[f])
    BY <1>1 DEF given, read
  <2>5. CASE f \in Roles
    BY <2>1, <2>2, <2>3, <2>4, <2>5
       DEF Roles, Terms, MainStateAccount, OrElse, Truthy
  <2>6. CASE f \in Terms
    BY <2>1, <2>2, <2>3, <2>4, <2>6
       DEF Roles, Terms, MainStateAccount, OrElse, Truthy
  <2> QED BY <1>1, <2>5, <2>6
<1>2. ClientInv /\ [ClientNext]_clientVars =>
        \A t \in inflight :
          LET k == call[t.by]
          IN  Land(t) /\ k.n = t.n /\ k.op = "updateMainState" =>
                \A f \in Terms \cup Roles :
                    k.c.given[f] = None /\ (f \in Terms \/ k.seen[1][f] = mainState[f])
                        => mainState'[f] = mainState[f]
  BY <1>1
<1> QED BY <1>2, CallersInvariant, PTL DEF ClientSpec, UpdatesKeepTheRest

-----------------------------------------------------------------------------
(* The maximum of a buy2.                                                    *)
LEMMA QuoteOfInput ==
    ASSUME NEW p, NEW main, NEW b \in Nat,
           BaseReserves(p) \in Nat, QuoteReserves(p) \in Nat, b < BaseReserves(p)
    PROVE  LET c == (QuoteReserves(p) * b) \div (BaseReserves(p) - b)
               q == getInputAmountOnBuy(b, main, p)
           IN  /\ c \in Nat
               /\ q.num = c * Whole /\ q.den = Whole - main.trading_fee
<1> DEFINE B == BaseReserves(p)
           Q == QuoteReserves(p)
           c == (Q * b) \div (B - b)
<1>1. B - b \in Nat \ {0} /\ Q * b \in Nat
  BY SMT
<1>2. c \in Nat
  BY <1>1, DivBounds
<1>3. calculateInputAmount(b, Q, B) = c
  BY <1>1 DEF calculateInputAmount, Trunc
<1> HIDE DEF c
<1> QED BY <1>2, <1>3 DEF getInputAmountOnBuy, Fraction, c

(* The total of an exact-base buy, cut or not, is within the client's quote  *)
(* of it, although every cast of the program may drop bits.                  *)
LEMMA TotalIsWithinTheQuote ==
    ASSUME NEW p \in PoolState, NEW fee \in Fees, NEW b \in U64,
           p.virt_base_reserves > 0, b <= p.real_base_reserves,
           p.real_quote_reserves <= p.real_quote_threshold
    PROVE  LET fill == ExactBaseFill(p, fee, b)
               c == (QuoteReserves(p) * b) \div (BaseReserves(p) - b)
           IN  /\ fill.quote \in U64 /\ fill.total \in U64 /\ c \in Nat
               /\ fill.quote <= c
               /\ fill.total <= TotalQuotient(fee, fill.quote)
               /\ fill.total * (Whole - fee) <= c * Whole
<1> DEFINE B == BaseReserves(p)
           Q == QuoteReserves(p)
           c == (Q * b) \div (B - b)
           required == compute_required_amount_on_buy(p, b)
           net == IF p.real_quote_reserves + required > p.real_quote_threshold
                  THEN Headroom(p) ELSE required
           total == calculate_total_amount(fee, net)
           fill == ExactBaseFill(p, fee, b)
<1>1. /\ B \in Nat /\ Q \in Nat /\ b \in Nat /\ b < B
      /\ p.real_quote_reserves \in Nat /\ p.real_quote_threshold \in Nat
  <2>1. /\ p.virt_base_reserves \in Nat /\ p.real_base_reserves \in Nat
        /\ p.virt_quote_reserves \in Nat /\ p.real_quote_reserves \in Nat
        /\ p.real_quote_threshold \in Nat /\ b \in Nat
    BY U64Facts DEF PoolState
  <2> QED BY <2>1 DEF BaseReserves, QuoteReserves
<1>2. B - b \in Nat \ {0} /\ Q * b \in Nat /\ b * Q = Q * b
  BY <1>1, SMT
<1>3. c \in Nat
  BY <1>2, DivBounds
<1>4. required = AsU64(c)
  BY <1>2 DEF compute_required_amount_on_buy, calculate_input_amount
<1>5. fill.quote = net /\ fill.total = total
  BY DEF ExactBaseFill
<1> HIDE DEF c, B, Q
<1>6. required \in U64 /\ required <= c /\ required \in Nat
  BY <1>3, <1>4, CastFacts, U64Facts
<1> HIDE DEF required
<1>7. net \in Nat /\ net <= required
  BY <1>1, <1>6 DEF Headroom
<1>8. net \in U64
  BY <1>6, <1>7, U64Facts
<1> DEFINE t0 == TotalQuotient(fee, net)
           d == Whole - fee
<1>9. /\ t0 \in Nat /\ total \in U64 /\ total \in Nat /\ total <= t0
      /\ t0 * d <= net * Whole
  BY <1>8, TotalBounds, U64Facts
<1>10. d \in Nat /\ Whole \in Nat
  BY WholeFacts
<1> HIDE DEF total, t0, d, net
<1>11. d * total <= d * t0 /\ Whole * net <= Whole * c
  BY <1>3, <1>6, <1>7, <1>9, <1>10, ProductMonotone
<1>12. total * d <= c * Whole
  <2>1. d * total = total * d /\ d * t0 = t0 * d /\ Whole * net = net * Whole
        /\ Whole * c = c * Whole
    BY <1>3, <1>7, <1>9, <1>10, SMT
  <2>2. total * d \in Int /\ t0 * d \in Int /\ net * Whole \in Int /\ c * Whole \in Int
    BY <1>3, <1>7, <1>9, <1>10
  <2> QED BY <1>9, <1>11, <2>1, <2>2
<1>13. net <= c
  BY <1>3, <1>6, <1>7
<1> QED BY <1>3, <1>5, <1>8, <1>9, <1>12, <1>13 DEF c, B, Q, t0, d

(* Ten per cent above a quote is no less than the quote, rounded down.       *)
LEMMA TenPercentAbove ==
    ASSUME NEW total \in Nat, NEW d \in Nat \ {0}, NEW num \in Nat, total * d <= num
    PROVE  total <= Trunc(num * 11, d * 10)
<1> DEFINE max == (num * 11) \div (d * 10)
<1>1. d * 10 \in Nat \ {0} /\ num * 11 \in Nat
  OBVIOUS
<1>2. max \in Nat /\ num * 11 < (d * 10) * max + d * 10
  BY <1>1, DivBounds
<1>3. Trunc(num * 11, d * 10) = max
  BY <1>1 DEF Trunc
<1> HIDE DEF max
<1>4. (d * 10) * total < (d * 10) * (max + 1)
  <2>1. (d * 10) * total = 10 * (total * d) /\ total * d \in Nat
    BY SMT
  <2>2. (d * 10) * (max + 1) = (d * 10) * max + d * 10 /\ (d * 10) * max \in Nat
    BY <1>2, SMT
  <2>3. 10 * (total * d) <= num * 11
    BY <2>1
  <2> QED BY <1>1, <1>2, <2>1, <2>2, <2>3
<1>5. total < max + 1
  BY <1>1, <1>2, <1>4, CancelFactor
<1> QED BY <1>2, <1>3, <1>5

(* The maximum a buy2 computes is never what stops it while the reserves and *)
(* the fee are as it read them, cut at the threshold or not, at any width    *)
(* (ali_index.ts:286-289, buy.rs:163).                                       *)
THEOREM MaximumNeverStopsItsOwnBuy == ClientSpec => []MaximumAllowsTheQuote
<1>1. ASSUME ClientInv, NEW s \in Sessions,
             call[s].op = "buy2", Len(call[s].seen) = 4,
             call[s].seen[4] = pool[call[s].c.m],
             call[s].seen[3].trading_fee = mainState.trading_fee,
             call[s].c.amount <= pool[call[s].c.m].real_base_reserves
      PROVE  WithinMaximum(ExactBaseFill(pool[call[s].c.m], mainState.trading_fee,
                                         call[s].c.amount),
                           MaxQuoteAmount(call[s].c, call[s].seen))
  <2> DEFINE k == call[s]
             p == pool[k.c.m]
             fee == mainState.trading_fee
             b == k.c.amount
             fill == ExactBaseFill(p, fee, b)
             q == getInputAmountOnBuy(b, k.seen[3], p)
             c == (QuoteReserves(p) * b) \div (BaseReserves(p) - b)
  <2>1. IInv /\ CallOK(k)
    BY <1>1 DEF ClientInv, SessionInv, CallsOK, NoCall
  <2>2. k.c.m \in BaseMints /\ b \in U64
    BY <1>1, <2>1, ArgumentFacts DEF CallOK, Called
  <2>3. p.exists
    <3>1. Fetches("buy2")[4] = "pool"
      BY FetchesFacts
    <3>2. k.seen[4] \in Fetched("pool")
      BY <1>1, <2>1, <3>1 DEF CallOK, HasSeen
    <3> QED BY <1>1, <3>2 DEF Fetched
  <2>4. Listed(p) /\ p \in PoolState /\ fee \in Fees
    BY <2>1, <2>2, <2>3, IInvParts, MainFacts DEF PoolsOK
  <2>5. p.virt_base_reserves > 0 /\ p.real_quote_reserves <= p.real_quote_threshold
    <3>1. p.real_quote_reserves \in Nat /\ p.real_quote_threshold \in Nat
      BY <2>4, U64Facts DEF PoolState
    <3> HIDE DEF p
    <3> QED BY <2>4, <3>1 DEF Listed, Withdrawn
  <2>6. fill.total \in U64 /\ c \in Nat /\ fill.total * (Whole - fee) <= c * Whole
    BY <1>1, <2>2, <2>4, <2>5, TotalIsWithinTheQuote
  <2>7. /\ b \in Nat /\ BaseReserves(p) \in Nat /\ QuoteReserves(p) \in Nat
        /\ b < BaseReserves(p)
    <3>1. /\ p.virt_base_reserves \in Nat /\ p.real_base_reserves \in Nat
          /\ p.virt_quote_reserves \in Nat /\ p.real_quote_reserves \in Nat /\ b \in Nat
      BY <2>2, <2>4, U64Facts DEF PoolState
    <3> QED BY <3>1, <1>1, <2>5 DEF BaseReserves, QuoteReserves
  <2>8. q.num = c * Whole /\ q.den = Whole - fee
    BY <1>1, <2>7, QuoteOfInput
  <2>9. MaxQuoteAmount(k.c, k.seen) = Trunc(q.num * 11, q.den * 10)
    BY <1>1 DEF MaxQuoteAmount
  <2> HIDE DEF fill, q, c, fee
  <2>10. fill.total \in Nat /\ Whole - fee \in Nat \ {0} /\ c * Whole \in Nat
    <3>1. fill.total \in Nat
      BY <2>6, U64Facts
    <3>2. Whole \in Nat \ {0} /\ Whole - fee \in Nat \ {0}
      BY <2>4, WholeFacts
    <3> QED BY <2>6, <3>1, <3>2
  <2>11. fill.total <= Trunc(q.num * 11, q.den * 10)
    BY <2>6, <2>8, <2>10, TenPercentAbove
  <2> QED BY <2>9, <2>11 DEF WithinMaximum, fill, fee
<1>2. ClientInv => MaximumAllowsTheQuote
  BY <1>1 DEF MaximumAllowsTheQuote
<1> QED BY <1>2, CallersInvariant, PTL

-----------------------------------------------------------------------------
(* Quotes.  A larger net payment buys no less.                               *)
LEMMA OutputMonotone ==
    ASSUME NEW a \in Nat, NEW b \in Nat, a <= b, NEW Q \in Nat \ {0}, NEW B \in U64
    PROVE  /\ (B * a) \div (Q + a) \in Nat /\ (B * b) \div (Q + b) \in Nat
           /\ (B * a) \div (Q + a) <= (B * b) \div (Q + b)
<1> DEFINE x == (B * a) \div (Q + a)
           y == (B * b) \div (Q + b)
<1>1. B \in Nat /\ Q + a \in Nat \ {0} /\ Q + b \in Nat \ {0}
      /\ B * a \in Nat /\ B * b \in Nat
  BY WidthAssumption, SMT DEF U64
<1>2. x \in Nat /\ (Q + a) * x <= B * a
  BY <1>1, DivBounds
<1>3. y \in Nat /\ B * b < (Q + b) * y + (Q + b)
  BY <1>1, DivBounds
<1>4. x <= B
  BY OutputBounds
<1> HIDE DEF x, y
<1> DEFINE d == b - a
<1>5. d \in Nat /\ b = a + d
  OBVIOUS
<1> HIDE DEF d
<1>6. d * x <= d * B
  BY <1>1, <1>2, <1>4, <1>5, ProductMonotone
<1>7. (Q + b) * x = (Q + a) * x + d * x /\ B * b = B * a + d * B
  BY <1>1, <1>2, <1>5, SMT
<1>8. (Q + a) * x \in Nat /\ d * x \in Nat /\ d * B \in Nat /\ (Q + b) * x \in Nat
      /\ (Q + b) * y \in Nat
  BY <1>1, <1>2, <1>3, <1>5, SMT
<1>9. (Q + b) * (y + 1) = (Q + b) * y + (Q + b)
  BY <1>1, <1>3, SMT
<1>10. (Q + b) * x < (Q + b) * (y + 1)
  BY <1>1, <1>2, <1>3, <1>6, <1>7, <1>8, <1>9
<1>11. x < y + 1
  BY <1>1, <1>2, <1>3, <1>10, CancelFactor
<1> QED BY <1>2, <1>3, <1>11 DEF x, y

(* The client takes the fee off in one rounding, the program rounds the fee: *)
(* the client's net payment is not the larger one.                           *)
LEMMA ClientNetIsWithinNet ==
    ASSUME NEW fee \in Fees, NEW amount \in U64
    PROVE  /\ Trunc(amount * (Whole - fee), Whole) \in Nat
           /\ Trunc(amount * (Whole - fee), Whole) <= NetOfFee(fee, amount)
<1> DEFINE asked == (amount * (Whole - fee)) \div Whole
           g == calculate_trading_fee(fee, amount)
<1>1. amount \in Nat /\ fee \in Nat /\ Whole \in Nat \ {0} /\ Whole - fee \in Nat \ {0}
  BY WholeFacts, U64Facts
<1>2. amount * (Whole - fee) \in Nat
  BY <1>1, SMT
<1>3. asked \in Nat /\ Whole * asked <= amount * (Whole - fee)
  BY <1>1, <1>2, DivBounds
<1>4. Trunc(amount * (Whole - fee), Whole) = asked
  BY <1>2 DEF Trunc
<1>5. g \in Nat /\ Whole * g <= amount * fee /\ NetOfFee(fee, amount) = amount - g
  BY FeeBounds, U64Facts DEF NetOfFee
<1> HIDE DEF asked, g
<1>6. amount * (Whole - fee) = Whole * amount - amount * fee
      /\ Whole * (amount - g + 1) = Whole * amount - Whole * g + Whole
  BY <1>1, <1>5, SMT
<1>7. Whole * asked \in Nat /\ Whole * g \in Nat /\ Whole * amount \in Nat
      /\ amount * fee \in Nat
  BY <1>1, <1>3, <1>5, SMT
<1>8. Whole * asked < Whole * (amount - g + 1)
  BY <1>1, <1>3, <1>5, <1>6, <1>7
<1>9. asked < amount - g + 1
  BY <1>1, <1>3, <1>5, <1>8, CancelFactor
<1> QED BY <1>1, <1>3, <1>4, <1>5, <1>9

(* What a buy of an exact amount of quote gives is no less than the quote.   *)
LEMMA BuyKeepsItsQuote ==
    ASSUME NEW p, Priced(p), NEW fee \in Fees, NEW amount \in U64, Headroom(p) \in U64,
           NEW main, main.trading_fee = fee,
           main.real_quote_threshold = p.real_quote_threshold
    PROVE  AtLeast(ExactQuoteFill(p, fee, amount).base, getOutputAmountOnBuy(amount, main, p))
<1> DEFINE B == BaseReserves(p)
           Q == QuoteReserves(p)
           real == p.real_quote_reserves
           threshold == p.real_quote_threshold
           headroom == Headroom(p)
           asked == NetOfFee(fee, amount)
           cut == real + asked > threshold
           total == IF cut THEN calculate_total_amount(fee, headroom) ELSE amount
           net == NetOfFee(fee, total)
           theirs == Trunc(amount * (Whole - fee), Whole)
           said == IF real + theirs > threshold THEN threshold - real ELSE theirs
<1>1. /\ B \in U64 /\ B \in Nat /\ Q \in Nat \ {0}
      /\ real \in Nat /\ threshold \in Nat /\ headroom \in U64 /\ headroom \in Nat
      /\ headroom = threshold - real
  BY ReserveFacts, U64Facts DEF Headroom
<1>2. theirs \in Nat /\ theirs <= asked /\ asked \in Nat
  BY ClientNetIsWithinNet, NetFacts, U64Facts
<1>3. ExactQuoteFill(p, fee, amount).base = calculate_output_amount(net, Q, B)
  BY DEF ExactQuoteFill, compute_receivable_amount_on_buy
<1>4. getOutputAmountOnBuy(amount, main, p) = Fraction(calculateOutputAmount(said, Q, B), 1)
  BY DEF getOutputAmountOnBuy
<1>5. said \in Nat /\ net \in Nat /\ said <= net
  <2>1. CASE cut
    <3>1. headroom < asked
      BY <1>1, <1>2, <2>1
    <3>2. TotalQuotient(fee, headroom) \in U64
      <4>1. TotalQuotient(fee, headroom) <= amount
        BY <1>1, <3>1, CutTotalIsWithinBudget
      <4>2. TotalQuotient(fee, headroom) \in Nat
        BY <1>1, TotalBounds
      <4> QED BY <4>1, <4>2, U64Facts
    <3>3. net = headroom
      BY <1>1, <2>1, <3>2, CutPaymentIsExact
    <3> HIDE DEF net, theirs, headroom, asked
    <3> QED BY <1>1, <1>2, <3>3
  <2>2. CASE ~cut
    <3>1. net = asked
      BY <2>2
    <3> HIDE DEF net, theirs, headroom, asked
    <3> QED BY <1>1, <1>2, <3>1
  <2> QED BY <2>1, <2>2
<1> HIDE DEF B, Q, net, said
<1>6. /\ (B * said) \div (Q + said) \in Nat /\ (B * net) \div (Q + net) \in Nat
      /\ (B * said) \div (Q + said) <= (B * net) \div (Q + net)
  BY <1>1, <1>5, OutputMonotone
<1>7. calculate_output_amount(net, Q, B) = (B * net) \div (Q + net)
  BY <1>1, <1>5, OutputBounds
<1>8. calculateOutputAmount(said, Q, B) = (B * said) \div (Q + said)
  <2>1. B * said \in Nat
    BY <1>1, <1>5, SMT
  <2> QED BY <2>1 DEF calculateOutputAmount, Trunc
<1> DEFINE x == (B * said) \div (Q + said)
           y == (B * net) \div (Q + net)
           fill == ExactQuoteFill(p, fee, amount)
           q == getOutputAmountOnBuy(amount, main, p)
<1>9. fill.base = y /\ q = Fraction(x, 1) /\ x \in Nat /\ y \in Nat /\ x <= y
  BY <1>3, <1>4, <1>6, <1>7, <1>8
<1> HIDE DEF x, y, fill, q
<1>10. q.num = x /\ q.den = 1
  BY <1>9 DEF Fraction
<1> QED BY <1>9, <1>10 DEF AtLeast, fill, q

(* The fee of a total and the net payment it was computed for add up to no   *)
(* more than the total before its cast.                                      *)
LEMMA PartsAreWithinTheTotal ==
    ASSUME NEW fee \in Fees, NEW net \in U64
    PROVE  LET g == calculate_trading_fee(fee, calculate_total_amount(fee, net))
           IN  g \in Nat /\ (g + net) * (Whole - fee) <= net * Whole
<1> DEFINE t0 == TotalQuotient(fee, net)
           t == calculate_total_amount(fee, net)
           g == calculate_trading_fee(fee, t)
<1>1. net \in Nat /\ fee \in Nat /\ Whole \in Nat \ {0} /\ Whole - fee \in Nat \ {0}
  BY WholeFacts, U64Facts
<1>2. /\ t0 \in Nat /\ t \in U64 /\ t \in Nat /\ t <= t0
      /\ t0 * (Whole - fee) <= net * Whole
      /\ net * Whole < t0 * (Whole - fee) + (Whole - fee)
  BY TotalBounds, U64Facts
<1>3. g \in Nat /\ Whole * g <= t * fee
  BY <1>2, FeeBounds, U64Facts
<1> HIDE DEF t0, t, g
<1>4. fee * t <= fee * t0
  BY <1>1, <1>2, ProductMonotone
<1>5. /\ t * fee = fee * t /\ t0 * (Whole - fee) = Whole * t0 - fee * t0
      /\ Whole * (g + net) = Whole * g + net * Whole
      /\ Whole * (t0 + 1) = Whole * t0 + Whole
  BY <1>1, <1>2, <1>3, SMT
<1>6. /\ Whole * g \in Int /\ net * Whole \in Int /\ fee * t \in Int
      /\ fee * t0 \in Int /\ Whole * t0 \in Int
  BY <1>1, <1>2, <1>3
<1>7. Whole * (g + net) < Whole * (t0 + 1)
  BY <1>1, <1>2, <1>3, <1>4, <1>5, <1>6
<1>8. g + net < t0 + 1
  BY <1>1, <1>2, <1>3, <1>7, CancelFactor
<1>9. (Whole - fee) * (g + net) <= (Whole - fee) * t0
  BY <1>1, <1>2, <1>3, <1>8, ProductMonotone
<1>10. (Whole - fee) * (g + net) = (g + net) * (Whole - fee)
       /\ (Whole - fee) * t0 = t0 * (Whole - fee)
  BY <1>1, <1>2, <1>3, SMT
<1>11. (g + net) * (Whole - fee) \in Int /\ t0 * (Whole - fee) \in Int
  BY <1>1, <1>2, <1>3
<1> QED BY <1>2, <1>3, <1>6, <1>9, <1>10, <1>11 DEF g, t

(* What a buy of an exact amount of base takes is no more than the quote.    *)
LEMMA PriceIsWithinItsQuote ==
    ASSUME NEW p, Priced(p), NEW fee \in Fees, NEW amount \in U64,
           amount <= p.real_base_reserves, p.real_quote_reserves <= p.real_quote_threshold,
           NEW main, main.trading_fee = fee
    PROVE  LET fill == ExactBaseFill(p, fee, amount)
           IN  AtMost(fill.fee + fill.quote, getInputAmountOnBuy(amount, main, p))
<1> DEFINE fill == ExactBaseFill(p, fee, amount)
           c == (QuoteReserves(p) * amount) \div (BaseReserves(p) - amount)
           q == getInputAmountOnBuy(amount, main, p)
<1>1. /\ fill.quote \in U64 /\ c \in Nat /\ fill.quote <= c
  BY TotalIsWithinTheQuote DEF Priced
<1>2. fill.total = calculate_total_amount(fee, fill.quote)
      /\ fill.fee = calculate_trading_fee(fee, fill.total)
  BY DEF ExactBaseFill
<1>3. q.num = c * Whole /\ q.den = Whole - fee
  <2>1. /\ BaseReserves(p) \in Nat /\ QuoteReserves(p) \in Nat /\ amount \in Nat
        /\ p.real_base_reserves \in Nat /\ p.real_base_reserves < BaseReserves(p)
    BY ReserveFacts, U64Facts
  <2>2. amount < BaseReserves(p)
    BY <2>1
  <2> QED BY <2>1, <2>2, QuoteOfInput
<1> HIDE DEF fill, c, q
<1>4. fill.fee \in Nat /\ (fill.fee + fill.quote) * (Whole - fee) <= fill.quote * Whole
  BY <1>1, <1>2, PartsAreWithinTheTotal
<1> DEFINE d == Whole - fee
           parts == fill.fee + fill.quote
<1>5. fill.quote \in Nat /\ Whole \in Nat /\ d \in Nat /\ parts \in Nat
  <2>1. fill.quote \in Nat
    BY <1>1, U64Facts
  <2>2. Whole \in Nat /\ d \in Nat
    BY WholeFacts
  <2> HIDE DEF d
  <2> QED BY <1>4, <2>1, <2>2
<1>6. Whole * fill.quote <= Whole * c
  BY <1>1, <1>5, ProductMonotone
<1>7. Whole * fill.quote = fill.quote * Whole /\ Whole * c = c * Whole
      /\ parts * d <= fill.quote * Whole
  BY <1>1, <1>4, <1>5, SMT
<1> HIDE DEF d, parts
<1>8. parts * d \in Int /\ fill.quote * Whole \in Int /\ c * Whole \in Int
  BY <1>1, <1>5
<1>9. parts * d <= c * Whole
  BY <1>6, <1>7, <1>8
<1> QED BY <1>3, <1>9 DEF AtMost, fill, q, d, parts

(* What a sell pays out is no less than the quote.                           *)
LEMMA SellKeepsItsQuote ==
    ASSUME NEW p, Priced(p), NEW fee \in Fees, NEW amount \in U64,
           NEW main, main.trading_fee = fee
    PROVE  AtLeast(SellFill(p, fee, amount).quote, getOutputAmountOnSell(amount, main, p))
<1> DEFINE B == BaseReserves(p)
           Q == QuoteReserves(p)
           payout == calculate_output_amount(amount, B, Q)
           g == calculate_trading_fee(fee, payout)
           fill == SellFill(p, fee, amount)
           q == getOutputAmountOnSell(amount, main, p)
<1>1. B \in Nat \ {0} /\ Q \in U64 /\ Q \in Nat /\ amount \in Nat
  BY ReserveFacts, U64Facts
<1>2. fill.quote = payout - g
  BY DEF SellFill, compute_receivable_amount_on_sell, NetOfFee
<1>3. payout \in U64 /\ payout \in Nat /\ payout = (Q * amount) \div (B + amount)
  BY <1>1, OutputBounds, U64Facts
<1>4. calculateOutputAmount(amount, B, Q) = payout
  <2> HIDE DEF B, Q, payout
  <2>1. Q * amount \in Nat
    BY <1>1, SMT
  <2> QED BY <1>3, <2>1 DEF calculateOutputAmount, Trunc
<1>5. q.num = payout * (Whole - fee) /\ q.den = Whole
  BY <1>4 DEF getOutputAmountOnSell, Fraction
<1>6. g \in Nat /\ Whole * g <= payout * fee
  BY <1>3, FeeBounds, U64Facts
<1>7. Whole \in Nat /\ fee \in Nat
  BY WholeFacts
<1> HIDE DEF payout, g, fill, q, B, Q
<1>8. (payout - g) * Whole >= payout * (Whole - fee)
  <2>1. (payout - g) * Whole = Whole * payout - Whole * g
        /\ payout * (Whole - fee) = Whole * payout - payout * fee
    BY <1>3, <1>6, <1>7, SMT
  <2>2. Whole * payout \in Int /\ Whole * g \in Int /\ payout * fee \in Int
    BY <1>3, <1>6, <1>7
  <2> QED BY <1>6, <2>1, <2>2
<1> QED BY <1>2, <1>5, <1>8 DEF AtLeast, fill, q

-----------------------------------------------------------------------------
(* What a session was told is what the client computes from what it read.    *)
QuoteInv ==
    /\ DOMAIN quote = Sessions
    /\ \A s \in Sessions :
           LET q == quote[s]
           IN  q.op # "none" => q.value = QuoteFor(q.op, q.amount, q.main, q.pool)

(* An answered quote is what the client computes from the two accounts it    *)
(* read.                                                                     *)
LEMMA AnswerKeepsQuotes ==
    ASSUME QuoteInv, NEW s \in Sessions, Answer(s)
    PROVE  QuoteInv'
<1> DEFINE k == call[s]
           q == [op |-> k.op, m |-> k.c.m, amount |-> k.c.amount,
                 value |-> QuoteFor(k.op, k.c.amount, k.seen[1], k.seen[2]),
                 main |-> k.seen[1], pool |-> k.seen[2]]
<1>1. quote' = quote \/ quote' = [quote EXCEPT ![s] = q]
  BY Zenon DEF Answer
<1>2. q.value = QuoteFor(q.op, q.amount, q.main, q.pool)
  OBVIOUS
<1> HIDE DEF q
<1>3. CASE quote' = quote
  BY <1>3 DEF QuoteInv
<1>4. CASE quote' = [quote EXCEPT ![s] = q]
  <2>1. quote'[s] = q /\ DOMAIN quote' = Sessions
        /\ \A r \in Sessions \ {s} : quote'[r] = quote[r]
    BY <1>4 DEF QuoteInv
  <2> QED BY <1>2, <2>1 DEF QuoteInv
<1> QED BY <1>1, <1>3, <1>4

(* No other step touches a quote.                                            *)
LEMMA NextQuoteInv ==
    ASSUME QuoteInv, [ClientNext]_clientVars
    PROVE  QuoteInv'
<1>1. ASSUME UNCHANGED quote PROVE QuoteInv'
  BY <1>1 DEF QuoteInv
<1>2. ASSUME NEW s \in Sessions, NEW c \in Calls[s], Start(s, c) PROVE QuoteInv'
  BY <1>1, <1>2 DEF Start
<1>3. ASSUME NEW s \in Sessions, ClientStep(s) \/ GiveUp(s) PROVE QuoteInv'
  <2>1. CASE Fetch(s)
    <3>1. UNCHANGED quote
      BY <2>1, Zenon DEF Fetch
    <3> QED BY <1>1, <3>1
  <2>2. CASE Submit(s)
    <3>1. UNCHANGED quote
      BY <2>2, Zenon DEF Submit
    <3> QED BY <1>1, <3>1
  <2>3. CASE Confirm(s) \/ GiveUp(s)
    <3>1. UNCHANGED quote
      BY <2>3, Zenon DEF Confirm, GiveUp
    <3> QED BY <1>1, <3>1
  <2>4. CASE Answer(s)
    BY <2>4, AnswerKeepsQuotes
  <2> QED BY <1>3, <2>1, <2>2, <2>3, <2>4 DEF ClientStep
<1>4. ASSUME NEW s \in Sessions, NEW n \in 1 .. MaxCalls, Deliver(s, n) PROVE QuoteInv'
  <2>1. PICK t \in inflight, f \in Fates : Settle(t, f)
    BY <1>4, DeliverCases
  <2> QED BY <1>1, <2>1 DEF Settle
<1>5. CASE UNCHANGED <<call, inflight, quote>> \/ UNCHANGED clientVars
  BY <1>1, <1>5 DEF clientVars
<1> QED BY <1>2, <1>3, <1>4, <1>5 DEF ClientNext

(* At the beginning there is none.                                           *)
LEMMA InitQuoteInv == ClientInit => QuoteInv
  BY DEF ClientInit, QuoteInv, NoQuote

(* Which formula answers which quote.                                        *)
LEMMA QuoteForFacts ==
    ASSUME NEW amount, NEW main, NEW p
    PROVE  /\ QuoteFor("getOutputAmountOnBuy", amount, main, p)
                  = getOutputAmountOnBuy(amount, main, p)
           /\ QuoteFor("getInputAmountOnBuy", amount, main, p)
                  = getInputAmountOnBuy(amount, main, p)
           /\ QuoteFor("getOutputAmountOnSell", amount, main, p)
                  = getOutputAmountOnSell(amount, main, p)
<1> DEFINE A == getOutputAmountOnBuy(amount, main, p)
           B == getInputAmountOnBuy(amount, main, p)
           C == getOutputAmountOnSell(amount, main, p)
<1>1. \A op : QuoteFor(op, amount, main, p) =
         CASE op = "getOutputAmountOnBuy" -> A
           [] op = "getInputAmountOnBuy" -> B
           [] op = "getOutputAmountOnSell" -> C
  BY Zenon DEF QuoteFor
<1> HIDE DEF A, B, C
<1>2. /\ "getOutputAmountOnBuy" # "getInputAmountOnBuy"
      /\ "getOutputAmountOnBuy" # "getOutputAmountOnSell"
      /\ "getInputAmountOnBuy" # "getOutputAmountOnSell"
  OBVIOUS
<1>3. QuoteFor("getOutputAmountOnBuy", amount, main, p) = A
  BY <1>1, <1>2, Zenon
<1>4. QuoteFor("getInputAmountOnBuy", amount, main, p) = B
  BY <1>1, <1>2, Zenon
<1>5. QuoteFor("getOutputAmountOnSell", amount, main, p) = C
  BY <1>1, <1>2, Zenon
<1> QED BY <1>3, <1>4, <1>5 DEF A, B, C

(* A quote for what is traded, from the pool and the fee as they are.        *)
LEMMA CurrentQuote ==
    ASSUME ClientInv, QuoteInv, NEW t \in inflight, NEW op \in Quotes, Quoted(t, op)
    PROVE  /\ quote[t.by].value =
                  QuoteFor(op, t.tx.amount, quote[t.by].main, pool[t.tx.m])
           /\ quote[t.by].main.trading_fee = mainState.trading_fee
<1>1. t.by \in Sessions
  BY DEF ClientInv, SessionInv, InflightOK, OnItsWay
<1>2. op # "none"
  BY DEF Quotes
<1> QED BY <1>1, <1>2 DEF QuoteInv, Quoted

(* The three trades.                                                         *)
LEMMA LandedBuyKeepsItsQuote ==
    ASSUME ClientInv, QuoteInv, NEW t \in inflight, Land(t),
           t.tx.ix = "buy_tokens_from_exact_quote", Quoted(t, "getOutputAmountOnBuy"),
           quote[t.by].main.real_quote_threshold = quote[t.by].pool.real_quote_threshold
    PROVE  AtLeast(Received(quote[t.by].m, t.tx.user), quote[t.by].value)
<1> DEFINE m == t.tx.m
           u == t.tx.user
           a == t.tx.amount
           p == pool[m]
           fee == mainState.trading_fee
           rec == mainState.fee_recipient
           fill == ExactQuoteFill(p, fee, a)
           main == quote[t.by].main
<1>1. IInv /\ u \in Users /\ m \in BaseMints /\ a \in U64
  BY DEF ClientInv, SessionInv, InflightOK, OnItsWay, Submittable
<1>2. /\ ABuy(u, m) /\ p.exists /\ Headroom(p) \in U64 /\ ReservesFit(p)
      /\ buy_finalize(u, m, fill)
  <2>1. BuyTokensFromExactQuote(u, m, a, t.tx.limit)
    BY DEF Land, Execute
  <2> QED BY <2>1 DEF BuyTokensFromExactQuote, ABuy
<1>3. LedgerTypeOK /\ Priced(p) /\ fee \in Fees /\ rec \in Holders
  BY <1>1, <1>2, IInvParts, ListedIsPriced, MainFacts DEF PoolsOK
<1>4. fill.fee \in Nat /\ fill.quote \in Nat /\ fill.base \in Nat
  BY <1>1, <1>2, <1>3, ExactQuoteFillFacts
<1>5. quote[t.by].value = getOutputAmountOnBuy(a, main, p) /\ main.trading_fee = fee
      /\ main.real_quote_threshold = p.real_quote_threshold /\ quote[t.by].m = m
  BY CurrentQuote, QuoteForFacts DEF Quotes, Quoted
<1>6. AtLeast(fill.base, quote[t.by].value)
  BY <1>1, <1>2, <1>3, <1>5, BuyKeepsItsQuote
<1> HIDE DEF fill
<1>7. \A tok \in Mints, h \in Holders :
        balance'[tok][h] = balance[tok][h] + Flow(QuoteMint, u, rec, fill.fee, tok, h)
                               + Flow(QuoteMint, u, pool_pda(m), fill.quote, tok, h)
                               + Flow(m, pool_pda(m), u, fill.base, tok, h)
  BY <1>1, <1>2, <1>3, <1>4, BuyMoves
<1> HIDE DEF rec, u, m
<1>8. u \in Holders /\ u # pool_pda(m) /\ m # QuoteMint /\ m \in Mints
  BY <1>1, PdaFacts
<1>9. balance[m][u] \in Nat
  BY <1>3, <1>8, U64Facts DEF LedgerTypeOK
<1>10. balance'[m][u] = balance[m][u] + fill.base
  BY <1>4, <1>7, <1>8, <1>9 DEF Flow
<1>11. Received(m, u) = fill.base
  BY <1>4, <1>9, <1>10 DEF Received
<1> QED BY <1>5, <1>6, <1>11 DEF u, m

(* An exact-base buy costs no more than its quote.                           *)
LEMMA LandedPriceIsWithinItsQuote ==
    ASSUME ClientInv, QuoteInv, NEW t \in inflight, Land(t),
           t.tx.ix = "buy_exact_tokens_from_quote", Quoted(t, "getInputAmountOnBuy")
    PROVE  AtMost(Paid(QuoteMint, t.tx.user), quote[t.by].value)
<1> DEFINE m == t.tx.m
           u == t.tx.user
           a == t.tx.amount
           p == pool[m]
           fee == mainState.trading_fee
           rec == mainState.fee_recipient
           fill == ExactBaseFill(p, fee, a)
           main == quote[t.by].main
<1>1. IInv /\ u \in Users /\ m \in BaseMints /\ a \in U64
  BY DEF ClientInv, SessionInv, InflightOK, OnItsWay, Submittable
<1>2. /\ ABuy(u, m) /\ p.exists /\ Headroom(p) \in U64 /\ ReservesFit(p)
      /\ a <= p.real_base_reserves /\ buy_finalize(u, m, fill)
  <2>1. BuyExactTokensFromQuote(u, m, a, t.tx.limit)
    BY DEF Land, Execute
  <2> QED BY <2>1 DEF BuyExactTokensFromQuote, ABuy
<1>3. LedgerTypeOK /\ Priced(p) /\ fee \in Fees /\ rec \in Holders
  BY <1>1, <1>2, IInvParts, ListedIsPriced, MainFacts DEF PoolsOK
<1>4. fill.fee \in Nat /\ fill.quote \in Nat /\ fill.base \in Nat
  BY <1>1, <1>2, <1>3, ExactBaseFillFacts
<1>5. p.real_quote_reserves <= p.real_quote_threshold
  <2>1. p.real_quote_reserves \in Nat /\ p.real_quote_threshold \in Nat
        /\ p.real_quote_threshold - p.real_quote_reserves \in Nat
    BY <1>2, <1>3, ReserveFacts, U64Facts DEF Headroom
  <2> HIDE DEF p
  <2> QED BY <2>1
<1>6. quote[t.by].value = getInputAmountOnBuy(a, main, p) /\ main.trading_fee = fee
  BY CurrentQuote, QuoteForFacts DEF Quotes
<1>7. AtMost(fill.fee + fill.quote, quote[t.by].value)
  BY <1>1, <1>2, <1>3, <1>5, <1>6, PriceIsWithinItsQuote
<1>8. quote[t.by].value.den \in Nat
  BY <1>3, <1>6, WholeFacts DEF getInputAmountOnBuy, Fraction
<1> HIDE DEF fill
<1>9. \A tok \in Mints, h \in Holders :
        balance'[tok][h] = balance[tok][h] + Flow(QuoteMint, u, rec, fill.fee, tok, h)
                               + Flow(QuoteMint, u, pool_pda(m), fill.quote, tok, h)
                               + Flow(m, pool_pda(m), u, fill.base, tok, h)
  BY <1>1, <1>2, <1>3, <1>4, BuyMoves
<1> HIDE DEF rec, u, m
<1>10. u \in Holders /\ u # pool_pda(m) /\ m # QuoteMint /\ QuoteMint \in Mints
  BY <1>1, PdaFacts
<1>11. balance[QuoteMint][u] \in Nat
  BY <1>3, <1>10, U64Facts DEF LedgerTypeOK
<1>12. /\ balance'[QuoteMint][u] >= balance[QuoteMint][u] - (fill.fee + fill.quote)
       /\ balance'[QuoteMint][u] \in Int
  BY <1>4, <1>9, <1>10, <1>11 DEF Flow
<1> DEFINE paid == Paid(QuoteMint, u)
           parts == fill.fee + fill.quote
           den == quote[t.by].value.den
           num == quote[t.by].value.num
<1>13. paid \in Int /\ parts \in Int /\ paid <= parts
  BY <1>4, <1>11, <1>12 DEF Paid
<1>14. den \in Nat /\ parts * den <= num
  BY <1>7, <1>8 DEF AtMost
<1>15. num \in Int
  <2>1. PICK c \in Nat : num = c * Whole
    <3>1. /\ BaseReserves(p) \in Nat /\ QuoteReserves(p) \in Nat /\ a \in Nat
          /\ p.real_base_reserves \in Nat /\ p.real_base_reserves < BaseReserves(p)
      BY <1>1, <1>3, ReserveFacts, U64Facts
    <3>2. a < BaseReserves(p)
      BY <1>2, <3>1
    <3> QED BY <1>6, <3>1, <3>2, QuoteOfInput
  <2>2. Whole \in Nat
    BY <1>3, WholeFacts
  <2> HIDE DEF num
  <2> QED BY <2>1, <2>2
<1> HIDE DEF paid, parts, den, num
<1>16. den * paid <= den * parts
  BY <1>13, <1>14, ProductMonotone
<1>17. paid * den <= num
  <2>1. den * paid = paid * den /\ den * parts = parts * den
    BY <1>13, <1>14, SMT
  <2>2. paid * den \in Int /\ parts * den \in Int
    BY <1>13, <1>14
  <2> QED BY <1>14, <1>15, <1>16, <2>1, <2>2
<1> QED BY <1>17 DEF AtMost, paid, den, num, u

(* A sell brings no less than its quote.                                     *)
LEMMA LandedSellKeepsItsQuote ==
    ASSUME ClientInv, QuoteInv, NEW t \in inflight, Land(t),
           t.tx.ix = "sell", Quoted(t, "getOutputAmountOnSell")
    PROVE  AtLeast(Received(QuoteMint, t.tx.user), quote[t.by].value)
<1> DEFINE m == t.tx.m
           u == t.tx.user
           a == t.tx.amount
           p == pool[m]
           fee == mainState.trading_fee
           rec == mainState.fee_recipient
           fill == SellFill(p, fee, a)
           main == quote[t.by].main
<1>1. IInv /\ u \in Users /\ m \in BaseMints /\ a \in U64
  BY DEF ClientInv, SessionInv, InflightOK, OnItsWay, Submittable
<1>2. Sell(u, m, a, t.tx.limit)
  BY DEF Land, Execute
<1>3. p.exists /\ ReservesFit(p)
  BY <1>2 DEF Sell, ASell
<1>4. LedgerTypeOK /\ Priced(p) /\ fee \in Fees /\ rec \in Holders
  BY <1>1, <1>3, IInvParts, ListedIsPriced, MainFacts DEF PoolsOK
<1>5. fill.fee \in Nat /\ fill.quote \in Nat /\ fill.base \in Nat /\ fill.base = a
  BY <1>1, <1>4, SellFillFacts
<1>6. quote[t.by].value = getOutputAmountOnSell(a, main, p) /\ main.trading_fee = fee
  BY CurrentQuote, QuoteForFacts DEF Quotes
<1>7. AtLeast(fill.quote, quote[t.by].value)
  BY <1>1, <1>4, <1>6, SellKeepsItsQuote
<1>8. quote[t.by].value.den \in Nat
  BY <1>4, <1>6, WholeFacts DEF getOutputAmountOnSell, Fraction
<1>9. \A f : f = fill =>
        \A tok \in Mints, h \in Holders :
          balance'[tok][h] = balance[tok][h] + Flow(m, u, pool_pda(m), f.base, tok, h)
                                 + Flow(QuoteMint, pool_pda(m), rec, f.fee, tok, h)
                                 + Flow(QuoteMint, pool_pda(m), u, f.quote, tok, h)
  BY <1>1, <1>2, <1>4, <1>5, SellMoves
<1> HIDE DEF fill
<1>10. \A tok \in Mints, h \in Holders :
          balance'[tok][h] = balance[tok][h] + Flow(m, u, pool_pda(m), fill.base, tok, h)
                                 + Flow(QuoteMint, pool_pda(m), rec, fill.fee, tok, h)
                                 + Flow(QuoteMint, pool_pda(m), u, fill.quote, tok, h)
  BY <1>9
<1> HIDE DEF rec, u, m
<1>11. u \in Holders /\ u # pool_pda(m) /\ m # QuoteMint /\ QuoteMint \in Mints
  BY <1>1, PdaFacts
<1>12. balance[QuoteMint][u] \in Nat
  BY <1>4, <1>11, U64Facts DEF LedgerTypeOK
<1>13. /\ balance'[QuoteMint][u] >= balance[QuoteMint][u] + fill.quote
       /\ balance'[QuoteMint][u] \in Int
  BY <1>5, <1>10, <1>11, <1>12 DEF Flow
<1> DEFINE got == Received(QuoteMint, u)
           out == fill.quote
           den == quote[t.by].value.den
           num == quote[t.by].value.num
<1>14. got \in Int /\ out \in Int /\ out <= got
  BY <1>5, <1>12, <1>13 DEF Received
<1>15. den \in Nat /\ out * den >= num
  BY <1>7, <1>8 DEF AtLeast
<1>16. num \in Int
  <2>1. PICK c \in Nat : num = c * (Whole - fee)
    <3>1. BaseReserves(p) \in Nat \ {0} /\ QuoteReserves(p) \in Nat /\ a \in Nat
      BY <1>1, <1>4, ReserveFacts, U64Facts
    <3>2. QuoteReserves(p) * a \in Nat /\ BaseReserves(p) + a \in Nat \ {0}
      BY <3>1, SMT
    <3>3. calculateOutputAmount(a, BaseReserves(p), QuoteReserves(p)) \in Nat
      BY <3>2, DivBounds DEF calculateOutputAmount, Trunc
    <3> QED BY <1>6, <3>3 DEF getOutputAmountOnSell, Fraction
  <2>2. Whole - fee \in Nat
    BY <1>4, WholeFacts
  <2> HIDE DEF num
  <2> QED BY <2>1, <2>2
<1> HIDE DEF got, out, den, num
<1>17. den * out <= den * got
  BY <1>14, <1>15, ProductMonotone
<1>18. got * den >= num
  <2>1. den * got = got * den /\ den * out = out * den
    BY <1>14, <1>15, SMT
  <2>2. got * den \in Int /\ out * den \in Int
    BY <1>14, <1>15
  <2> QED BY <1>15, <1>16, <1>17, <2>1, <2>2
<1> QED BY <1>18 DEF AtLeast, got, den, num, u

(* A trade that lands while the pool and the fee are as its session's quote  *)
(* read them gives no less, and takes no more, than was quoted, wherever the *)
(* client and the program round and whether or not the order is cut          *)
(* (ali_index.ts:415-494, tests/pump_fun.ts:77-80).                          *)
THEOREM TradesKeepTheirQuotes == ClientSpec => QuotesAreKept
<1>1. ClientInv /\ QuoteInv /\ [ClientNext]_clientVars =>
        \A t \in inflight : Land(t) => QuoteIsKept(t)
  <2> SUFFICES ASSUME ClientInv, QuoteInv, NEW t \in inflight, Land(t)
               PROVE  QuoteIsKept(t)
    OBVIOUS
  <2> QED BY LandedBuyKeepsItsQuote, LandedPriceIsWithinItsQuote, LandedSellKeepsItsQuote
          DEF QuoteIsKept
<1>2. QuoteInv /\ [ClientNext]_clientVars => QuoteInv'
  BY NextQuoteInv
<1>3. ClientSpec => []QuoteInv
  BY <1>2, InitQuoteInv, PTL DEF ClientSpec
<1> QED BY <1>1, <1>3, CallersInvariant, PTL DEF ClientSpec, QuotesAreKept
=============================================================================
