---------------------------- MODULE InventoryProofs ----------------------------
(* The log of Inventory tells which addresses are stored, for every value  *)
(* of its constants.                                                       *)
EXTENDS Inventory, TLAPS

Inv == TypeOK /\ LogTellsStored /\ LogOfLives

(* What an appended entry has to be for the story of an address to go on.  *)
Follows(trail, action) == (action = "CREATE") <=> ~Told(trail)

Lives(trail) ==
  \A k \in 1..Len(trail) :
    (trail[k] = "CREATE") <=> (k = 1 \/ trail[k - 1] = "DELETE")

LEMMA AppendLives ==
  ASSUME NEW trail \in Seq(Actions), NEW action \in Actions,
         Lives(trail), Follows(trail, action)
  PROVE  /\ Append(trail, action) \in Seq(Actions)
         /\ Lives(Append(trail, action))
         /\ Told(Append(trail, action)) <=> action # "DELETE"
<1> DEFINE n == Len(trail)
           new == Append(trail, action)
<1>1. n \in Nat /\ new \in Seq(Actions) /\ Len(new) = n + 1
  OBVIOUS
<1>2. new[n + 1] = action /\ \A k \in 1..n : new[k] = trail[k]
  OBVIOUS
<1>3. Told(trail) <=> n # 0 /\ trail[n] # "DELETE"
  BY DEF Told
<1>4. Told(new) <=> action # "DELETE"
  BY <1>1, <1>2 DEF Told
<1> HIDE DEF n, new
<1>5. ASSUME NEW k \in 1..Len(new)
      PROVE  (new[k] = "CREATE") <=> (k = 1 \/ new[k - 1] = "DELETE")
  <2>1. CASE k = n + 1
    <3>1. k # 1 => new[k - 1] = trail[n] /\ n # 0
      BY <1>1, <1>2, <2>1
    <3>2. k = 1 <=> n = 0
      BY <1>1, <2>1
    <3>3. QED
      BY <1>2, <1>3, <2>1, <3>1, <3>2 DEF Follows
  <2>2. CASE k # n + 1
    <3>1. k \in 1..n
      BY <1>1, <2>2
    <3>2. new[k] = trail[k] /\ (k # 1 => new[k - 1] = trail[k - 1])
      BY <1>1, <1>2, <3>1
    <3>3. QED
      BY <3>1, <3>2 DEF Lives, n
  <2>3. QED
    BY <2>1, <2>2
<1>6. QED
  BY <1>1, <1>4, <1>5 DEF new, Lives

(* A step that appends to the logs of S an entry that follows, and stores  *)
(* or removes their addresses accordingly.                                 *)
LEMMA WriteKeeps ==
  ASSUME Inv, NEW S \in SUBSET Ips, NEW action \in Actions,
         \A ip \in S : Follows(log[ip], action),
         log' = [ip \in Ips |-> IF ip \in S THEN Append(log[ip], action) ELSE log[ip]],
         stored' = IF action = "DELETE" THEN stored \ S ELSE stored \union S
  PROVE  /\ stored' \subseteq Ips /\ log' \in [Ips -> Seq(Actions)]
         /\ LogTellsStored' /\ LogOfLives'
<1>1. /\ log \in [Ips -> Seq(Actions)] /\ stored \subseteq Ips
      /\ \A ip \in Ips : Lives(log[ip]) /\ (ip \in stored <=> Told(log[ip]))
  BY DEF Inv, TypeOK, LogTellsStored, LogOfLives, Lives
<1>2. ASSUME NEW ip \in Ips
      PROVE  /\ log'[ip] \in Seq(Actions) /\ Lives(log'[ip])
             /\ ip \in stored' <=> Told(log'[ip])
  <2>1. CASE ip \in S
    <3>1. log'[ip] = Append(log[ip], action) /\ log[ip] \in Seq(Actions)
      BY <1>1, <2>1
    <3>2. Lives(log[ip]) /\ Follows(log[ip], action)
      BY <1>1, <2>1
    <3>3. /\ log'[ip] \in Seq(Actions) /\ Lives(log'[ip])
          /\ Told(log'[ip]) <=> action # "DELETE"
      BY <3>1, <3>2, AppendLives
    <3>4. QED
      BY <2>1, <3>3
  <2>2. CASE ip \notin S
    BY <1>1, <2>2
  <2>3. QED
    BY <2>1, <2>2
<1>3. stored' \subseteq Ips /\ log' \in [Ips -> Seq(Actions)]
  BY <1>1, <1>2
<1>4. QED
  BY <1>2, <1>3 DEF LogTellsStored, LogOfLives, Lives

LEMMA AnswerType ==
  ASSUME TypeOK, NEW r \in Requests, NEW answer \in {"ok", "missing", "conflict", "error"},
         Answer(r, answer)
  PROVE  /\ call' \in [Requests -> Call] /\ served' \in Nat
         /\ \A s \in Requests : call'[s].op \in Asks \ {"bulk"} => call'[s].ip \in Ips
<1>1. Answered(answer) \in Call /\ Answered(answer).op = "none"
  BY DEF Answered, Call
<1>2. QED
  BY <1>1 DEF Answer, TypeOK, Asks

LEMMA WroteOne ==
  ASSUME TypeOK, NEW ip \in Ips, NEW action, Wrote(ip, action)
  PROVE  log' = [k \in Ips |-> IF k \in {ip} THEN Append(log[k], action) ELSE log[k]]
  BY DEF TypeOK, Wrote

LEMMA RefuseKeeps ==
  ASSUME Inv, NEW r \in Requests, NEW answer \in {"ok", "missing", "conflict", "error"},
         Refuse(r, answer)
  PROVE  Inv'
<1>1. /\ call' \in [Requests -> Call] /\ served' \in Nat
      /\ \A s \in Requests : call'[s].op \in Asks \ {"bulk"} => call'[s].ip \in Ips
  BY AnswerType DEF Inv, Refuse
<1>2. QED
  BY <1>1 DEF Inv, TypeOK, LogTellsStored, LogOfLives, Refuse

(* An answered step that writes keeps the invariant.                       *)
LEMMA EffectKeeps ==
  ASSUME Inv, NEW r \in Requests, Answer(r, "ok"),
         NEW S \in SUBSET Ips, NEW action \in Actions,
         \A ip \in S : Follows(log[ip], action),
         log' = [ip \in Ips |-> IF ip \in S THEN Append(log[ip], action) ELSE log[ip]],
         stored' = IF action = "DELETE" THEN stored \ S ELSE stored \union S
  PROVE  Inv'
<1>1. /\ stored' \subseteq Ips /\ log' \in [Ips -> Seq(Actions)]
      /\ LogTellsStored' /\ LogOfLives'
  BY WriteKeeps
<1>2. /\ call' \in [Requests -> Call] /\ served' \in Nat
      /\ \A s \in Requests : call'[s].op \in Asks \ {"bulk"} => call'[s].ip \in Ips
  BY AnswerType DEF Inv
<1>3. QED
  BY <1>1, <1>2 DEF Inv, TypeOK

LEMMA ServeKeeps ==
  ASSUME Inv, NEW r \in Requests, Serve(r)
  PROVE  Inv'
<1> DEFINE ip == call[r].ip
<1>1. /\ call[r].op \in Asks \ {"bulk"} => ip \in Ips
      /\ stored \subseteq Ips
      /\ \A k \in Ips : k \in stored <=> Told(log[k])
  BY DEF Inv, TypeOK, LogTellsStored
<1> HIDE DEF ip
<1>2. TypeOK
  BY DEF Inv
<1>3. CASE Create(r)
  <2>1. ip \in Ips
    BY <1>1, <1>3 DEF Create, Asks
  <2>2. CASE \E answer \in {"conflict", "error"} : Refuse(r, answer)
    BY <2>2, RefuseKeeps
  <2>3. CASE /\ stored' = stored \union {ip} /\ Answer(r, "ok")
             /\ Wrote(ip, IF ip \in stored THEN "UPDATE" ELSE "CREATE")
    <3> DEFINE action == IF ip \in stored THEN "UPDATE" ELSE "CREATE"
    <3>1. action \in Actions \ {"DELETE"} /\ Follows(log[ip], action)
      BY <1>1, <2>1 DEF Actions, Follows
    <3>2. log' = [k \in Ips |-> IF k \in {ip} THEN Append(log[k], action) ELSE log[k]]
      BY <1>2, <2>1, <2>3, WroteOne
    <3> HIDE DEF action
    <3>3. stored' = IF action = "DELETE" THEN stored \ {ip} ELSE stored \union {ip}
      BY <2>3, <3>1
    <3>4. QED
      BY <2>1, <2>3, <3>1, <3>2, <3>3, EffectKeeps
  <2>4. QED
    BY <1>3, <2>2, <2>3 DEF Create, ip
<1>4. CASE Update(r)
  <2>1. ip \in Ips
    BY <1>1, <1>4 DEF Update, Asks
  <2>2. CASE \E answer \in {"ok", "error", "missing"} : Refuse(r, answer)
    BY <2>2, RefuseKeeps
  <2>3. CASE ip \in stored /\ Wrote(ip, "UPDATE") /\ Answer(r, "ok") /\ UNCHANGED stored
    <3> DEFINE action == "UPDATE"
    <3>1. Follows(log[ip], action) /\ action \in Actions
      BY <1>1, <2>3 DEF Actions, Follows
    <3>2. log' = [k \in Ips |-> IF k \in {ip} THEN Append(log[k], action) ELSE log[k]]
      BY <1>2, <2>1, <2>3, WroteOne
    <3>3. stored' = IF action = "DELETE" THEN stored \ {ip} ELSE stored \union {ip}
      BY <2>3
    <3> HIDE DEF action
    <3>4. {ip} \in SUBSET Ips /\ \A k \in {ip} : Follows(log[k], action)
      BY <2>1, <3>1
    <3>5. action \in Actions /\ Answer(r, "ok")
      BY <2>3, <3>1
    <3>6. QED
      BY <3>2, <3>3, <3>4, <3>5, EffectKeeps
  <2>4. QED
    BY <1>4, <2>2, <2>3 DEF Update, ip
<1>5. CASE Bulk(r)
  <2>1. CASE Refuse(r, "error")
    BY <2>1, RefuseKeeps
  <2>2. ASSUME NEW S \in SUBSET stored, Answer(r, "ok"), UNCHANGED stored,
               log' = [k \in Ips |-> IF k \in S THEN Append(log[k], "UPDATE") ELSE log[k]]
        PROVE  Inv'
    <3>1. /\ S \in SUBSET Ips /\ "UPDATE" \in Actions
          /\ \A k \in S : Follows(log[k], "UPDATE")
      BY <1>1 DEF Actions, Follows
    <3>2. stored' = IF "UPDATE" = "DELETE" THEN stored \ S ELSE stored \union S
      BY <2>2
    <3>3. QED
      BY <2>2, <3>1, <3>2, EffectKeeps
  <2>3. QED
    BY <1>5, <2>1, <2>2 DEF Bulk
<1>6. CASE Delete(r)
  <2>1. ip \in Ips
    BY <1>1, <1>6 DEF Delete, Asks
  <2>2. CASE Refuse(r, "missing")
    BY <2>2, RefuseKeeps
  <2>3. CASE ip \in stored /\ stored' = stored \ {ip} /\ Wrote(ip, "DELETE") /\ Answer(r, "ok")
    <3> DEFINE action == "DELETE"
    <3>1. Follows(log[ip], action) /\ action \in Actions
      BY <1>1, <2>3 DEF Actions, Follows
    <3>2. log' = [k \in Ips |-> IF k \in {ip} THEN Append(log[k], action) ELSE log[k]]
      BY <1>2, <2>1, <2>3, WroteOne
    <3>3. stored' = IF action = "DELETE" THEN stored \ {ip} ELSE stored \union {ip}
      BY <2>3
    <3> HIDE DEF action
    <3>4. QED
      BY <2>1, <2>3, <3>1, <3>2, <3>3, EffectKeeps
  <2>4. QED
    BY <1>6, <2>2, <2>3 DEF Delete, ip
<1>7. CASE Archive(r)
  BY <1>7, RefuseKeeps DEF Archive
<1>8. QED
  BY <1>3, <1>4, <1>5, <1>6, <1>7 DEF Serve

LEMMA AskKeeps ==
  ASSUME Inv, NEW r \in Requests, Ask(r)
  PROVE  Inv'
<1>1. PICK op \in Asks : \E ip \in IF op = "bulk" THEN {Nil} ELSE Ips :
        call' = [call EXCEPT ![r] = [op |-> op, ip |-> ip, answer |-> "none"]]
  BY DEF Ask
<1>2. PICK ip \in IF op = "bulk" THEN {Nil} ELSE Ips :
        call' = [call EXCEPT ![r] = [op |-> op, ip |-> ip, answer |-> "none"]]
  BY <1>1
<1> DEFINE new == [op |-> op, ip |-> ip, answer |-> "none"]
<1>3. new \in Call /\ (new.op # "bulk" => new.ip \in Ips)
  BY DEF Call
<1>4. call' = [call EXCEPT ![r] = new]
  BY <1>2
<1> HIDE DEF new
<1>5. TypeOK'
  BY <1>3, <1>4 DEF Ask, Inv, TypeOK
<1>6. QED
  BY <1>5 DEF Ask, Inv, LogTellsStored, LogOfLives

LEMMA InvInit == Init => Inv
<1> SUFFICES ASSUME Init PROVE Inv
  OBVIOUS
<1>1. TypeOK
  <2>1. <<"CREATE">> \in Seq(Actions) /\ <<>> \in Seq(Actions)
    BY DEF Actions
  <2>2. log \in [Ips -> Seq(Actions)]
    BY <2>1 DEF Init
  <2>3. Answered("none") \in Call /\ Answered("none").op = "none"
    BY DEF Answered, Call
  <2>4. QED
    BY <2>2, <2>3 DEF Init, TypeOK, Asks
<1>2. ASSUME NEW ip \in Ips
      PROVE  /\ ip \in stored <=> Told(log[ip])
             /\ \A k \in 1..Len(log[ip]) :
                  (log[ip][k] = "CREATE") <=> (k = 1 \/ log[ip][k - 1] = "DELETE")
  <2>1. log[ip] = IF ip \in stored THEN <<"CREATE">> ELSE <<>>
    BY DEF Init
  <2>2. QED
    BY <2>1 DEF Told
<1>3. QED
  BY <1>1, <1>2 DEF Inv, LogTellsStored, LogOfLives

LEMMA InvStep == Inv /\ [Next]_vars => Inv'
<1> SUFFICES ASSUME Inv, [Next]_vars PROVE Inv'
  OBVIOUS
<1>1. CASE UNCHANGED vars
  BY <1>1 DEF vars, Inv, TypeOK, LogTellsStored, LogOfLives
<1>2. QED
  BY <1>1, AskKeeps, ServeKeeps DEF Next

(* What the log of an address says is what the table holds, and it is a    *)
(* sequence of lives.                                                      *)
THEOREM LogTells == Spec => [](LogTellsStored /\ LogOfLives)
<1>1. Inv => LogTellsStored /\ LogOfLives
  BY DEF Inv
<1>2. QED
  BY <1>1, InvInit, InvStep, PTL DEF Spec
===============================================================================
