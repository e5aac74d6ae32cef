------------------------ MODULE StreamRegistryProofs ------------------------
(***************************************************************************)
(* The invariants of StreamRegistry and its refinement of RegistryContract *)
(* for any number of commands, tenants, names and streams.                 *)
(*                                                                         *)
(* Progress says what a command has found out so far that no other command *)
(* can take back: rows are never removed, and no deletion is undone.       *)
(***************************************************************************)
EXTENDS StreamRegistry, TLAPS

\* Ids identify, and the names of live streams are unique in their tenant.
Keys ==
    /\ \A r, q \in streams : r.id = q.id => r = q
    /\ \A r, q \in streams : r.tenant = q.tenant /\ r.name = q.name /\ Live(r) /\ Live(q) => r = q
    /\ \A i \in deleted : \E r \in streams : r.id = i

\* What a command knows at each of its steps.  Between its two looks a deletion
\* may lose the stream it showed, but then that stream is deleted already.
Progress(c) ==
    /\ cmd[c].answer # "none" => cmd[c].pc = "ended"
    /\ cmd[c].kind \in {"create", "user"} => cmd[c].ref = cmd[c].name
    /\ cmd[c].pc = "tenant" => cmd[c].target = None
    /\ cmd[c].pc = "insert" => cmd[c].kind = "create"
    /\ cmd[c].pc \in {"show", "find", "update"} => cmd[c].kind = "delete"
    /\ cmd[c].pc \in {"find", "update"} => cmd[c].shown \in RowsOf(c, cmd[c].ref)
    /\ cmd[c].pc = "update" => /\ cmd[c].target \in RowsOf(c, cmd[c].ref)
                               /\ cmd[c].shown \in deleted \cup {cmd[c].target}
    /\ cmd[c].pc = "scope" => cmd[c].kind = "client"
    /\ cmd[c].pc = "account" =>
          /\ cmd[c].kind \in {"user", "client"}
          /\ cmd[c].target = None \/ cmd[c].target \in RowsOf(c, cmd[c].ref)

\* What a command has said is true, and stays true.
Truth(c) ==
    /\ cmd[c].answer = "ok" /\ cmd[c].kind = "delete" =>
          {cmd[c].shown, cmd[c].target} \subseteq deleted \cap RowsOf(c, cmd[c].ref)
    /\ cmd[c].answer = "ok" /\ cmd[c].kind = "create" =>
          cmd[c].target \in RowsOf(c, cmd[c].name)
    /\ cmd[c].answer = "ok" /\ cmd[c].kind \in {"user", "client"} =>
          \E a \in accounts :
             /\ a.by = c
             /\ <<a.kind, a.tenant, a.name>> = <<cmd[c].kind, cmd[c].tenant, cmd[c].name>>

IInv ==
    /\ TypeOK
    /\ Keys
    /\ ScopedWithinTenant
    /\ \A c \in Commands : Progress(c) /\ Truth(c)

-----------------------------------------------------------------------------
(* One step of one command.                                                *)

\* What a statement may do to the tables.
Effect ==
    \/ UNCHANGED <<streams, deleted, accounts>>
    \/ \E r \in Row :
          /\ \A q \in streams : q.id # r.id
          /\ \A q \in streams : q.tenant = r.tenant /\ q.name = r.name => q.id \in deleted
          /\ streams' = streams \cup {r}
          /\ UNCHANGED <<deleted, accounts>>
    \/ \E r \in streams :
          /\ deleted' = deleted \cup {r.id}
          /\ UNCHANGED <<streams, accounts>>
    \/ \E a \in Account :
          /\ \A b \in accounts : <<b.kind, b.tenant, b.name>> # <<a.kind, a.tenant, a.name>>
          /\ a.stream # None => \E r \in streams : r.id = a.stream /\ r.tenant = a.tenant
          /\ accounts' = accounts \cup {a}
          /\ UNCHANGED <<streams, deleted>>

\* The command c becomes v.
Becomes(c, v) ==
    /\ v \in Command
    /\ cmd' = [cmd EXCEPT ![c] = v]

Acts(c) ==
    /\ cmd[c].answer = "none"
    /\ cmd'[c] \in Command
    /\ cmd' = [cmd EXCEPT ![c] = cmd'[c]]
    /\ tenants' \subseteq Tenants
    /\ Effect
    /\ Progress(c)'
    /\ Truth(c)'
    /\ cmd'[c].answer = "missing" => RowsOf(c, cmd[c].ref)' \subseteq deleted'

LEMMA Change ==
    ASSUME TypeOK, NEW c \in Commands, NEW v, Becomes(c, v)
    PROVE  /\ cmd'[c] = v /\ v \in Command
           /\ cmd' = [cmd EXCEPT ![c] = cmd'[c]]
  BY DEF TypeOK, Becomes

LEMMA InRows ==
    ASSUME NEW c, NEW ref, NEW i
    PROVE  i \in RowsOf(c, ref) <=> \E r \in streams : /\ r.id = i
                                                       /\ r.tenant = cmd[c].tenant
                                                       /\ ref \in {r.id, r.name}
  BY DEF RowsOf

\* The tables only grow.
LEMMA Grows ==
    ASSUME Effect
    PROVE  streams \subseteq streams' /\ deleted \subseteq deleted' /\ accounts \subseteq accounts'
  BY DEF Effect

\* What a command knows and what it said survives the steps of the others.
LEMMA Survives ==
    ASSUME Effect, NEW d \in Commands, cmd'[d] = cmd[d], Progress(d), Truth(d)
    PROVE  Progress(d)' /\ Truth(d)'
  <1>1. RowsOf(d, cmd[d].ref) \subseteq RowsOf(d, cmd[d].ref)'
    BY Grows DEF RowsOf
  <1>2. RowsOf(d, cmd[d].name) \subseteq RowsOf(d, cmd[d].name)'
    BY Grows DEF RowsOf
  <1>3. Progress(d)'
    BY <1>1, <1>2, Grows DEF Progress
  <1>4. Truth(d)'
    BY <1>1, <1>2, Grows DEF Truth
  <1> QED BY <1>3, <1>4

LEMMA EffectTypes ==
    ASSUME IInv, Effect, tenants' \subseteq Tenants,
           cmd' \in [Commands -> Command \cup {Idle}]
    PROVE  TypeOK' /\ Keys' /\ ScopedWithinTenant'
  <1>1. TypeOK'
    BY DEF IInv, TypeOK, Effect, Row
  <1>2. Keys'
    BY DEF IInv, TypeOK, Keys, Effect, Live, Row
  <1>3. ScopedWithinTenant'
    BY DEF IInv, TypeOK, ScopedWithinTenant, Effect
  <1> QED BY <1>1, <1>2, <1>3

LEMMA ActsKeeps == ASSUME IInv, NEW c \in Commands, Acts(c) PROVE IInv'
  <1>1. cmd' \in [Commands -> Command \cup {Idle}] /\ \A d \in Commands \ {c} : cmd'[d] = cmd[d]
    BY DEF IInv, TypeOK, Acts
  <1>2. ASSUME NEW d \in Commands PROVE Progress(d)' /\ Truth(d)'
    BY <1>1, Survives DEF IInv, Acts
  <1> QED BY <1>1, <1>2, EffectTypes DEF IInv, Acts

-----------------------------------------------------------------------------
(* The actions.                                                            *)

\* What the steps of a command keep of it.
Keeps(c) ==
    /\ cmd'[c] \in Command
    /\ cmd' = [cmd EXCEPT ![c] = cmd'[c]]
    /\ cmd'[c].kind = cmd[c].kind /\ cmd'[c].tenant = cmd[c].tenant
    /\ cmd'[c].name = cmd[c].name /\ cmd'[c].ref = cmd[c].ref

LEMMA Busy ==
    ASSUME IInv, NEW c \in Commands, cmd[c].pc \notin {"idle", "ended"}
    PROVE  cmd[c] \in Command /\ cmd[c].answer = "none" /\ Progress(c)
  BY DEF IInv, TypeOK, Idle, Progress

LEMMA EndsAs ==
    ASSUME TypeOK, NEW c \in Commands, cmd[c] \in Command, NEW how \in Answers, Ends(c, how)
    PROVE  /\ Keeps(c)
           /\ cmd'[c].pc = "ended" /\ cmd'[c].answer = how
           /\ cmd'[c].shown = cmd[c].shown /\ cmd'[c].target = cmd[c].target
  <1> DEFINE v == [cmd[c] EXCEPT !.pc = "ended", !.answer = how]
  <1>1. /\ v \in Command /\ v.pc = "ended" /\ v.answer = how /\ v.shown = cmd[c].shown
        /\ v.target = cmd[c].target /\ v.kind = cmd[c].kind /\ v.tenant = cmd[c].tenant
        /\ v.name = cmd[c].name /\ v.ref = cmd[c].ref
    BY DEF Command, PCs
  <1>2. cmd' = [cmd EXCEPT ![c] = v]
    BY DEF Ends, TypeOK
  <1> HIDE DEF v
  <1> QED BY <1>1, <1>2, Change DEF Becomes, Keeps

LEMMA GoesTo ==
    ASSUME TypeOK, NEW c \in Commands, cmd[c] \in Command, NEW pc \in PCs, Goto(c, pc)
    PROVE  /\ Keeps(c)
           /\ cmd'[c].pc = pc /\ cmd'[c].answer = cmd[c].answer
           /\ cmd'[c].shown = cmd[c].shown /\ cmd'[c].target = cmd[c].target
  <1> DEFINE v == [cmd[c] EXCEPT !.pc = pc]
  <1>1. /\ v \in Command /\ v.pc = pc /\ v.answer = cmd[c].answer /\ v.shown = cmd[c].shown
        /\ v.target = cmd[c].target /\ v.kind = cmd[c].kind /\ v.tenant = cmd[c].tenant
        /\ v.name = cmd[c].name /\ v.ref = cmd[c].ref
    BY DEF Command
  <1>2. cmd' = [cmd EXCEPT ![c] = v]
    BY DEF Goto, TypeOK
  <1> HIDE DEF v
  <1> QED BY <1>1, <1>2, Change DEF Becomes, Keeps

\* A command that fails, whatever its statement did, says nothing.
LEMMA FailureActs ==
    ASSUME IInv, NEW c \in Commands, cmd[c].pc \notin {"idle", "ended"},
           NEW how \in {"error", "exists"}, Ends(c, how), Effect, tenants' \subseteq Tenants
    PROVE  Acts(c)
  <1>1. cmd[c] \in Command /\ cmd[c].answer = "none" /\ Progress(c) /\ TypeOK
    BY Busy DEF IInv
  <1>2. /\ Keeps(c) /\ cmd'[c].pc = "ended" /\ cmd'[c].answer = how
    BY <1>1, EndsAs DEF Answers
  <1>3. Progress(c)' /\ Truth(c)'
    BY <1>1, <1>2 DEF Keeps, Progress, Truth
  <1> QED BY <1>1, <1>2, <1>3 DEF Acts, Keeps

\* A command that finds nothing says so; what it looked for is deleted, or was
\* never there.
LEMMA MissingActs ==
    ASSUME IInv, NEW c \in Commands, cmd[c].pc \notin {"idle", "ended"},
           NEW ref, ref = cmd[c].ref, Found(cmd[c].tenant, ref) = {}, Ends(c, "missing"),
           UNCHANGED tables
    PROVE  Acts(c)
  <1>1. cmd[c] \in Command /\ cmd[c].answer = "none" /\ Progress(c) /\ TypeOK
    BY Busy DEF IInv
  <1>2. /\ Keeps(c) /\ cmd'[c].pc = "ended" /\ cmd'[c].answer = "missing"
    BY <1>1, EndsAs DEF Answers
  <1>3. /\ RowsOf(c, cmd[c].ref)' = RowsOf(c, cmd[c].ref)
        /\ RowsOf(c, cmd[c].name)' = RowsOf(c, cmd[c].name)
    BY <1>2 DEF Keeps, RowsOf, tables
  <1>4. RowsOf(c, cmd[c].ref) \subseteq deleted
    BY DEF Found, Live, RowsOf
  <1>5. Progress(c)'
    BY <1>1, <1>2 DEF Keeps, Progress
  <1>6. Truth(c)'
    BY <1>1, <1>2, <1>3, <1>4 DEF Keeps, Progress, Truth, tables
  <1>7. Effect /\ tenants' \subseteq Tenants
    BY <1>1 DEF Effect, tables, TypeOK
  <1> QED BY <1>1, <1>2, <1>3, <1>4, <1>5, <1>6, <1>7 DEF Acts, Keeps, tables

LEMMA CutShortActs == ASSUME IInv, NEW c \in Commands, CutShort(c) PROVE Acts(c)
  <1>1. Effect /\ tenants' \subseteq Tenants
    BY DEF CutShort, Effect, tables, IInv, TypeOK
  <1> QED BY <1>1, FailureActs DEF CutShort

LEMMA StartActs == ASSUME IInv, NEW c \in Commands, Start(c) PROVE Acts(c)
  <1>1. PICK kind \in Offers[c], tenant \in Tenants, name \in Names, ref \in Refs,
             pc \in {"tenant", "ended"} :
          /\ kind \in {"create", "user"} => ref = name
          /\ cmd' = [cmd EXCEPT ![c] =
                        [pc |-> pc, kind |-> kind, tenant |-> tenant, name |-> name,
                         ref |-> ref, shown |-> None, target |-> None,
                         answer |-> IF pc = "ended" THEN "refused" ELSE "none"]]
    BY DEF Start
  <1> DEFINE v == [pc |-> pc, kind |-> kind, tenant |-> tenant, name |-> name,
                   ref |-> ref, shown |-> None, target |-> None,
                   answer |-> IF pc = "ended" THEN "refused" ELSE "none"]
  <1>2. kind \in Kinds
    BY OffersAssumption
  <1>3. v \in Command
    BY <1>2 DEF Command, PCs, Kinds, MaybeId, Answers
  <1>4. /\ v.pc = pc /\ v.kind = kind /\ v.name = name /\ v.ref = ref /\ v.target = None
        /\ v.answer = IF pc = "ended" THEN "refused" ELSE "none"
    OBVIOUS
  <1>5. cmd' = [cmd EXCEPT ![c] = v]
    BY <1>1
  <1> HIDE DEF v
  <1>6. cmd'[c] = v /\ cmd' = [cmd EXCEPT ![c] = cmd'[c]]
    BY <1>3, <1>5, Change DEF Becomes, IInv
  <1>7. Progress(c)' /\ Truth(c)'
    BY <1>1, <1>4, <1>6 DEF Progress, Truth
  <1>8. Effect /\ tenants' \subseteq Tenants
    BY DEF Start, Effect, tables, IInv, TypeOK
  <1>9. cmd[c].answer = "none"
    BY DEF Start, At, IInv, Progress
  <1> QED BY <1>3, <1>4, <1>6, <1>7, <1>8, <1>9 DEF Acts

LEMMA TenantActs == ASSUME IInv, NEW c \in Commands, CreateOrGetTenant(c) PROVE Acts(c)
  <1>1. /\ cmd[c].pc = "tenant" /\ cmd[c] \in Command /\ cmd[c].answer = "none"
        /\ Progress(c) /\ TypeOK
    BY Busy DEF CreateOrGetTenant, At, IInv
  <1>2. Effect /\ tenants' \subseteq Tenants
    BY <1>1 DEF CreateOrGetTenant, Effect, TypeOK, Command
  <1>3. CASE Ends(c, "error")
    BY <1>1, <1>2, <1>3, FailureActs
  <1>4. CASE Goto(c, FirstStatement(c))
    <2> DEFINE pc == FirstStatement(c)
    <2>1. /\ pc \in {"insert", "show", "account", "scope"}
          /\ pc = "insert" => cmd[c].kind = "create"
          /\ pc = "show" => cmd[c].kind = "delete"
          /\ pc = "scope" => cmd[c].kind = "client"
          /\ pc = "account" => cmd[c].kind \in {"user", "client"}
      BY <1>1 DEF FirstStatement, Command, Kinds
    <2> HIDE DEF pc
    <2>2. pc \in PCs /\ Goto(c, pc)
      BY <1>4, <2>1 DEF PCs, pc
    <2>3. /\ Keeps(c) /\ cmd'[c].pc = pc /\ cmd'[c].answer = "none"
          /\ cmd'[c].target = cmd[c].target
      BY <1>1, <2>2, GoesTo
    <2>4. Progress(c)' /\ Truth(c)'
      BY <1>1, <2>1, <2>3 DEF Keeps, Progress, Truth
    <2> QED BY <1>1, <1>2, <2>3, <2>4 DEF Acts, Keeps
  <1> QED BY <1>3, <1>4 DEF CreateOrGetTenant

\* A command that reports a stream, or moves on with one it has found.
LEMMA Reports ==
    ASSUME TypeOK, NEW c \in Commands, cmd[c] \in Command, NEW i \in Ids,
           cmd' = [cmd EXCEPT ![c].pc = "ended", ![c].answer = "ok", ![c].target = i]
    PROVE  /\ Keeps(c)
           /\ cmd'[c].pc = "ended" /\ cmd'[c].answer = "ok" /\ cmd'[c].target = i
  <1> DEFINE v == [cmd[c] EXCEPT !.pc = "ended", !.answer = "ok", !.target = i]
  <1>1. /\ v \in Command /\ v.pc = "ended" /\ v.answer = "ok" /\ v.target = i
        /\ v.kind = cmd[c].kind /\ v.tenant = cmd[c].tenant
        /\ v.name = cmd[c].name /\ v.ref = cmd[c].ref
    BY DEF Command, PCs, MaybeId, Answers
  <1>2. cmd' = [cmd EXCEPT ![c] = v]
    BY DEF TypeOK
  <1> HIDE DEF v
  <1> QED BY <1>1, <1>2, Change DEF Becomes, Keeps

LEMMA MovesWith ==
    ASSUME TypeOK, NEW c \in Commands, cmd[c] \in Command, NEW i \in Ids, NEW pc \in PCs,
           cmd' = [cmd EXCEPT ![c].pc = pc, ![c].target = i]
    PROVE  /\ Keeps(c)
           /\ cmd'[c].pc = pc /\ cmd'[c].answer = cmd[c].answer
           /\ cmd'[c].shown = cmd[c].shown /\ cmd'[c].target = i
  <1> DEFINE v == [cmd[c] EXCEPT !.pc = pc, !.target = i]
  <1>1. /\ v \in Command /\ v.pc = pc /\ v.answer = cmd[c].answer /\ v.target = i
        /\ v.kind = cmd[c].kind /\ v.tenant = cmd[c].tenant /\ v.shown = cmd[c].shown
        /\ v.name = cmd[c].name /\ v.ref = cmd[c].ref
    BY DEF Command, MaybeId
  <1>2. cmd' = [cmd EXCEPT ![c] = v]
    BY DEF TypeOK
  <1> HIDE DEF v
  <1> QED BY <1>1, <1>2, Change DEF Becomes, Keeps

LEMMA CreateActs == ASSUME IInv, NEW c \in Commands, CreateStream(c) PROVE Acts(c)
  <1>1. /\ cmd[c].pc = "insert" /\ cmd[c] \in Command /\ cmd[c].answer = "none"
        /\ Progress(c) /\ TypeOK
    BY Busy DEF CreateStream, At, IInv
  <1>2. tenants' \subseteq Tenants
    BY <1>1 DEF CreateStream, TypeOK
  <1>3. ASSUME ~Taken(c), NEW i \in Ids \ {r.id : r \in streams},
               streams' = streams \cup
                  {[id |-> i, tenant |-> cmd[c].tenant, name |-> cmd[c].name]},
               UNCHANGED <<deleted, accounts>>,
               \/ cmd' = [cmd EXCEPT ![c].pc = "ended", ![c].answer = "ok", ![c].target = i]
               \/ Ends(c, "error")
        PROVE  Acts(c)
    <2> DEFINE r == [id |-> i, tenant |-> cmd[c].tenant, name |-> cmd[c].name]
    <2>1. r \in Row /\ r.id = i /\ r.tenant = cmd[c].tenant /\ r.name = cmd[c].name
      BY <1>1 DEF Row, Command
    <2>2. streams' = streams \cup {r}
      BY <1>3
    <2> HIDE DEF r
    <2>3. \A q \in streams : q.id # r.id
      BY <1>3, <2>1
    <2>4. \A q \in streams : q.tenant = r.tenant /\ q.name = r.name => q.id \in deleted
      BY <1>3, <2>1 DEF Taken, Live
    <2>5. Effect
      BY <1>3, <2>1, <2>2, <2>3, <2>4 DEF Effect
    <2>6. CASE Ends(c, "error")
      BY <1>1, <1>2, <2>5, <2>6, FailureActs
    <2>7. CASE cmd' = [cmd EXCEPT ![c].pc = "ended", ![c].answer = "ok", ![c].target = i]
      <3>1. Keeps(c) /\ cmd'[c].pc = "ended" /\ cmd'[c].answer = "ok" /\ cmd'[c].target = i
        BY <1>1, <2>7, Reports
      <3>2. i \in RowsOf(c, cmd[c].name)'
        BY <2>1, <2>2, <3>1 DEF RowsOf, Keeps
      <3>3. Progress(c)'
        BY <1>1, <3>1 DEF Progress, Keeps
      <3>4. Truth(c)'
        BY <1>1, <3>1, <3>2 DEF Progress, Truth, Keeps
      <3> QED BY <1>1, <1>2, <2>5, <3>1, <3>3, <3>4 DEF Acts, Keeps
    <2> QED BY <1>3, <2>6, <2>7
  <1>4. CASE Taken(c) /\ UNCHANGED <<streams, deleted, accounts>> /\ Ends(c, "exists")
    BY <1>1, <1>2, <1>4, FailureActs DEF Effect
  <1> QED BY <1>3, <1>4 DEF CreateStream

LEMMA ShowActs == ASSUME IInv, NEW c \in Commands, ShowStream(c) PROVE Acts(c)
  <1>1. /\ cmd[c].pc = "show" /\ cmd[c] \in Command /\ cmd[c].answer = "none"
        /\ Progress(c) /\ TypeOK /\ UNCHANGED tables
    BY Busy DEF ShowStream, At, IInv
  <1>2. cmd[c].kind = "delete"
    BY <1>1 DEF Progress
  <1>3. CASE Found(cmd[c].tenant, cmd[c].ref) = {} /\ Ends(c, "missing")
    BY <1>1, <1>2, <1>3, MissingActs
  <1>4. ASSUME NEW r \in Found(cmd[c].tenant, cmd[c].ref),
               cmd' = [cmd EXCEPT ![c].pc = "find", ![c].shown = r.id]
        PROVE  Acts(c)
    <2> DEFINE v == [cmd[c] EXCEPT !.pc = "find", !.shown = r.id]
    <2>1. r.id \in RowsOf(c, cmd[c].ref) /\ r.id \in Ids
      BY <1>1 DEF Found, RowsOf, TypeOK, Row
    <2>2. /\ v \in Command /\ v.pc = "find" /\ v.answer = "none" /\ v.shown = r.id
          /\ v.kind = cmd[c].kind /\ v.tenant = cmd[c].tenant
          /\ v.name = cmd[c].name /\ v.ref = cmd[c].ref
      BY <1>1, <2>1 DEF Command, PCs, MaybeId
    <2>3. cmd' = [cmd EXCEPT ![c] = v]
      BY <1>1, <1>4 DEF TypeOK
    <2> HIDE DEF v
    <2>4. Keeps(c) /\ cmd'[c] = v
      BY <1>1, <2>2, <2>3, Change DEF Becomes, Keeps
    <2>5. RowsOf(c, cmd[c].ref)' = RowsOf(c, cmd[c].ref)
      BY <1>1, <2>4 DEF RowsOf, Keeps, tables
    <2>6. Progress(c)' /\ Truth(c)'
      BY <1>2, <2>1, <2>2, <2>4, <2>5 DEF Progress, Truth, Keeps
    <2> QED BY <1>1, <2>2, <2>4, <2>6 DEF Acts, Effect, Keeps, tables, TypeOK
  <1> QED BY <1>3, <1>4 DEF ShowStream

\* Of two live streams that a name or an id stands for there is only one.
LEMMA OneLive ==
    ASSUME IInv, NEW t, NEW ref \in Refs, NEW r \in Found(t, ref), NEW q \in Found(t, ref)
    PROVE  r = q
  <1>1. /\ r \in streams /\ q \in streams /\ Live(r) /\ Live(q) /\ r.tenant = q.tenant
        /\ ref \in {r.id, r.name} /\ ref \in {q.id, q.name}
    BY DEF Found
  <1>2. r.id \in Ids /\ q.id \in Ids /\ r.name \in Names /\ q.name \in Names
    BY <1>1 DEF IInv, TypeOK, Row
  <1>3. r.id = q.id \/ r.name = q.name
    BY <1>1, <1>2, IdsAssumption
  <1> QED BY <1>1, <1>3 DEF IInv, Keys

LEMMA FindActs == ASSUME IInv, NEW c \in Commands, FindStream(c) PROVE Acts(c)
  <1>1. /\ cmd[c].pc = "find" /\ cmd[c] \in Command /\ cmd[c].answer = "none"
        /\ Progress(c) /\ TypeOK /\ UNCHANGED tables
    BY Busy DEF FindStream, At, IInv
  <1>2. cmd[c].kind = "delete" /\ cmd[c].shown \in RowsOf(c, cmd[c].ref)
    BY <1>1 DEF Progress
  <1>3. CASE Found(cmd[c].tenant, cmd[c].ref) = {} /\ Ends(c, "missing")
    BY <1>1, <1>2, <1>3, MissingActs
  <1>4. ASSUME NEW r \in Found(cmd[c].tenant, cmd[c].ref),
               cmd' = [cmd EXCEPT ![c].pc = "update", ![c].target = r.id]
        PROVE  Acts(c)
    <2>1. r.id \in RowsOf(c, cmd[c].ref) /\ r.id \in Ids
      BY <1>1 DEF Found, RowsOf, TypeOK, Row
    <2>2. cmd[c].shown \in deleted \cup {r.id}
      <3>1. PICK q \in streams : /\ q.id = cmd[c].shown
                                 /\ q.tenant = cmd[c].tenant
                                 /\ cmd[c].ref \in {q.id, q.name}
        BY <1>2, InRows
      <3>2. CASE Live(q)
        <4>1. q \in Found(cmd[c].tenant, cmd[c].ref) /\ cmd[c].ref \in Refs
          BY <1>1, <3>1, <3>2 DEF Found, Command
        <4> QED BY <3>1, <4>1, OneLive
      <3> QED BY <3>1, <3>2 DEF Live
    <2>3. /\ Keeps(c) /\ cmd'[c].pc = "update" /\ cmd'[c].answer = "none"
          /\ cmd'[c].shown = cmd[c].shown /\ cmd'[c].target = r.id
      BY <1>1, <1>4, <2>1, MovesWith DEF PCs
    <2>4. RowsOf(c, cmd[c].ref)' = RowsOf(c, cmd[c].ref)
      BY <1>1, <2>3 DEF RowsOf, Keeps, tables
    <2>5. Progress(c)' /\ Truth(c)'
      BY <1>1, <1>2, <2>1, <2>2, <2>3, <2>4 DEF Progress, Truth, Keeps, tables
    <2> QED BY <1>1, <2>3, <2>5 DEF Acts, Effect, Keeps, tables, TypeOK
  <1> QED BY <1>3, <1>4 DEF FindStream

LEMMA UpdateActs == ASSUME IInv, NEW c \in Commands, UpdateDeleted(c) PROVE Acts(c)
  <1>1. /\ cmd[c].pc = "update" /\ cmd[c] \in Command /\ cmd[c].answer = "none"
        /\ Progress(c) /\ TypeOK
    BY Busy DEF UpdateDeleted, At, IInv
  <1>2. /\ cmd[c].kind = "delete"
        /\ {cmd[c].shown, cmd[c].target} \subseteq RowsOf(c, cmd[c].ref)
        /\ cmd[c].shown \in deleted \cup {cmd[c].target}
    BY <1>1 DEF Progress
  <1>3. PICK r \in streams : r.id = cmd[c].target
    BY <1>2, InRows
  <1>4. Effect /\ tenants' \subseteq Tenants
    BY <1>1, <1>3 DEF UpdateDeleted, Effect, TypeOK
  <1>5. CASE Ends(c, "error")
    BY <1>1, <1>4, <1>5, FailureActs
  <1>6. CASE Ends(c, "ok")
    <2>1. /\ Keeps(c) /\ cmd'[c].pc = "ended" /\ cmd'[c].answer = "ok"
          /\ cmd'[c].shown = cmd[c].shown /\ cmd'[c].target = cmd[c].target
      BY <1>1, <1>6, EndsAs DEF Answers
    <2>2. /\ RowsOf(c, cmd[c].ref)' = RowsOf(c, cmd[c].ref)
          /\ deleted' = deleted \cup {cmd[c].target}
      BY <2>1 DEF UpdateDeleted, RowsOf, Keeps
    <2>3. Progress(c)' /\ Truth(c)'
      BY <1>1, <1>2, <2>1, <2>2 DEF Progress, Truth, Keeps
    <2> QED BY <1>1, <1>4, <2>1, <2>3 DEF Acts, Keeps
  <1> QED BY <1>5, <1>6 DEF UpdateDeleted, Replies

LEMMA ScopeActs == ASSUME IInv, NEW c \in Commands, ScopeClient(c) PROVE Acts(c)
  <1>1. /\ cmd[c].pc = "scope" /\ cmd[c] \in Command /\ cmd[c].answer = "none"
        /\ Progress(c) /\ TypeOK /\ UNCHANGED tables
    BY Busy DEF ScopeClient, At, IInv
  <1>2. cmd[c].kind = "client"
    BY <1>1 DEF Progress
  <1>3. CASE Found(cmd[c].tenant, cmd[c].ref) = {} /\ Ends(c, "missing")
    BY <1>1, <1>2, <1>3, MissingActs
  <1>4. ASSUME NEW r \in Found(cmd[c].tenant, cmd[c].ref),
               cmd' = [cmd EXCEPT ![c].pc = "account", ![c].target = r.id]
        PROVE  Acts(c)
    <2>1. r.id \in RowsOf(c, cmd[c].ref) /\ r.id \in Ids
      BY <1>1 DEF Found, RowsOf, TypeOK, Row
    <2>2. /\ Keeps(c) /\ cmd'[c].pc = "account" /\ cmd'[c].answer = "none"
          /\ cmd'[c].target = r.id
      BY <1>1, <1>4, <2>1, MovesWith DEF PCs
    <2>3. RowsOf(c, cmd[c].ref)' = RowsOf(c, cmd[c].ref)
      BY <1>1, <2>2 DEF RowsOf, Keeps, tables
    <2>4. Progress(c)' /\ Truth(c)'
      BY <1>2, <2>1, <2>2, <2>3 DEF Progress, Truth, Keeps
    <2> QED BY <1>1, <2>2, <2>4 DEF Acts, Effect, Keeps, tables, TypeOK
  <1> QED BY <1>3, <1>4 DEF ScopeClient

LEMMA AccountActs == ASSUME IInv, NEW c \in Commands, CreateAccount(c) PROVE Acts(c)
  <1>1. /\ cmd[c].pc = "account" /\ cmd[c] \in Command /\ cmd[c].answer = "none"
        /\ Progress(c) /\ TypeOK /\ UNCHANGED <<tenants, streams, deleted>>
    BY Busy DEF CreateAccount, At, IInv
  <1>2. /\ cmd[c].kind \in {"user", "client"}
        /\ cmd[c].target = None \/ cmd[c].target \in RowsOf(c, cmd[c].ref)
    BY <1>1 DEF Progress
  <1>3. tenants' \subseteq Tenants
    BY <1>1 DEF TypeOK
  <1>4. CASE Ends(c, "exists") /\ UNCHANGED accounts
    BY <1>1, <1>3, <1>4, FailureActs DEF Effect
  <1>5. CASE /\ ~Registered(c)
             /\ accounts' = accounts \cup
                {[kind |-> cmd[c].kind, tenant |-> cmd[c].tenant, name |-> cmd[c].name,
                  stream |-> cmd[c].target, by |-> c]}
             /\ Replies(c, "ok")
    <2> DEFINE a == [kind |-> cmd[c].kind, tenant |-> cmd[c].tenant, name |-> cmd[c].name,
                     stream |-> cmd[c].target, by |-> c]
    <2>1. /\ a \in Account /\ a.kind = cmd[c].kind /\ a.tenant = cmd[c].tenant
          /\ a.name = cmd[c].name /\ a.stream = cmd[c].target /\ a.by = c
      BY <1>1, <1>2 DEF Account, Command
    <2>2. accounts' = accounts \cup {a}
      BY <1>5
    <2> HIDE DEF a
    <2>3. \A b \in accounts : <<b.kind, b.tenant, b.name>> # <<a.kind, a.tenant, a.name>>
      BY <1>5, <2>1 DEF Registered
    <2>4. a.stream # None => \E r \in streams : r.id = a.stream /\ r.tenant = a.tenant
      BY <1>2, <2>1, InRows
    <2>5. Effect
      BY <1>1, <2>1, <2>2, <2>3, <2>4 DEF Effect
    <2>6. CASE Ends(c, "error")
      BY <1>1, <1>3, <2>5, <2>6, FailureActs
    <2>7. CASE Ends(c, "ok")
      <3>1. Keeps(c) /\ cmd'[c].pc = "ended" /\ cmd'[c].answer = "ok"
        BY <1>1, <2>7, EndsAs DEF Answers
      <3>2. Progress(c)'
        BY <1>1, <3>1 DEF Progress, Keeps
      <3>3. Truth(c)'
        BY <1>2, <2>1, <2>2, <3>1 DEF Truth, Keeps
      <3> QED BY <1>1, <1>3, <2>5, <3>1, <3>2, <3>3 DEF Acts, Keeps
    <2> QED BY <1>5, <2>6, <2>7 DEF Replies
  <1> QED BY <1>4, <1>5 DEF CreateAccount

-----------------------------------------------------------------------------
(* All of it.                                                              *)

LEMMA InitInv == ASSUME Init PROVE IInv
  <1>1. TypeOK
    BY DEF Init, TypeOK, Row
  <1>2. Keys /\ ScopedWithinTenant
    BY DEF Init, Keys, Live, ScopedWithinTenant
  <1>3. \A c \in Commands : Progress(c) /\ Truth(c)
    BY DEF Init, Idle, Progress, Truth
  <1> QED BY <1>1, <1>2, <1>3 DEF IInv

LEMMA StepActs == ASSUME IInv, NEW c \in Commands, Step(c) PROVE Acts(c)
  BY StartActs, CutShortActs, TenantActs, CreateActs, ShowActs, FindActs,
     UpdateActs, ScopeActs, AccountActs DEF Step

LEMMA NextInv == ASSUME IInv, [Next]_vars PROVE IInv'
  <1>1. CASE \E c \in Commands : Step(c)
    BY <1>1, StepActs, ActsKeeps
  <1>2. CASE UNCHANGED vars
    BY <1>2 DEF vars, IInv, TypeOK, Keys, Live, ScopedWithinTenant, Progress, Truth, RowsOf
  <1> QED BY <1>1, <1>2 DEF Next, Terminated

LEMMA Invariance == Spec => []IInv
  BY InitInv, NextInv, PTL DEF Spec

\* What the command c tells its user.
Saying(c) ==
    IF cmd[c].answer = "none" THEN [answer |-> "none"]
    ELSE [answer |-> cmd[c].answer, kind |-> cmd[c].kind, tenant |-> cmd[c].tenant,
          name |-> cmd[c].name, ref |-> cmd[c].ref, shown |-> cmd[c].shown,
          target |-> cmd[c].target]

LEMMA SaidIs == /\ said = [c \in Commands |-> Saying(c)]
                /\ said' = [c \in Commands |-> Saying(c)']
  BY DEF said, Saying

LEMMA MeantIs ==
    ASSUME NEW c, NEW ref
    PROVE  RowsOf(c, ref) = {r.id : r \in Contract!Meant(streams, cmd[c].tenant, ref)}
  BY DEF RowsOf, Contract!Meant

\* A command that speaks for the first time tells the truth.
LEMMA Speaks ==
    ASSUME IInv, NEW c \in Commands, Acts(c)
    PROVE  Contract!Says
  <1>1. /\ cmd' = [cmd EXCEPT ![c] = cmd'[c]] /\ cmd'[c] \in Command
        /\ said[c] = Contract!Silent
    BY SaidIs DEF Acts, Saying, Contract!Silent
  <1>2. said' = [d \in Commands |-> Saying(d)']
    BY SaidIs
  <1>3. \A d \in Commands \ {c} : Saying(d)' = Saying(d)
    BY <1>1 DEF Saying, IInv, TypeOK
  <1>4. said' = [said EXCEPT ![c] = said'[c]]
    BY <1>2, <1>3, SaidIs
  <1>5. CASE cmd'[c].answer = "none"
    <2>1. Saying(c)' = Saying(c)
      BY <1>5 DEF Acts, Saying
    <2> QED BY <1>2, <1>3, <2>1, SaidIs DEF Contract!Says
  <1>6. CASE cmd'[c].answer # "none"
    <2> DEFINE w == said'[c]
    <2>1. /\ w = [answer |-> cmd'[c].answer, kind |-> cmd'[c].kind, tenant |-> cmd'[c].tenant,
                  name |-> cmd'[c].name, ref |-> cmd'[c].ref, shown |-> cmd'[c].shown,
                  target |-> cmd'[c].target]
      BY <1>2, <1>6 DEF Saying
    <2>2. w \in Contract!Words
      BY <1>1, <1>6, <2>1 DEF Contract!Words, Command, Kinds, Answers, Refs, MaybeId
    <2>3. Contract!True(c, w, streams', deleted', accounts')
      BY <2>1 DEF Contract!True, Contract!Meant, Acts, Truth, RowsOf
    <2> QED BY <1>1, <1>4, <2>2, <2>3 DEF Contract!Says
  <1> QED BY <1>5, <1>6

LEMMA Implements == ASSUME IInv, [Next]_vars PROVE [Contract!Next]_Contract!vars
  <1>1. ASSUME NEW c \in Commands, Step(c) PROVE Contract!Next
    <2>1. Acts(c) /\ Contract!Says
      BY <1>1, StepActs, Speaks
    <2>2. CASE UNCHANGED <<streams, deleted, accounts>>
      BY <2>1, <2>2 DEF Contract!Next
    <2>3. CASE \E r \in Row :
                  /\ \A q \in streams : q.id # r.id
                  /\ \A q \in streams : q.tenant = r.tenant /\ q.name = r.name => q.id \in deleted
                  /\ streams' = streams \cup {r}
                  /\ UNCHANGED <<deleted, accounts>>
      <3>1. PICK r \in Row :
                  /\ \A q \in streams : q.id # r.id
                  /\ \A q \in streams : q.tenant = r.tenant /\ q.name = r.name => q.id \in deleted
                  /\ streams' = streams \cup {r}
                  /\ UNCHANGED <<deleted, accounts>>
        BY <2>3
      <3>2. \A q \in Contract!Meant(streams, r.tenant, r.name) : q.id \in deleted
        BY <3>1, IdsAssumption DEF Contract!Meant, IInv, TypeOK, Row
      <3>3. Contract!Adds
        BY <3>1, <3>2 DEF Contract!Adds, Row
      <3> QED BY <2>1, <3>3 DEF Contract!Next
    <2>4. CASE \E r \in streams :
                  /\ deleted' = deleted \cup {r.id}
                  /\ UNCHANGED <<streams, accounts>>
      <3>1. PICK r \in streams : deleted' = deleted \cup {r.id} /\ UNCHANGED <<streams, accounts>>
        BY <2>4
      <3>2. CASE r.id \in deleted
        BY <2>1, <3>1, <3>2 DEF Contract!Next
      <3>3. CASE r.id \notin deleted
        <4>1. Contract!Removes
          BY <3>1, <3>3 DEF Contract!Removes
        <4> QED BY <2>1, <4>1 DEF Contract!Next
      <3> QED BY <3>2, <3>3
    <2>5. CASE \E a \in Account :
                  /\ \A b \in accounts : <<b.kind, b.tenant, b.name>> # <<a.kind, a.tenant, a.name>>
                  /\ a.stream # None => \E r \in streams : r.id = a.stream /\ r.tenant = a.tenant
                  /\ accounts' = accounts \cup {a}
                  /\ UNCHANGED <<streams, deleted>>
      <3>1. Contract!Opens
        BY <2>5 DEF Contract!Opens, Contract!Account, Account, MaybeId
      <3> QED BY <2>1, <3>1 DEF Contract!Next
    <2> QED BY <2>1, <2>2, <2>3, <2>4, <2>5 DEF Acts, Effect
  <1>2. CASE UNCHANGED vars
    <2>1. \A c \in Commands : Saying(c)' = Saying(c)
      BY <1>2 DEF vars, Saying
    <2>2. said' = said
      BY <2>1, SaidIs
    <2> QED BY <1>2, <2>2 DEF vars, Contract!vars
  <1> QED BY <1>1, <1>2 DEF Next, Terminated

LEMMA InitImplements == ASSUME Init PROVE Contract!Init
  <1>1. said = [c \in Commands |-> Contract!Silent]
    BY SaidIs DEF Init, Idle, Saying, Contract!Silent
  <1> QED BY <1>1 DEF Init, Row, Contract!Init

-----------------------------------------------------------------------------
(* The results.                                                            *)

\* Every variable has its type.
THEOREM TypeCorrect == Spec => []TypeOK
  <1>1. IInv => TypeOK
    BY DEF IInv
  <1> QED BY <1>1, Invariance, PTL

\* A deletion that reports success has deleted what it showed, whatever ran
\* between its three statements (stream.go:162-178, pkg/db/stream.go:29-46).
THEOREM DeletionsTruthful == Spec => []DeletedAsReported
  <1>1. IInv => DeletedAsReported
    BY DEF IInv, Truth, DeletedAsReported
  <1> QED BY <1>1, Invariance, PTL

\* A secret is shown only by the command that has stored it (client.go, user.go).
THEOREM SecretsStored == Spec => []ToldSecretIsStored
  <1>1. IInv => ToldSecretIsStored
    BY DEF IInv, Truth, ToldSecretIsStored
  <1> QED BY <1>1, Invariance, PTL

\* A client is never scoped to a stream of another tenant (client.go:52-60).
THEOREM ScopesWithinTenant == Spec => []ScopedWithinTenant
  <1>1. IInv => ScopedWithinTenant
    BY DEF IInv
  <1> QED BY <1>1, Invariance, PTL

\* The statements of the commands implement the contract of the registry.
THEOREM RegistryImplementsContract == Spec => ContractHolds
  <1> QED BY InitImplements, Implements, Invariance, PTL DEF Spec, ContractHolds, Contract!Spec
=============================================================================
