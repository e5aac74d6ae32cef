--------------------------- MODULE StreamRegistry ---------------------------
(***************************************************************************)
(* Commands that run at a time over the tables of streams, clients and     *)
(* users: `frkrcfg stream|client|user|tenant` (src/cmd/frkrcfg) and the    *)
(* functions of src/pkg/db they call.  Each runs as a few SQL statements   *)
(* without a transaction.  The statements themselves belong to             *)
(* frkr-common, which is external: they are modelled by what the tests in  *)
(* src/pkg/db say of them.                                                 *)
(*                                                                         *)
(* Commands that only read are commands cut short: `stream get` is a       *)
(* deletion that stops when it has shown the stream, `list` and `tenant`   *)
(* stop after the tenant.                                                  *)
(*                                                                         *)
(* A command is cut short anywhere, by an error or by the user; a reply    *)
(* may be lost after its statement took effect.  The secret of an account  *)
(* is known by the command that made it up.                                *)
(***************************************************************************)
CONSTANTS
    Commands,    \* processes
    Offers,      \* the kinds of command each process may be
    Tenants, Names,
    Ids,         \* of streams
    None,        \* no stream
    Recreate,    \* is the name of a deleted stream free again?
    LostReplies  \* may a reply be lost?

Kinds == {"create", "delete", "client", "user"}

ASSUME OffersAssumption == Offers \in [Commands -> SUBSET Kinds]
ASSUME IdsAssumption == None \notin Ids \cup Names /\ Ids \cap Names = {}
ASSUME FlagsAssumption == Recreate \in BOOLEAN /\ LostReplies \in BOOLEAN

VARIABLES
    tenants,   \* tenants that exist
    streams,   \* rows [id, tenant, name], deleted ones included
    deleted,   \* ids of the streams with a deleted_at
    accounts,  \* clients and users [kind, tenant, name, stream, by]
    cmd        \* the commands

tables == <<tenants, streams, deleted, accounts>>
vars == <<tenants, streams, deleted, accounts, cmd>>

Refs == Names \cup Ids \cup {None}
MaybeId == Ids \cup {None}
Row == [id : Ids, tenant : Tenants, name : Names]
Account == [kind : {"user", "client"}, tenant : Tenants, name : Names,
            stream : MaybeId, by : Commands]
PCs == {"tenant", "insert", "show", "find", "update", "scope", "account", "ended"}
Answers == {"none", "ok", "exists", "missing", "error", "refused"}
Command == [pc : PCs, kind : Kinds, tenant : Tenants, name : Names, ref : Refs,
            shown : MaybeId, target : MaybeId, answer : Answers]
Idle == [pc |-> "idle", kind |-> "none", tenant |-> None, name |-> None, ref |-> None,
         shown |-> None, target |-> None, answer |-> "none"]

TypeOK ==
    /\ tenants \subseteq Tenants
    /\ streams \subseteq Row
    /\ deleted \subseteq Ids
    /\ accounts \subseteq Account
    /\ cmd \in [Commands -> Command \cup {Idle}]

Live(r) == r.id \notin deleted

\* GetStream: a live stream of the tenant, by its name or its id.
Found(tenant, ref) ==
    {r \in streams : r.tenant = tenant /\ ref \in {r.id, r.name} /\ Live(r)}

\* Streams of earlier commands, live and deleted ones.
Init ==
    /\ streams \in SUBSET Row
    /\ deleted \in SUBSET {r.id : r \in streams}
    /\ \A r, q \in streams :
          /\ r # q => r.id # q.id
          /\ r # q /\ Live(r) /\ Live(q) => <<r.tenant, r.name>> # <<q.tenant, q.name>>
    /\ tenants = {r.tenant : r \in streams}
    /\ accounts = {}
    /\ cmd = [c \in Commands |-> Idle]

-----------------------------------------------------------------------------
At(c, pc) == cmd[c].pc = pc
Goto(c, pc) == cmd' = [cmd EXCEPT ![c].pc = pc]
Ends(c, how) == cmd' = [cmd EXCEPT ![c].pc = "ended", ![c].answer = how]

\* A statement has taken effect: its reply arrives or is lost.
Replies(c, how) == Ends(c, how) \/ (LostReplies /\ Ends(c, "error"))

\* The arguments are validated; a deletion without --force is refused.  A client
\* may be scoped to a stream; `delete` takes a name or an id.
Start(c) ==
    /\ At(c, "idle")
    /\ \E kind \in Offers[c], tenant \in Tenants, name \in Names, ref \in Refs,
          pc \in {"tenant", "ended"} :
          /\ kind = "delete" => ref # None
          /\ kind \in {"create", "user"} => ref = name
          /\ cmd' = [cmd EXCEPT ![c] =
                        [pc |-> pc, kind |-> kind, tenant |-> tenant, name |-> name,
                         ref |-> ref, shown |-> None, target |-> None,
                         answer |-> IF pc = "ended" THEN "refused" ELSE "none"]]
    /\ UNCHANGED tables

\* The connection, a statement or the process fails.
CutShort(c) ==
    /\ cmd[c].pc \notin {"idle", "ended"}
    /\ Ends(c, "error")
    /\ UNCHANGED tables

FirstStatement(c) ==
    CASE cmd[c].kind = "create" -> "insert"
      [] cmd[c].kind = "delete" -> "show"
      [] cmd[c].kind = "user"   -> "account"
      [] cmd[c].kind = "client" -> IF cmd[c].ref = None THEN "account" ELSE "scope"

\* Every command creates the tenant it names, those that only read as well.
CreateOrGetTenant(c) ==
    /\ At(c, "tenant")
    /\ tenants' = tenants \cup {cmd[c].tenant}
    /\ Goto(c, FirstStatement(c)) \/ (LostReplies /\ Ends(c, "error"))
    /\ UNCHANGED <<streams, deleted, accounts>>

\* A row that keeps a stream of the same name from being created.
Taken(c) ==
    \E r \in streams : /\ <<r.tenant, r.name>> = <<cmd[c].tenant, cmd[c].name>>
                       /\ Recreate => Live(r)

\* A stream that is there already is reported.
CreateStream(c) ==
    /\ At(c, "insert")
    /\ \/ /\ ~Taken(c)
          /\ \E i \in Ids \ {r.id : r \in streams} :
                /\ streams' = streams \cup
                      {[id |-> i, tenant |-> cmd[c].tenant, name |-> cmd[c].name]}
                /\ \/ cmd' = [cmd EXCEPT ![c].pc = "ended", ![c].answer = "ok",
                                         ![c].target = i]
                   \/ LostReplies /\ Ends(c, "error")
       \/ /\ Taken(c)
          /\ Ends(c, "exists")
          /\ UNCHANGED streams
    /\ UNCHANGED <<tenants, deleted, accounts>>

\* The stream that `delete` shows.
ShowStream(c) ==
    /\ At(c, "show")
    /\ \/ \E r \in Found(cmd[c].tenant, cmd[c].ref) :
             cmd' = [cmd EXCEPT ![c].pc = "find", ![c].shown = r.id]
       \/ Found(cmd[c].tenant, cmd[c].ref) = {} /\ Ends(c, "missing")
    /\ UNCHANGED tables

\* DeleteStream looks the stream up once more.
FindStream(c) ==
    /\ At(c, "find")
    /\ \/ \E r \in Found(cmd[c].tenant, cmd[c].ref) :
             cmd' = [cmd EXCEPT ![c].pc = "update", ![c].target = r.id]
       \/ Found(cmd[c].tenant, cmd[c].ref) = {} /\ Ends(c, "missing")
    /\ UNCHANGED tables

\* Mutants of UpdateDeleted: the row is named by what the user typed; the error
\* of the statement is dropped; the row is named by the stream's name.
UpdateDeletedByRef(c) ==
    /\ At(c, "update")
    /\ deleted' = deleted \cup {cmd[c].ref}
    /\ Replies(c, "ok")
    /\ UNCHANGED <<tenants, streams, accounts>>
UpdateDeletedUnchecked(c) ==
    /\ At(c, "update")
    /\ deleted' \in {deleted, deleted \cup {cmd[c].target}}
    /\ Ends(c, "ok")
    /\ UNCHANGED <<tenants, streams, accounts>>
UpdateDeletedByName(c) ==
    /\ At(c, "update")
    /\ deleted' = deleted \cup
          {q.id : q \in {p \in streams : \E r \in streams : r.id = cmd[c].target /\ r.name = p.name}}
    /\ Replies(c, "ok")
    /\ UNCHANGED <<tenants, streams, accounts>>

\* A stream that another command has deleted by now is not an error.
UpdateDeleted(c) ==
    /\ At(c, "update")
    /\ deleted' = deleted \cup {cmd[c].target}
    /\ Replies(c, "ok")
    /\ UNCHANGED <<tenants, streams, accounts>>

ScopeClient(c) ==
    /\ At(c, "scope")
    /\ \/ \E r \in Found(cmd[c].tenant, cmd[c].ref) :
             cmd' = [cmd EXCEPT ![c].pc = "account", ![c].target = r.id]
       \/ Found(cmd[c].tenant, cmd[c].ref) = {} /\ Ends(c, "missing")
    /\ UNCHANGED tables

Registered(c) ==
    \E a \in accounts : <<a.kind, a.tenant, a.name>>
                           = <<cmd[c].kind, cmd[c].tenant, cmd[c].name>>

\* Mutant of CreateAccount: an existing account will do.
CreateAccountOrGet(c) ==
    /\ At(c, "account")
    /\ accounts' = IF Registered(c) THEN accounts ELSE accounts \cup
          {[kind |-> cmd[c].kind, tenant |-> cmd[c].tenant, name |-> cmd[c].name,
            stream |-> cmd[c].target, by |-> c]}
    /\ Replies(c, "ok")
    /\ UNCHANGED <<tenants, streams, deleted>>

\* The stream of a client may have been deleted since it was looked up.
CreateAccount(c) ==
    /\ At(c, "account")
    /\ \/ /\ ~Registered(c)
          /\ accounts' = accounts \cup
                {[kind |-> cmd[c].kind, tenant |-> cmd[c].tenant, name |-> cmd[c].name,
                  stream |-> cmd[c].target, by |-> c]}
          /\ Replies(c, "ok")
       \/ /\ Registered(c)
          /\ Ends(c, "exists")
          /\ UNCHANGED accounts
    /\ UNCHANGED <<tenants, streams, deleted>>

-----------------------------------------------------------------------------
Step(c) ==
    \/ Start(c) \/ CutShort(c) \/ CreateOrGetTenant(c)
    \/ CreateStream(c)
    \/ ShowStream(c) \/ FindStream(c) \/ UpdateDeleted(c)
    \/ ScopeClient(c) \/ CreateAccount(c)

Terminated == (\A c \in Commands : At(c, "ended")) /\ UNCHANGED vars

Next == (\E c \in Commands : Step(c)) \/ Terminated

Spec == Init /\ [][Next]_vars

-----------------------------------------------------------------------------
(* What holds.                                                             *)

RowsOf(c, ref) ==
    {r.id : r \in {q \in streams : q.tenant = cmd[c].tenant /\ ref \in {q.id, q.name}}}

\* A deletion that reports success has deleted the stream it showed and the one
\* it looked up afterwards, whatever ran in between; both are what its user
\* named, in the tenant that was named (stream.go:162-178, pkg/db/stream.go:31).
DeletedAsReported ==
    \A c \in Commands : cmd[c].kind = "delete" /\ cmd[c].answer = "ok" =>
       {cmd[c].shown, cmd[c].target} \subseteq deleted \cap RowsOf(c, cmd[c].ref)

\* A secret that is shown opens the account it is shown for: of two commands
\* that create one account only the one whose secret was stored shows it.
ToldSecretIsStored ==
    \A c \in Commands : cmd[c].kind \in {"user", "client"} /\ cmd[c].answer = "ok" =>
       \E a \in accounts :
          /\ a.by = c
          /\ <<a.kind, a.tenant, a.name>> = <<cmd[c].kind, cmd[c].tenant, cmd[c].name>>

\* A client never gets a stream of another tenant.
ScopedWithinTenant ==
    \A a \in accounts : a.stream # None =>
       \E r \in streams : r.id = a.stream /\ r.tenant = a.tenant

\* The statements implement the contract.
said == [c \in Commands |->
           IF cmd[c].answer = "none" THEN [answer |-> "none"]
           ELSE [answer |-> cmd[c].answer, kind |-> cmd[c].kind, tenant |-> cmd[c].tenant,
                 name |-> cmd[c].name, ref |-> cmd[c].ref, shown |-> cmd[c].shown,
                 target |-> cmd[c].target]]
Contract == INSTANCE RegistryContract
ContractHolds == Contract!Spec
=============================================================================
