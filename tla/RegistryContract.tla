-------------------------- MODULE RegistryContract --------------------------
(***************************************************************************)
(* What frkrcfg promises about the registry of streams and accounts,       *)
(* without the statements it needs for it: streams are added one at a time *)
(* and their live names are unique, a deletion is final, accounts stay,    *)
(* and what a command says is true when it says it.                        *)
(***************************************************************************)
CONSTANTS Commands, Tenants, Names, Ids, None

VARIABLES
    streams,   \* rows [id, tenant, name], deleted ones included
    deleted,   \* ids of deleted streams
    accounts,  \* rows [kind, tenant, name, stream, by]
    said       \* what each command told its user

vars == <<streams, deleted, accounts, said>>

Silent == [answer |-> "none"]

\* The rows a name or an id stands for in a tenant.
Meant(table, tenant, ref) ==
    {r \in table : r.tenant = tenant /\ ref \in {r.id, r.name}}

Init ==
    /\ streams \subseteq [id : Ids, tenant : Tenants, name : Names]
    /\ \A r, q \in streams : r # q => r.id # q.id
    /\ deleted \subseteq {r.id : r \in streams}
    /\ accounts = {}
    /\ said = [c \in Commands |-> Silent]

Adds ==
    /\ \E r \in [id : Ids, tenant : Tenants, name : Names] :
          /\ \A q \in streams : q.id # r.id
          /\ \A q \in Meant(streams, r.tenant, r.name) : q.id \in deleted
          /\ streams' = streams \cup {r}
    /\ UNCHANGED <<deleted, accounts>>

Removes ==
    /\ \E r \in streams : r.id \notin deleted /\ deleted' = deleted \cup {r.id}
    /\ UNCHANGED <<streams, accounts>>

Account == [kind : {"user", "client"}, tenant : Tenants, name : Names,
            stream : Ids \cup {None}, by : Commands]

Opens ==
    /\ \E a \in accounts' \cap Account :
          /\ \A b \in accounts :
                <<b.kind, b.tenant, b.name>> # <<a.kind, a.tenant, a.name>>
          /\ a.stream # None =>
                \E r \in streams : r.id = a.stream /\ r.tenant = a.tenant
          /\ accounts' = accounts \cup {a}
    /\ UNCHANGED <<streams, deleted>>

\* What a command c may say of the registry it leaves.
True(c, w, table, gone, book) ==
    /\ w.answer = "ok" /\ w.kind = "delete" =>
          /\ {w.shown, w.target} \subseteq gone
          /\ {w.shown, w.target} \subseteq {r.id : r \in Meant(table, w.tenant, w.ref)}
    /\ w.answer = "ok" /\ w.kind = "create" =>
          w.target \in {r.id : r \in Meant(table, w.tenant, w.name)}
    /\ w.answer = "ok" /\ w.kind \in {"user", "client"} =>
          \E a \in book : a.by = c /\ <<a.kind, a.tenant, a.name>>
                                        = <<w.kind, w.tenant, w.name>>
    /\ w.answer = "missing" => {r.id : r \in Meant(table, w.tenant, w.ref)} \subseteq gone

Words == [answer : {"ok", "exists", "missing", "error", "refused"},
          kind : {"create", "delete", "client", "user"},
          tenant : Tenants, name : Names, ref : Names \cup Ids \cup {None},
          shown : Ids \cup {None}, target : Ids \cup {None}]

\* A command speaks once.
Says ==
    \/ UNCHANGED said
    \/ \E c \in Commands :
          /\ said[c] = Silent
          /\ said'[c] \in Words
          /\ said' = [said EXCEPT ![c] = said'[c]]
          /\ True(c, said'[c], streams', deleted', accounts')

Next == (Adds \/ Removes \/ Opens \/ UNCHANGED <<streams, deleted, accounts>>) /\ Says

Spec == Init /\ [][Next]_vars
=============================================================================
