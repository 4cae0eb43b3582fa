-------------------------------- MODULE Rbac --------------------------------
(***************************************************************************)
(* Authorization.  The manager of sirah/internal/rbac/rbac_manager.c keeps  *)
(* roles, cluster roles and their bindings in four arrays behind a mutex,   *)
(* answers requests by walking them, and keeps an audit log that drops its  *)
(* oldest entry when it is full; rbac_middleware.c turns an HTTP request    *)
(* into a question to it.  The engine of apiserver/authz.c is a             *)
(* second, append-only one.  A string list of a rule is a set of strings;   *)
(* the groups of a request are the names that occur in its groups string,   *)
(* which is how strstr compares them.                                       *)
(***************************************************************************)
EXTENDS Integers, Sequences, FiniteSets, SequencesExt

CONSTANTS
    RbNames,       \* names of roles and of bindings
    RbNamespaces,  \* namespaces; "" is the cluster
    RbSubjects,    \* rbac_subject_t values
    RbRules,       \* rbac_rule_t values
    RbRequests,    \* questions asked
    MaxRoles,      \* 1000 in the code
    MaxBindings,   \* 2000 in the code
    MaxRules,      \* 50 in the code
    MaxSubjects,   \* 20 in the code
    MaxAuditLogs,  \* 10000 in the code
    RbEventBound,  \* bound on the number of events logged
    RbTimeBound    \* bound on the clock of the audit log

VARIABLES
    rbRoles,     \* roles and cluster_roles: one sequence per scope
    rbBindings,  \* role_bindings and cluster_role_bindings
    rbAudit,     \* audit_logs: sequence of event numbers
    rbClock,     \* time(NULL)
    rbStamp,     \* timestamp of each event ever logged
    azRoles,     \* roles and cluster_roles of the authz engine
    azBindings,  \* its bindings
    azEnabled,   \* its enabled flag
    azGranted    \* for the properties: what it has ever granted by its tables

rbTables == <<rbRoles, rbBindings>>
rbLog == <<rbAudit, rbClock, rbStamp>>
azVars == <<azRoles, azBindings, azEnabled, azGranted>>
rbVars == <<rbTables, rbLog, azVars>>

rbac_rule_t == [verbs : SUBSET STRING, api_groups : SUBSET STRING,
                resources : SUBSET STRING, resource_names : SUBSET STRING]

\* The first entry of a table with this name, 0 if there is none.
Find(table, name) == SelectInSeq(table, LAMBDA e : e.name = name)
FindIn(table, ns, name) ==
    SelectInSeq(table, LAMBDA e : e.name = name /\ e.namespace = ns)

Wildcard == [verbs |-> {"*"}, api_groups |-> {"*"},
             resources |-> {"*"}, resource_names |-> {}]

rbac_create_default_roles ==
    [name |-> "system:masters", namespace |-> "", rules |-> <<Wildcard>>]

rbac_manager_init ==
    /\ rbRoles = [cluster |-> <<rbac_create_default_roles>>, ns |-> <<>>]
    /\ rbBindings = [cluster |-> <<>>, ns |-> <<>>]
    /\ rbAudit = <<>> /\ rbClock = 0 /\ rbStamp = <<>>

-----------------------------------------------------------------------------
Scope(ns) == IF ns = "" THEN "cluster" ELSE "ns"

\* The operations on roles and bindings are written once for both scopes: the
\* cluster's are those of the namespace "".
\* A create that does not look whether the name is taken.
rbac_create_role_twice(ns, name, rules) ==
    LET k == Scope(ns) IN
    /\ Len(rbRoles[k]) < MaxRoles
    /\ rbRoles' = [rbRoles EXCEPT ![k] =
                     Append(@, [name |-> name, namespace |-> ns, rules |-> rules])]
    /\ UNCHANGED <<rbBindings, rbLog, azVars>>

rbac_create_role(ns, name, rules) ==
    LET k == Scope(ns) IN
    /\ Len(rbRoles[k]) < MaxRoles
    /\ FindIn(rbRoles[k], ns, name) = 0
    /\ rbRoles' = [rbRoles EXCEPT ![k] =
                     Append(@, [name |-> name, namespace |-> ns, rules |-> rules])]
    /\ UNCHANGED <<rbBindings, rbLog, azVars>>

rbac_create_cluster_role(name, rules) == rbac_create_role("", name, rules)

\* What a get or a list copies out.
rbac_get_role(ns, name) ==
    LET i == FindIn(rbRoles.ns, ns, name) IN IF i = 0 THEN <<>> ELSE <<rbRoles.ns[i]>>
rbac_get_cluster_role(name) ==
    LET i == Find(rbRoles.cluster, name) IN IF i = 0 THEN <<>> ELSE <<rbRoles.cluster[i]>>
rbac_list_roles(ns) == SelectSeq(rbRoles.ns, LAMBDA r : r.namespace = ns)
rbac_list_cluster_roles == rbRoles.cluster

rbac_update_role(ns, name, rules) ==
    LET k == Scope(ns)  i == FindIn(rbRoles[k], ns, name) IN
    /\ i > 0
    /\ rbRoles' = [rbRoles EXCEPT ![k][i].rules = rules]
    /\ UNCHANGED <<rbBindings, rbLog, azVars>>

rbac_update_cluster_role(name, rules) == rbac_update_role("", name, rules)

\* The bindings that name the role stay.
rbac_delete_role(ns, name) ==
    LET k == Scope(ns)  i == FindIn(rbRoles[k], ns, name) IN
    /\ i > 0
    /\ rbRoles' = [rbRoles EXCEPT ![k] = RemoveAt(@, i)]
    /\ UNCHANGED <<rbBindings, rbLog, azVars>>

rbac_delete_cluster_role(name) == rbac_delete_role("", name)

rbac_add_rule_to_role(ns, name, rule) ==
    LET i == FindIn(rbRoles.ns, ns, name) IN
    /\ i > 0 /\ Len(rbRoles.ns[i].rules) < MaxRules
    /\ rbRoles' = [rbRoles EXCEPT !.ns[i].rules = Append(@, rule)]
    /\ UNCHANGED <<rbBindings, rbLog, azVars>>

rbac_remove_rule_from_role(ns, name, r) ==
    LET i == FindIn(rbRoles.ns, ns, name) IN
    /\ i > 0 /\ r <= Len(rbRoles.ns[i].rules)
    /\ rbRoles' = [rbRoles EXCEPT !.ns[i].rules = RemoveAt(@, r)]
    /\ UNCHANGED <<rbBindings, rbLog, azVars>>

rbac_create_role_binding(ns, name, role, subject) ==
    LET k == Scope(ns) IN
    /\ Len(rbBindings[k]) < MaxBindings
    /\ FindIn(rbBindings[k], ns, name) = 0
    /\ rbBindings' = [rbBindings EXCEPT ![k] =
         Append(@, [name |-> name, namespace |-> ns, role |-> role, subjects |-> <<subject>>])]
    /\ UNCHANGED <<rbRoles, rbLog, azVars>>

rbac_create_cluster_role_binding(name, role, subject) ==
    rbac_create_role_binding("", name, role, subject)

rbac_create_admin_binding(user) ==
    rbac_create_cluster_role_binding("admin-" \o user, "system:masters",
                                     [type |-> "User", name |-> user])

\* A role of this name is created by nobody.
rbac_create_readonly_binding(group) ==
    rbac_create_cluster_role_binding("readonly-" \o group, "system:unauthenticated",
                                     [type |-> "Group", name |-> group])

rbac_get_role_binding(ns, name) ==
    LET i == FindIn(rbBindings.ns, ns, name)
    IN  IF i = 0 THEN <<>> ELSE <<rbBindings.ns[i]>>
rbac_get_cluster_role_binding(name) ==
    LET i == Find(rbBindings.cluster, name)
    IN  IF i = 0 THEN <<>> ELSE <<rbBindings.cluster[i]>>
rbac_list_role_bindings(ns) == SelectSeq(rbBindings.ns, LAMBDA b : b.namespace = ns)
rbac_list_cluster_role_bindings == rbBindings.cluster

rbac_update_role_binding(ns, name, role, subject) ==
    LET k == Scope(ns)  i == FindIn(rbBindings[k], ns, name) IN
    /\ i > 0
    /\ rbBindings' = [rbBindings EXCEPT ![k][i] =
                        [@ EXCEPT !.role = role, !.subjects = <<subject>>]]
    /\ UNCHANGED <<rbRoles, rbLog, azVars>>

rbac_update_cluster_role_binding(name, role, subject) ==
    rbac_update_role_binding("", name, role, subject)

rbac_delete_role_binding(ns, name) ==
    LET k == Scope(ns)  i == FindIn(rbBindings[k], ns, name) IN
    /\ i > 0
    /\ rbBindings' = [rbBindings EXCEPT ![k] = RemoveAt(@, i)]
    /\ UNCHANGED <<rbRoles, rbLog, azVars>>

rbac_delete_cluster_role_binding(name) == rbac_delete_role_binding("", name)

rbac_add_subject_to_binding(ns, name, subject) ==
    LET i == FindIn(rbBindings.ns, ns, name) IN
    /\ i > 0 /\ Len(rbBindings.ns[i].subjects) < MaxSubjects
    /\ rbBindings' = [rbBindings EXCEPT !.ns[i].subjects = Append(@, subject)]
    /\ UNCHANGED <<rbRoles, rbLog, azVars>>

\* The first entry of the subject goes; one that was added twice stays once.
rbac_remove_subject_from_binding(ns, name, subject) ==
    LET i == FindIn(rbBindings.ns, ns, name)
        j == SelectInSeq(rbBindings.ns[i].subjects, LAMBDA s : s = subject)
    IN  /\ i > 0 /\ j > 0
        /\ rbBindings' = [rbBindings EXCEPT !.ns[i].subjects = RemoveAt(@, j)]
        /\ UNCHANGED <<rbRoles, rbLog, azVars>>

-----------------------------------------------------------------------------
\* rbac_verb_matches and rbac_resource_matches, and string_matches of authz.c.
Matches(list, value) == "*" \in list \/ value \in list

RuleMatches(rule, q) ==
    /\ Matches(rule.api_groups, q.api_group)
    /\ Matches(rule.resources, q.resource)
    /\ Matches(rule.verbs, q.verb)
    /\ rule.resource_names # {} /\ q.name # "NULL" => Matches(rule.resource_names, q.name)

SubjectMatches(binding, q) ==
    \E s \in ToSet(binding.subjects) :
       \/ s.type = "User" /\ s.name = q.user
       \/ s.type = "Group" /\ s.name \in q.groups

\* Whether one binding allows q, with the first role of its name among roles.
BindingAllows(binding, roles, r, q) ==
    /\ SubjectMatches(binding, q)
    /\ r > 0
    /\ \E rule \in ToSet(roles[r].rules) : RuleMatches(rule, q)

\* The cluster bindings, and only if none of them allows it the bindings of the
\* request's namespace; each with the first role found under its role_name.
rbac_can_perform_action(q) ==
    \/ \E b \in ToSet(rbBindings.cluster) :
          BindingAllows(b, rbRoles.cluster, Find(rbRoles.cluster, b.role), q)
    \/ /\ q.namespace # "NULL"
       /\ \E b \in ToSet(rbBindings.ns) :
             /\ b.namespace = q.namespace
             /\ BindingAllows(b, rbRoles.ns, FindIn(rbRoles.ns, q.namespace, b.role), q)

rbac_can_get(q) == rbac_can_perform_action([q EXCEPT !.verb = "get", !.api_group = ""])
rbac_can_list(q) == rbac_can_perform_action(
    [q EXCEPT !.verb = "list", !.api_group = "", !.name = "NULL"])
rbac_can_watch(q) == rbac_can_perform_action(
    [q EXCEPT !.verb = "watch", !.api_group = "", !.name = "NULL"])
rbac_can_create(q) == rbac_can_perform_action(
    [q EXCEPT !.verb = "create", !.api_group = "", !.name = "NULL"])
rbac_can_update(q) == rbac_can_perform_action([q EXCEPT !.verb = "update", !.api_group = ""])
rbac_can_patch(q) == rbac_can_perform_action([q EXCEPT !.verb = "patch", !.api_group = ""])
rbac_can_delete(q) == rbac_can_perform_action([q EXCEPT !.verb = "delete", !.api_group = ""])

rbac_middleware_method_to_verb ==
    [GET |-> "get", HEAD |-> "get", POST |-> "create", PUT |-> "update",
     PATCH |-> "patch", DELETE |-> "delete"]

\* The middleware knows no groups, takes a missing namespace for "default" and
\* a missing name for "".
rbac_middleware_check_request(user, method, resource, ns, name) ==
    /\ user # "" /\ method \in DOMAIN rbac_middleware_method_to_verb
    /\ rbac_can_perform_action(
         [user |-> user, groups |-> {}, verb |-> rbac_middleware_method_to_verb[method],
          api_group |-> "", resource |-> resource,
          namespace |-> IF ns = "" THEN "default" ELSE ns, name |-> name])

-----------------------------------------------------------------------------
\* The audit log; an event is its number in the order they are logged.
\* A log that makes room by dropping its newest entry.
rbac_log_audit_drops_newest ==
    /\ Len(rbStamp) < RbEventBound
    /\ rbStamp' = Append(rbStamp, rbClock)
    /\ rbAudit' = Append(IF Len(rbAudit) >= MaxAuditLogs THEN Front(rbAudit) ELSE rbAudit,
                         Len(rbStamp) + 1)
    /\ UNCHANGED <<rbClock, rbTables, azVars>>

rbac_log_audit ==
    /\ Len(rbStamp) < RbEventBound
    /\ rbStamp' = Append(rbStamp, rbClock)
    /\ rbAudit' = Append(IF Len(rbAudit) >= MaxAuditLogs THEN Tail(rbAudit) ELSE rbAudit,
                         Len(rbStamp) + 1)
    /\ UNCHANGED <<rbClock, rbTables, azVars>>

rbac_get_audit_logs == rbAudit

rbac_clear_old_audit_logs(age) ==
    /\ rbAudit' = SelectSeq(rbAudit, LAMBDA e : rbStamp[e] >= rbClock - age)
    /\ UNCHANGED <<rbClock, rbStamp, rbTables, azVars>>

RbTick ==
    /\ rbClock < RbTimeBound
    /\ rbClock' = rbClock + 1
    /\ UNCHANGED <<rbAudit, rbStamp, rbTables, azVars>>

-----------------------------------------------------------------------------
\* The engine of authz.c: nothing is ever removed, names may repeat.
k8s_authz_create_default_roles ==
    <<[name |-> "cluster-admin", rules |-> <<Wildcard>>],
      [name |-> "edit", rules |-> <<[verbs |-> {"create", "delete", "get", "list",
                                                "patch", "update"},
                                     api_groups |-> {"", "apps"},
                                     resources |-> {"pods", "deployments", "services"},
                                     resource_names |-> {}]>>],
      [name |-> "view", rules |-> <<[verbs |-> {"get", "list", "watch"},
                                     api_groups |-> {"*"}, resources |-> {"*"},
                                     resource_names |-> {}]>>]>>

k8s_authz_engine_new ==
    /\ azRoles = [cluster |-> k8s_authz_create_default_roles, ns |-> <<>>]
    /\ azBindings = [cluster |-> <<>>, ns |-> <<>>]
    /\ azEnabled = TRUE
    /\ azGranted = {}

\* rule_matches_request: a rule with resource names wants a name.
rule_matches_request(rule, q) ==
    /\ Matches(rule.verbs, q.verb)
    /\ Matches(rule.api_groups, q.api_group)
    /\ Matches(rule.resources, q.resource)
    /\ rule.resource_names # {} =>
          q.name # "NULL" /\ Matches(rule.resource_names, q.name)

AzBindingAllows(b, roles, r, q) ==
    /\ \E s \in ToSet(b.subjects) : s.type \in {"User", "ServiceAccount"} /\ s.name = q.user
    /\ r > 0
    /\ \E rule \in ToSet(roles[r].rules) : rule_matches_request(rule, q)

AzTablesAllow(roles, bindings, q) ==
    \/ \E b \in ToSet(bindings.ns) :
          /\ q.namespace = "NULL" \/ b.namespace = q.namespace
          /\ AzBindingAllows(b, roles.ns, FindIn(roles.ns, b.namespace, b.role), q)
    \/ \E b \in ToSet(bindings.cluster) :
          AzBindingAllows(b, roles.cluster, Find(roles.cluster, b.role), q)

\* Users whose name starts with "system:" are q.system.
k8s_authz_authorize(q) ==
    ~azEnabled \/ q.system \/ AzTablesAllow(azRoles, azBindings, q)

AskAuthz(q) ==
    /\ AzTablesAllow(azRoles, azBindings, q)
    /\ azGranted' = azGranted \cup {q}
    /\ UNCHANGED <<azRoles, azBindings, azEnabled, rbTables, rbLog>>

k8s_authz_add_role(ns, name, rules) ==
    LET k == Scope(ns) IN
    /\ Len(azRoles[k]) < MaxRoles
    /\ azRoles' = [azRoles EXCEPT ![k] =
                     Append(@, [name |-> name, namespace |-> ns, rules |-> rules])]
    /\ UNCHANGED <<azBindings, azEnabled, azGranted, rbTables, rbLog>>

k8s_authz_add_cluster_role(name, rules) == k8s_authz_add_role("", name, rules)

k8s_authz_add_role_binding(ns, role, subject) ==
    LET k == Scope(ns) IN
    /\ Len(azBindings[k]) < MaxBindings
    /\ azBindings' = [azBindings EXCEPT ![k] =
         Append(@, [namespace |-> ns, role |-> role, subjects |-> <<subject>>])]
    /\ UNCHANGED <<azRoles, azEnabled, azGranted, rbTables, rbLog>>

k8s_authz_add_cluster_role_binding(role, subject) ==
    k8s_authz_add_role_binding("", role, subject)

k8s_authz_set_enabled(b) ==
    /\ azEnabled' = b
    /\ UNCHANGED <<azRoles, azBindings, azGranted, rbTables, rbLog>>

-----------------------------------------------------------------------------
RbInit == rbac_manager_init /\ k8s_authz_engine_new

RoleSteps(ns, name) ==
    \/ \E rules \in {<<r>> : r \in RbRules} :
          rbac_create_role(ns, name, rules) \/ rbac_update_role(ns, name, rules)
    \/ rbac_delete_role(ns, name)
    \/ \E rule \in RbRules : rbac_add_rule_to_role(ns, name, rule)
    \/ \E r \in 1 .. MaxRules : rbac_remove_rule_from_role(ns, name, r)
    \/ \E subject \in RbSubjects :
          \/ \E role \in RbNames :
                \/ rbac_create_role_binding(ns, name, role, subject)
                \/ rbac_update_role_binding(ns, name, role, subject)
          \/ rbac_add_subject_to_binding(ns, name, subject)
          \/ rbac_remove_subject_from_binding(ns, name, subject)
    \/ rbac_delete_role_binding(ns, name)

ClusterRoleSteps(name) ==
    \/ \E rules \in {<<r>> : r \in RbRules} :
          rbac_create_cluster_role(name, rules) \/ rbac_update_cluster_role(name, rules)
    \/ rbac_delete_cluster_role(name)
    \/ \E subject \in RbSubjects, role \in RbNames :
          \/ rbac_create_cluster_role_binding(name, role, subject)
          \/ rbac_update_cluster_role_binding(name, role, subject)
    \/ rbac_delete_cluster_role_binding(name)

RbTableNext ==
    \/ \E ns \in RbNamespaces \ {""}, name \in RbNames : RoleSteps(ns, name)
    \/ \E name \in RbNames : ClusterRoleSteps(name)
    \/ \E s \in RbSubjects :
          \/ s.type = "User" /\ rbac_create_admin_binding(s.name)
          \/ s.type = "Group" /\ rbac_create_readonly_binding(s.name)

RbAuditNext ==
    rbac_log_audit \/ RbTick \/ \E age \in 1 .. 2 : rbac_clear_old_audit_logs(age)

AzNext ==
    \/ \E ns \in RbNamespaces \ {""}, name \in RbNames :
          \/ \E r \in RbRules : k8s_authz_add_role(ns, name, <<r>>)
          \/ \E subject \in RbSubjects : k8s_authz_add_role_binding(ns, name, subject)
    \/ \E name \in RbNames :
          \/ \E r \in RbRules : k8s_authz_add_cluster_role(name, <<r>>)
          \/ \E subject \in RbSubjects : k8s_authz_add_cluster_role_binding(name, subject)
    \/ \E b \in BOOLEAN : k8s_authz_set_enabled(b)
    \/ \E q \in RbRequests : AskAuthz(q)

-----------------------------------------------------------------------------
\* What RBAC promises, without order: some binding that names the user and some
\* role of its name that has a matching rule.
SomeRoleAllows(q) ==
    \E k \in {"cluster", "ns"} :
       \E b \in ToSet(rbBindings[k]), role \in ToSet(rbRoles[k]) :
          /\ role.name = b.role /\ role.namespace = b.namespace
          /\ k = "ns" => b.namespace = q.namespace
          /\ SubjectMatches(b, q)
          /\ \E rule \in ToSet(role.rules) : RuleMatches(rule, q)

\* rbac_can_perform_action looks only at the first role it finds under the name
\* a binding gives.  The tables are kept so that this makes no difference,
\* whatever was created, updated, deleted and created again: it allows a request
\* exactly when some bound role allows it.  The middleware lets a request pass
\* only if some role bound to the user itself allows it in its namespace.
RbacDecision ==
    /\ \A q \in RbRequests : rbac_can_perform_action(q) <=> SomeRoleAllows(q)
    /\ \A q \in RbRequests :
          rbac_middleware_check_request(q.user, "GET", q.resource, q.namespace, q.name) =>
             SomeRoleAllows([q EXCEPT !.groups = {}, !.verb = "get", !.api_group = "",
               !.namespace = IF @ = "" THEN "default" ELSE @])

\* The audit log is always the last events in the order they were logged, none
\* missing in between, however logging, dropping the oldest when the log is full
\* and clearing by age alternate; and what the authz engine has once granted by
\* its tables it goes on granting: a role added later under the name of another
\* does not replace it.
RbHistoryKept ==
    /\ \A i \in 1 .. Len(rbAudit) : rbAudit[i] = rbAudit[1] + i - 1
    /\ rbAudit # <<>> => rbAudit[Len(rbAudit)] = Len(rbStamp)
    /\ Len(rbAudit) <= MaxAuditLogs
    /\ \A q \in azGranted : k8s_authz_authorize(q)

=============================================================================
