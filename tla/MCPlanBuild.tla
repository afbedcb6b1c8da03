----------------------------- MODULE MCPlanBuild -----------------------------
(***************************************************************************)
(* Instances of PlanBuild.  The cases come in families, one for each part  *)
(* of the work: the graph, the fields of one resource, the rules.          *)
(***************************************************************************)
EXTENDS PlanBuild

MCInside == {<<"tags", "tags.a">>}

\* Keys 1 to 3 are for graphs; type 2 cannot be deleted; type 4 cannot be
\* applied and is financial and visible, type 3 sensitive.
MCTypeOf == [k \in 1..6 |-> CASE k <= 3 -> 1 [] k = 4 -> 2 [] k = 5 -> 3 [] OTHER -> 4]

MCDefinitions ==
    [t \in 1..4 |->
        [apply |-> t # 4, delete |-> t # 2, immutable |-> {"size"},
         sensitive |-> IF t = 3 THEN {"name"} ELSE {},
         factors |-> IF t = 2 THEN {"financial", "externallyVisible"} ELSE {}]]

Named(n)       == "name" :> n
Sized(n, size) == "name" :> n @@ "size" :> size

Sound == [envelope |-> TRUE, tooLarge |-> FALSE, tooDeep |-> FALSE, kind |-> "served",
          spec |-> TRUE, provider |-> TRUE, secrets |-> {}, goal |-> 0,
          constraints |-> <<>>, success |-> <<>>]

Server == [document |-> Sound, maxResources |-> 3, maxChanges |-> 3,
           allowDelete |-> TRUE, allowReplace |-> TRUE, allowDestructive |-> TRUE,
           conflicts |-> {}, contract |-> {}, hook |-> "none",
           environment |-> "development", bundle |-> <<>>,
           desired |-> <<>>, current |-> <<>>]

States(K, A, D) == UNION {[P -> [attributes : A, dependsOn : D]] : P \in SUBSET K}

\* Documents with every way of being wrong, and of being right.
Groups ==
    LET predicate(id, length, parses) == [id |-> id, length |-> length, parses |-> parses]
    IN  {<<>>, <<predicate("p", 1, TRUE), predicate("q", 1, TRUE)>>,
         <<predicate("p", 2, TRUE)>>, <<predicate("p", 1, FALSE)>>,
         <<predicate("p", 1, TRUE), predicate("p", 1, TRUE)>>,
         <<predicate("p", 1, TRUE), predicate("q", 1, TRUE), predicate("r", 1, TRUE)>>}

Documents ==
    {[Server EXCEPT !.document = [envelope |-> b[1], tooLarge |-> b[2], tooDeep |-> b[3],
        spec |-> b[4], provider |-> b[5], kind |-> k, secrets |-> s, goal |-> g,
        constraints |-> c[1], success |-> c[2]]] :
        b \in BOOLEAN \X BOOLEAN \X BOOLEAN \X BOOLEAN \X BOOLEAN,
        k \in {"served", "other"}, s \in {{}, {"key"}, {"lost"}}, g \in {0, 2},
        c \in (Groups \X {<<>>}) \cup ({<<>>} \X Groups)}

\* Every graph over three resources; those there already are as they should
\* be or not.
Graphs3(there, n) ==
    {[Server EXCEPT !.desired = d,
        !.current = [k \in there |-> [attributes |-> Named(n), dependsOn |-> {}]]] :
        d \in States(1..3, {Named("2")}, SUBSET (1..3))}

\* Every graph of what has to go.
Deletions ==
    {[Server EXCEPT !.maxChanges = m[1], !.maxResources = m[2], !.desired = d, !.current = c] :
        m \in {<<2, 3>>, <<3, 3>>, <<3, 2>>}, d \in States({1}, {Named("2")}, {{}}),
        c \in States(1..3, {Named("1")}, SUBSET (1..3))}

\* Resource 3 depends on 1, 2, both or neither, and should depend on others.
Moves ==
    {[Server EXCEPT
        !.desired = [k \in wanted |-> [attributes |-> Named("2"),
                                       dependsOn |-> IF k = 3 THEN D \cap wanted ELSE {}]],
        !.current = [k \in there |-> [attributes |-> Named(IF k = 3 THEN "1" ELSE "2"),
                                      dependsOn |-> IF k = 3 THEN C \cap there ELSE {}]]] :
        wanted \in SUBSET (1..3), there \in SUBSET (1..3), D \in SUBSET {1, 2}, C \in SUBSET {1, 2}}

\* One resource, all that can happen to its fields.
WellFormed ==
    {a \in UNION {[P -> {"1", "2", "null"}] : P \in SUBSET {"size", "tags", "tags.a"}} :
        IsLeaves(a)}

Fields(r, b) ==
    {[Server EXCEPT !.allowReplace = r, !.bundle = b,
        !.desired = (1 :> [attributes |-> d, dependsOn |-> {}]),
        !.current = (1 :> [attributes |-> c, dependsOn |-> {}])] :
        d \in WellFormed, c \in WellFormed}

\* Resources of the other types under the rules: each option and what the
\* server makes of it, the default policies or none, a field owned elsewhere,
\* contracts that hold and that do not.
Wanted == States({4, 5}, {Sized("2", "1")}, {{}}) \cup States({4, 6}, {Sized("2", "2")}, {{4}})
Found  == States({4, 5}, {Sized("1", "1"), Sized("2", "1"), Sized("2", "2")}, {{}})

Rules(x, b) ==
    {[Server EXCEPT !.allowDelete = o[1], !.allowReplace = o[2], !.allowDestructive = o[3],
                    !.conflicts = x, !.bundle = b, !.contract = y, !.environment = "production",
                    !.desired = d, !.current = c] :
        o \in {<<FALSE, FALSE, FALSE>>, <<TRUE, FALSE, FALSE>>, <<FALSE, TRUE, FALSE>>,
               <<TRUE, TRUE, TRUE>>},
        y \in {{"true"}, {"true", "error"}},
        d \in Wanted, c \in Found}

\* The same with a provider that answers anything.
Hooks ==
    {[Server EXCEPT !.hook = "any", !.bundle = b, !.environment = e, !.conflicts = x,
                    !.desired = d, !.current = c] :
        b \in {<<>>, defaultPolicyBundle}, e \in Environments, x \in {{}, {5}},
        d \in Wanted, c \in Found}

Policies == {<<>>, defaultPolicyBundle}

MCFamilies ==
    {Documents, Moves, Deletions, Hooks}
    \cup {Graphs3(there, n) : there \in SUBSET (1..3), n \in {"1", "2"}}
    \cup {Fields(r, b) : r \in BOOLEAN, b \in Policies}
    \cup {Rules(x, b) : x \in {{}, {4}}, b \in Policies}

=============================================================================
