----------------------------- MODULE MCDocuments -----------------------------
(* Two strategies, two providers with a model each, a decision provider and a  *)
(* gateway with a key. The second label of the second strategy is one no rule  *)
(* of it selects.                                                              *)
EXTENDS Documents

CONSTANTS ta, sb, sc, m1, m2, m3, pa, pb, pc, da, ra, rb, rt, rd, rg, v1, v2, tok

MCExternal == [r \in {ra, rb, rt, rd, rg} |-> IF r = rt THEN v1 ELSE None]

Route(models, tag) == [models |-> models, tag |-> tag]

Matrix(labels, choices) ==
    [kind |-> "decision_matrix", labels |-> labels, selected |-> None,
     choices |-> choices, decision |-> None, valid |-> TRUE]

Provider(ref, bindings) == [valid |-> TRUE, key |-> ref, bindings |-> bindings]
Model(provider, tags) ==
    [valid |-> TRUE, provider |-> provider, enabled |-> TRUE, tags |-> tags]

Start0 ==
    [providers |-> (pa :> Provider(ra, <<>>)) @@ (pb :> Provider(rb, tok :> rt)),
     models |-> (m1 :> Model(pa, {<<ta, 1>>})) @@ (m2 :> Model(pb, {})),
     policy |-> None,
     strategies |->
        (ta :> Matrix(<<Route(None, None), Route({m2}, None)>>, {1, 2}))
        @@ (sb :> Matrix(<<Route({m1}, None), Route({m2}, None)>>, {1})),
     compact |-> FALSE, default |-> ta,
     gateway |-> [valid |-> TRUE, key |-> rg],
     decision |-> [valid |-> TRUE, enabled |-> FALSE, default |-> None,
                   providers |-> (da :> [key |-> rd])],
     storage |-> [valid |-> TRUE, path |-> 1], defaultModel |-> None]

Secrets0 == [r \in {ra, rb, rt, rd, rg} |->
                [file |-> IF r \in {ra, rg} THEN v1 ELSE None,
                 env |-> IF r = rb THEN v1 ELSE None]]

Layout0 == [version |-> 1, nodes |-> (ta :> {m1})]

MCFirst == [document |-> Start0, overlay |-> NoOverlay, layout |-> Layout0,
            secrets |-> Secrets0]

MCBodies == {[Matrix(<<Route({m1}, None)>>, {1}) EXCEPT !.selected = {m1, m2}],
             [Matrix(<<Route(None, <<ta, 1>>), Route({}, None)>>, {2}) EXCEPT
                 !.selected = {m1}, !.decision = da]}

MCRules == {[choices |-> {2}, tags |-> <<>>],
            [choices |-> None, tags |-> (m2 :> {<<ta, 1>>})]}

Upsert(kind, id, entry, action, value) ==
    [kind |-> kind, id |-> id, entry |-> entry, action |-> action,
     value |-> value, parameter |-> None, parameterAction |-> "keep"]

MCCommands ==
    {<<Upsert("upsert_llm", pa, Provider(ra, None), "set", v2)>>,
     <<Upsert("upsert_llm", pb, Provider(None, None), "clear", None)>>,
     <<Upsert("upsert_llm", pa, Provider(ra, None), "set", v2),
       Upsert("upsert_decision", da, [key |-> ra], "keep", None)>>,
     <<[Upsert("upsert_llm", pb, Provider(rb, None), "keep", v2) EXCEPT
           !.parameter = tok, !.parameterAction = "set"]>>,
     <<Upsert("upsert_decision", da, [key |-> rd], "set", v1),
       [kind |-> "decision_enabled", enabled |-> TRUE]>>,
     <<[kind |-> "delete_decision", id |-> da]>>,
     <<[kind |-> "delete_llm", id |-> pc]>>,
     <<[kind |-> "import", id |-> m3, entry |-> Model(pa, {<<ta, 1>>})],
       [kind |-> "default_model", model |-> m3]>>,
     <<[kind |-> "update_model", id |-> m1, enabled |-> FALSE, tags |-> {}]>>}

MCAdditions ==
    {[id |-> pc, entry |-> Provider(rb, <<>>), models |-> <<>>, value |-> v2],
     [id |-> pc, entry |-> Provider(ra, <<>>), models |-> <<>>, value |-> None],
     [id |-> pc, entry |-> Provider(rd, <<>>), models |-> (m3 :> Model(pc, {})),
      value |-> v1]}

MCPresetKey == pc :> rt

\* An operator takes the second label out of the default strategy, drops the
\* gateway's key, moves the store or breaks the file.
MCHandEdits ==
    [document |->
        {[Start0 EXCEPT !.strategies[ta] = Matrix(<<Route(None, None)>>, {1})],
         [Start0 EXCEPT !.gateway.key = None],
         [Start0 EXCEPT !.storage.path = 2],
         [Start0 EXCEPT !.strategies[sb].valid = FALSE]},
     overlay |-> {[NoOverlay EXCEPT !.version = 3]},
     layout |-> {Broken},
     secrets |-> {[Secrets0 EXCEPT ![rg].file = None]}]

MCIds == {m1, m2, m3}
MCNodes == {{m1}, {m2}}

=============================================================================
