------------------------ MODULE AlertFanout_proofs -------------------------
(***************************************************************************)
(* The invariant of AlertFanout, for every set of plugins, fields, keys,   *)
(* requests and alerts, and what follows from it: the fan-out is complete, *)
(* distribute() answers for every row, a blank field keeps what was saved, *)
(* and the task implements Delivery.                                       *)
(***************************************************************************)
EXTENDS AlertFanout, TLAPS

-----------------------------------------------------------------------------
\* The steps of the handlers: types.

\* merge_config returns a config.
LEMMA MergeType ==
  ASSUME NEW x \in Configs, NEW y \in Configs
  PROVE  MergeConfig(x, y) \in Configs
BY DEF MergeConfig, Configs

\* The table with a row written by a save or a test is a table.
LEMMA PutType ==
  ASSUME DOMAIN integrations \subseteq Plugins,
         integrations \in [DOMAIN integrations -> Rows],
         NEW p \in Plugins, NEW row \in Rows, Put(p, row)
  PROVE  /\ DOMAIN integrations' \subseteq Plugins
         /\ integrations' \in [DOMAIN integrations' -> Rows]
BY DEF Put

\* Handlers that are no longer alone are handlers.
LEMMA DisturbedType ==
  ASSUME request \in [Requests -> Handlers], NEW p
  PROVE  Disturbed(p) \in [Requests -> Handlers]
<1>. SUFFICES ASSUME NEW r \in Requests
              PROVE  [request[r] EXCEPT !.alone = @ /\ r \notin Saving(p)]
                       \in Handlers
  BY DEF Disturbed
<1>1. request[r] \in Handlers OBVIOUS
<1>2. (request[r].alone /\ r \notin Saving(p)) \in BOOLEAN OBVIOUS
<1>. QED BY <1>1, <1>2 DEF Handlers

\* No handler runs before the request comes.
LEMMA IdleType == Idle \in Handlers
BY DEF Idle, Handlers, Empty, Configs

\* A handler moves on to h and nothing else happens to the handlers.
Becomes(r, h) == request' = [request EXCEPT ![r] = h]

\* A handler that moves on within its operation keeps what it holds.
LEMMA GotoType ==
  ASSUME IntegrationsTypeOK, NEW r \in Requests,
         NEW pc \in {"find", "insert", "refind", "update"}, NEW b \in BOOLEAN
  PROVE  /\ [request[r] EXCEPT !.pc = pc] \in Handlers
         /\ [request[r] EXCEPT !.pc = pc, !.same = b] \in Handlers
<1>1. request[r] \in Handlers BY DEF IntegrationsTypeOK
<1>. QED BY <1>1 DEF Handlers

\* What the handler of r may have become.
Moves(r) == \E h \in Handlers : Becomes(r, h)

\* The started save holds a merged config.
LEMMA SaveType ==
  ASSUME IntegrationsTypeOK, NEW r \in Requests, NEW p \in Plugins,
         NEW c \in Configs, Save(r, p, c)
  PROVE  IntegrationsTypeOK'
<1>. DEFINE saved == SavedConfig(p)
            h == [Idle EXCEPT !.op = "Save", !.pc = "find", !.plugin = p,
                              !.config = MergeConfig(saved, c),
                              !.alone = Saving(p) = {}]
<1>1. saved \in Configs
  BY DEF SavedConfig, IntegrationsTypeOK, Rows, Empty, Configs
<1>2. MergeConfig(saved, c) \in Configs BY <1>1, MergeType
<1>3. (Saving(p) = {}) \in BOOLEAN OBVIOUS
<1>4. h \in Handlers BY <1>2, <1>3 DEF Idle, Handlers
<1>5. Disturbed(p) \in [Requests -> Handlers]
  BY DisturbedType DEF IntegrationsTypeOK
<1>6. request' = [Disturbed(p) EXCEPT ![r] = h] BY DEF Save
<1>. HIDE DEF h
<1>7. request' \in [Requests -> Handlers] BY <1>4, <1>5, <1>6
<1>. QED BY <1>7 DEF Save, IntegrationsTypeOK

\* The steps of a save, after its first.
SaveStep(r) == SaveFind(r) \/ SaveInsert(r) \/ SaveUpdate(r)

\* A step of a save moves its handler alone, to a well-typed one.
LEMMA SaveStepMoves ==
  ASSUME IntegrationsTypeOK, NEW r \in Requests, SaveStep(r)
  PROVE  Moves(r)
<1>1. CASE Return(r) BY <1>1, IdleType DEF Moves, Becomes, Return
<1>2. CASE SaveFind(r) /\ ~Return(r)
  <2>. DEFINE p == request[r].plugin
              b == /\ key = None /\ integrations[p].key = None
                   /\ integrations[p].config = request[r].config
  <2>1. b \in BOOLEAN OBVIOUS
  <2>2. \/ Becomes(r, [request[r] EXCEPT !.pc = "update", !.same = b])
        \/ Becomes(r, [request[r] EXCEPT !.pc = "insert"])
    BY <1>2 DEF SaveFind, Becomes
  <2>. HIDE DEF b
  <2>. QED BY <2>1, <2>2, GotoType DEF Moves
<1>3. CASE SaveInsert(r) /\ ~Return(r)
  <2>1. Becomes(r, [request[r] EXCEPT !.pc = "refind"])
    BY <1>3 DEF SaveInsert, Becomes
  <2>. QED BY <2>1, GotoType DEF Moves
<1>. QED BY <1>1, <1>2, <1>3 DEF SaveStep, SaveUpdate

\* What a save writes is a row.
LEMMA SaveStepTables ==
  ASSUME IntegrationsTypeOK, NEW r \in Requests, SaveStep(r), RequestInv(r)
  PROVE  /\ DOMAIN integrations' \subseteq Plugins
         /\ integrations' \in [DOMAIN integrations' -> Rows]
         /\ key' = key
<1>. DEFINE p == request[r].plugin
<1>0. request[r] \in Handlers /\ request[r].config \in Configs
  BY DEF IntegrationsTypeOK, Handlers
<1>1. CASE UNCHANGED integrations
  BY <1>1 DEF IntegrationsTypeOK, SaveStep, SaveFind, SaveInsert, SaveUpdate
<1>2. CASE SaveInsert(r) /\ ~UNCHANGED integrations
  <2>. DEFINE row == Pack(NewRow, request[r].config)
  <2>1. p \in Plugins BY <1>2 DEF SaveInsert, At, RequestInv
  <2>2. row \in Rows BY <1>0 DEF Pack, NewRow, Rows, IntegrationsTypeOK
  <2>3. Put(p, row) BY <1>2 DEF SaveInsert
  <2>. HIDE DEF row
  <2>. QED BY <1>2, <2>1, <2>2, <2>3, PutType DEF IntegrationsTypeOK, SaveInsert
<1>3. CASE SaveUpdate(r) /\ ~UNCHANGED integrations
  <2>. DEFINE row == Pack(integrations[p], request[r].config)
  <2>1. p \in DOMAIN integrations /\ Put(p, row) BY <1>3 DEF SaveUpdate
  <2>2. row \in Rows BY <1>0, <2>1 DEF Pack, Rows, IntegrationsTypeOK
  <2>. HIDE DEF row
  <2>. QED BY <1>3, <2>1, <2>2, PutType DEF IntegrationsTypeOK, SaveUpdate
<1>. QED BY <1>1, <1>2, <1>3 DEF SaveStep, SaveFind

\* The steps of a test and of a distribution.
OtherStep(r) ==
  \/ TestFind(r) \/ TestUpdate(r) \/ DistributeReturn(r)
  \/ \E s \in {"ok", "failed"} : TestProbe(r, s)
  \/ \E p \in Plugins : DistributeNext(r, p)
  \/ \E p \in AlertPlugins : Test(r, p)
  \/ Distribute(r)

\* So does a step of a test or of a distribution.
LEMMA OtherStepMoves ==
  ASSUME IntegrationsTypeOK, NEW r \in Requests, OtherStep(r)
  PROVE  Moves(r)
<1>0. request[r] \in Handlers BY DEF IntegrationsTypeOK
<1>1. CASE Return(r) BY <1>1, IdleType DEF Moves, Becomes, Return
<1>2. CASE TestFind(r) /\ ~Return(r)
  <2>1. Becomes(r, [request[r] EXCEPT !.pc = "update"])
    BY <1>2 DEF TestFind, Becomes
  <2>. QED BY <2>1, GotoType DEF Moves
<1>3. ASSUME NEW s \in {"ok", "failed"}, TestProbe(r, s) PROVE Moves(r)
  <2>1. Becomes(r, [request[r] EXCEPT !.pc = "find", !.status = s])
    BY <1>3 DEF TestProbe, Becomes
  <2>2. [request[r] EXCEPT !.pc = "find", !.status = s] \in Handlers
    BY <1>0 DEF Handlers
  <2>. QED BY <2>1, <2>2 DEF Moves
<1>4. ASSUME NEW p \in Plugins, DistributeNext(r, p) PROVE Moves(r)
  <2>. DEFINE h == [request[r] EXCEPT !.todo = @ \ {p}, !.results = @ \cup {p}]
  <2>1. Becomes(r, h) BY <1>4 DEF DistributeNext, Becomes
  <2>2. /\ request[r].todo \ {p} \in SUBSET Plugins
        /\ request[r].results \cup {p} \in SUBSET Plugins
    BY <1>0 DEF Handlers
  <2>3. h \in Handlers BY <1>0, <2>2 DEF Handlers
  <2>. QED BY <2>1, <2>3 DEF Moves
<1>5. ASSUME NEW p \in AlertPlugins, Test(r, p) PROVE Moves(r)
  <2>1. Becomes(r, [Idle EXCEPT !.op = "Test", !.pc = "probe", !.plugin = p])
    BY <1>5 DEF Test, Becomes
  <2>2. [Idle EXCEPT !.op = "Test", !.pc = "probe", !.plugin = p] \in Handlers
    BY IdleType DEF Idle, Handlers, Plugins
  <2>. QED BY <2>1, <2>2 DEF Moves
<1>6. CASE Distribute(r)
  <2>. DEFINE loaded == DeployPlugins \cap DOMAIN integrations
              bad == {p \in loaded : ~Readable(integrations[p])}
              h == [Idle EXCEPT !.op = "Distribute", !.pc = "next",
                                !.todo = loaded, !.listed = loaded,
                                !.unreadable = bad]
  <2>1. Becomes(r, h) BY <1>6 DEF Distribute, Becomes
  <2>2. loaded \in SUBSET Plugins /\ bad \in SUBSET Plugins BY DEF Plugins
  <2>. HIDE DEF loaded, bad
  <2>3. h \in Handlers BY <2>2, IdleType DEF Idle, Handlers
  <2>. QED BY <2>1, <2>3 DEF Moves
<1>. QED BY <1>1, <1>2, <1>3, <1>4, <1>5, <1>6
         DEF OtherStep, TestUpdate, DistributeReturn

\* A test writes its outcome and nothing else.
LEMMA OtherStepTables ==
  ASSUME IntegrationsTypeOK, NEW r \in Requests, OtherStep(r)
  PROVE  /\ DOMAIN integrations' = DOMAIN integrations
         /\ integrations' \in [DOMAIN integrations' -> Rows]
         /\ \A p \in DOMAIN integrations :
              /\ integrations'[p].key = integrations[p].key
              /\ integrations'[p].config = integrations[p].config
         /\ key' = key
<1>1. CASE UNCHANGED integrations
  BY <1>1 DEF IntegrationsTypeOK, OtherStep, TestFind, TestUpdate,
              DistributeReturn, TestProbe, DistributeNext, Test, Distribute
<1>2. CASE ~UNCHANGED integrations
  <2>1. TestUpdate(r)
    BY <1>2 DEF OtherStep, TestFind, DistributeReturn, TestProbe,
                DistributeNext, Test, Distribute
  <2>. DEFINE p == request[r].plugin
              row == [integrations[p] EXCEPT !.tested = request[r].status]
  <2>2. p \in DOMAIN integrations /\ Put(p, row) BY <1>2, <2>1 DEF TestUpdate
  <2>3. integrations[p] \in Rows BY <2>2 DEF IntegrationsTypeOK
  <2>4. request[r].status \in {"none", "ok", "failed"}
    BY DEF IntegrationsTypeOK, Handlers
  <2>5. /\ row \in Rows
        /\ row.key = integrations[p].key /\ row.config = integrations[p].config
    BY <2>3, <2>4 DEF Rows
  <2>6. key' = key BY <2>1 DEF TestUpdate
  <2>. HIDE DEF row
  <2>7. p \in Plugins BY <2>2 DEF IntegrationsTypeOK
  <2>8. integrations' \in [DOMAIN integrations' -> Rows]
    BY <2>2, <2>5, <2>7, PutType DEF IntegrationsTypeOK
  <2>. QED BY <2>2, <2>5, <2>6, <2>8 DEF Put, IntegrationsTypeOK
<1>. QED BY <1>1, <1>2

-----------------------------------------------------------------------------
\* The steps of the handlers: the invariant.

\* A step of r that starts no save, changes none but at its end, and gives no
\* field a value that the save of r did not hold.
Quiet(r) ==
  /\ \A q \in Requests \ {r} : request'[q] = request[q]
  /\ LET h == request[r]
         g == request'[r]
     IN /\ g.op = "Save" => /\ h.op = "Save" /\ g.plugin = h.plugin
                            /\ g.config = h.config /\ g.alone = h.alone
        /\ g.op = "Distribute" => g.results \cup g.todo = g.listed
        /\ \A p \in DOMAIN integrations', f \in Fields :
             integrations'[p].config[f] # None =>
               \/ p \in DOMAIN integrations /\ integrations[p].config[f] # None
               \/ h.op = "Save" /\ h.plugin = p /\ g.op # "Save"

\* A quiet step keeps what every handler knows.
LEMMA QuietKeeps ==
  ASSUME IntegrationsTypeOK, NEW r \in Requests, Quiet(r),
         \A q \in Requests : RequestInv(q)
  PROVE  \A q \in Requests : RequestInv(q)'
<1>. SUFFICES ASSUME NEW q \in Requests PROVE RequestInv(q)' OBVIOUS
<1>. DEFINE h == request[q]
            g == request'[q]
<1>1. \A s \in Requests : request'[s].op = "Save" =>
        request[s].op = "Save" /\ request'[s].plugin = request[s].plugin
  BY DEF Quiet
<1>2. /\ g.op = "Save" => /\ h.op = "Save" /\ g.plugin = h.plugin
                          /\ g.config = h.config /\ g.alone = h.alone
      /\ g.op = "Distribute" => g.results \cup g.todo = g.listed
  BY DEF Quiet, RequestInv
<1>3. ASSUME g.op = "Save", g.alone
      PROVE  /\ \A s \in Requests \ {q} : request'[s].op = "Save"
                                            => request'[s].plugin # g.plugin
             /\ g.plugin \in DOMAIN integrations' =>
                  \A f \in Fields : integrations'[g.plugin].config[f] # None
                                      => g.config[f] # None
  <2>1. /\ \A s \in Requests \ {q} : request[s].op = "Save"
                                       => request[s].plugin # g.plugin
        /\ g.plugin \in DOMAIN integrations =>
             \A f \in Fields : integrations[g.plugin].config[f] # None
                                 => g.config[f] # None
    BY <1>2, <1>3 DEF RequestInv
  <2>2. ~(/\ request[r].op = "Save" /\ request[r].plugin = g.plugin
          /\ request'[r].op # "Save")
    BY <1>3, <2>1
  <2>3. ASSUME NEW f \in Fields, g.plugin \in DOMAIN integrations',
               integrations'[g.plugin].config[f] # None
        PROVE  /\ g.plugin \in DOMAIN integrations
               /\ integrations[g.plugin].config[f] # None
    BY <2>2, <2>3 DEF Quiet
  <2>. QED BY <1>1, <2>1, <2>3
<1>4. g.op = "Save" => g.plugin \in Plugins BY <1>2 DEF RequestInv
<1>. QED BY <1>2, <1>3, <1>4 DEF RequestInv

\* Tests and distributions are quiet,
LEMMA OtherStepQuiet ==
  ASSUME IntegrationsTypeOK, NEW r \in Requests, OtherStep(r), RequestInv(r)
  PROVE  Quiet(r)
<1>. DEFINE h == request[r]
            g == request'[r]
<1>0. h \in Handlers BY DEF IntegrationsTypeOK
<1>1. \A q \in Requests \ {r} : request'[q] = request[q]
  BY OtherStepMoves DEF Moves, Becomes, IntegrationsTypeOK
<1>2. \A p \in DOMAIN integrations', f \in Fields :
        integrations'[p].config[f] # None =>
          p \in DOMAIN integrations /\ integrations[p].config[f] # None
  BY OtherStepTables
<1>3. g.op # "Save" /\ (g.op = "Distribute" => g.results \cup g.todo = g.listed)
  <2>1. CASE Return(r) BY <2>1 DEF Return, Idle, IntegrationsTypeOK
  <2>2. CASE TestFind(r) /\ ~Return(r)
    BY <1>0, <2>2 DEF TestFind, At, Handlers, IntegrationsTypeOK
  <2>3. ASSUME NEW s \in {"ok", "failed"}, TestProbe(r, s)
        PROVE  g.op = "Test"
    BY <1>0, <2>3 DEF TestProbe, At, Handlers, IntegrationsTypeOK
  <2>4. ASSUME NEW p \in Plugins, DistributeNext(r, p)
        PROVE  g.op = "Distribute" /\ g.results \cup g.todo = g.listed
    <3>1. /\ g.op = h.op /\ g.todo = h.todo \ {p}
          /\ g.results = h.results \cup {p} /\ g.listed = h.listed
      BY <1>0, <2>4 DEF DistributeNext, Handlers, IntegrationsTypeOK
    <3>. QED BY <2>4, <3>1 DEF DistributeNext, At, RequestInv
  <2>5. ASSUME NEW p \in AlertPlugins, Test(r, p) PROVE g.op = "Test"
    BY <2>5 DEF Test, Idle, IntegrationsTypeOK
  <2>6. CASE Distribute(r)
    BY <2>6 DEF Distribute, Idle, IntegrationsTypeOK
  <2>. QED BY <2>1, <2>2, <2>3, <2>4, <2>5, <2>6
           DEF OtherStep, TestUpdate, DistributeReturn
<1>. QED BY <1>1, <1>2, <1>3 DEF Quiet

\* ... and so is a save after its first step.
LEMMA SaveStepQuiet ==
  ASSUME IntegrationsTypeOK, NEW r \in Requests, SaveStep(r), RequestInv(r)
  PROVE  Quiet(r)
<1>. DEFINE h == request[r]
            g == request'[r]
<1>0. h \in Handlers BY DEF IntegrationsTypeOK
<1>1. \A q \in Requests \ {r} : request'[q] = request[q]
  BY SaveStepMoves DEF Moves, Becomes, IntegrationsTypeOK
<1>2. \/ g = Idle
      \/ /\ g.op = h.op /\ g.plugin = h.plugin /\ g.config = h.config
         /\ g.alone = h.alone /\ h.op = "Save" /\ UNCHANGED integrations
  <2>1. CASE Return(r) BY <2>1 DEF Return, IntegrationsTypeOK
  <2>2. CASE ~Return(r)
    BY <1>0, <2>2 DEF SaveStep, SaveFind, SaveInsert, SaveUpdate, At, Handlers,
                      IntegrationsTypeOK
  <2>. QED BY <2>1, <2>2
<1>3. CASE g # Idle BY <1>1, <1>2, <1>3 DEF Quiet
<1>4. CASE g = Idle
  <2>1. g.op = "none" BY <1>4 DEF Idle
  <2>2. h.op = "Save" BY DEF SaveStep, SaveFind, SaveInsert, SaveUpdate, At
  <2>3. \A p \in DOMAIN integrations' \ {h.plugin} :
          p \in DOMAIN integrations /\ integrations'[p] = integrations[p]
    BY DEF SaveStep, SaveFind, SaveInsert, SaveUpdate, Put
  <2>. QED BY <1>1, <2>1, <2>2, <2>3 DEF Quiet
<1>. QED BY <1>3, <1>4

\* All that a save or a delete does to another handler is that it is not alone.
LEMMA DisturbedKeeps ==
  ASSUME IntegrationsTypeOK, NEW p, NEW q \in Requests,
         request'[q] = Disturbed(p)[q]
  PROVE  /\ request'[q].op = request[q].op
         /\ request'[q].plugin = request[q].plugin
         /\ request'[q].config = request[q].config
         /\ request'[q].todo = request[q].todo
         /\ request'[q].results = request[q].results
         /\ request'[q].listed = request[q].listed
         /\ request'[q].alone => request[q].alone /\ q \notin Saving(p)
<1>1. request[q] \in Handlers BY DEF IntegrationsTypeOK
<1>2. request'[q] = [request[q] EXCEPT !.alone = @ /\ q \notin Saving(p)]
  BY DEF Disturbed
<1>. DEFINE b == q \notin Saving(p)
<1>. HIDE DEF b
<1>. QED BY <1>1, <1>2 DEF Handlers, b

\* A save that starts disturbs the others of its plugin, and holds a value for
\* every field that has one.
LEMMA SaveKeeps ==
  ASSUME IntegrationsTypeOK, NEW r \in Requests, NEW p \in Plugins,
         NEW c \in Configs, Save(r, p, c), \A q \in Requests : RequestInv(q)
  PROVE  \A q \in Requests : RequestInv(q)'
<1>. DEFINE saved == SavedConfig(p)
            g == request'[r]
<1>1. /\ g.op = "Save" /\ g.plugin = p /\ g.config = MergeConfig(saved, c)
      /\ g.alone => Saving(p) = {}
  BY DEF Save, Idle, IntegrationsTypeOK, Disturbed
<1>2. \A q \in Requests \ {r} : request'[q] = Disturbed(p)[q]
  BY DEF Save, Disturbed
<1>3. UNCHANGED integrations BY DEF Save
<1>4. RequestInv(r)'
  <2>1. ASSUME p \in DOMAIN integrations, NEW f \in Fields,
               integrations[p].config[f] # None
        PROVE  g.config[f] # None
    BY <1>1, <2>1 DEF MergeConfig, SavedConfig
  <2>2. ASSUME g.alone, NEW s \in Requests \ {r}, request'[s].op = "Save"
        PROVE  request'[s].plugin # p
    BY <1>1, <1>2, <2>2, DisturbedKeeps DEF Saving
  <2>. QED BY <1>1, <1>3, <2>1, <2>2 DEF RequestInv
<1>5. ASSUME NEW q \in Requests \ {r} PROVE RequestInv(q)'
  <2>1. /\ request'[q].op = request[q].op
        /\ request'[q].plugin = request[q].plugin
        /\ request'[q].config = request[q].config
        /\ request'[q].todo = request[q].todo
        /\ request'[q].results = request[q].results
        /\ request'[q].listed = request[q].listed
        /\ request'[q].alone => request[q].alone /\ q \notin Saving(p)
    BY <1>2, DisturbedKeeps
  <2>2. ASSUME request[q].op = "Save", request'[q].alone,
               NEW s \in Requests \ {q}, request'[s].op = "Save"
        PROVE  request'[s].plugin # request[q].plugin
    <3>1. CASE s = r BY <1>1, <2>1, <2>2, <3>1 DEF Saving
    <3>2. CASE s # r
      <4>1. request[s].op = "Save" /\ request'[s].plugin = request[s].plugin
        BY <1>2, <2>2, <3>2, DisturbedKeeps
      <4>. QED BY <2>1, <2>2, <4>1 DEF RequestInv
    <3>. QED BY <3>1, <3>2
  <2>3. RequestInv(q) OBVIOUS
  <2>. QED BY <1>3, <2>1, <2>2, <2>3 DEF RequestInv
<1>. QED BY <1>4, <1>5

\* A delete keeps what the handlers that it does not disturb know.
LEMMA DeleteKeeps ==
  ASSUME IntegrationsTypeOK, NEW p \in Plugins, Delete(p),
         \A q \in Requests : RequestInv(q)
  PROVE  IntegrationsTypeOK' /\ \A q \in Requests : RequestInv(q)'
<1>1. /\ integrations' = [q \in DOMAIN integrations \ {p} |-> integrations[q]]
      /\ request' = Disturbed(p) /\ key' = key
  BY DEF Delete
<1>2. IntegrationsTypeOK'
  <2>1. request' \in [Requests -> Handlers]
    BY <1>1, DisturbedType DEF IntegrationsTypeOK
  <2>. QED BY <1>1, <2>1 DEF IntegrationsTypeOK
<1>3. ASSUME NEW q \in Requests PROVE RequestInv(q)'
  <2>1. \A s \in Requests :
          /\ request'[s].op = request[s].op
          /\ request'[s].plugin = request[s].plugin
    BY <1>1, DisturbedKeeps
  <2>2. /\ request'[q].op = request[q].op
        /\ request'[q].plugin = request[q].plugin
        /\ request'[q].config = request[q].config
        /\ request'[q].todo = request[q].todo
        /\ request'[q].results = request[q].results
        /\ request'[q].listed = request[q].listed
        /\ request'[q].alone => request[q].alone
    BY <1>1, DisturbedKeeps
  <2>3. \A x \in DOMAIN integrations' :
          x \in DOMAIN integrations /\ integrations'[x] = integrations[x]
    BY <1>1
  <2>4. RequestInv(q) OBVIOUS
  <2>. QED BY <2>1, <2>2, <2>3, <2>4 DEF RequestInv
<1>. QED BY <1>2, <1>3

\* No handler survives a restart.
LEMMA RestartKeeps ==
  ASSUME IntegrationsTypeOK, Restart
  PROVE  IntegrationsTypeOK' /\ \A q \in Requests : RequestInv(q)'
BY IdleType DEF Restart, IntegrationsTypeOK, RequestInv, Idle

\* The steps of handlers never take a row away or make it unreadable: a save
\* packs it with the key the server runs with.
RowsKept ==
  \A p \in DOMAIN integrations :
    /\ p \in DOMAIN integrations'
    /\ Readable(integrations[p]) => Readable(integrations[p])'

\* A save never takes a row away.
LEMMA SaveStepRows ==
  ASSUME IntegrationsTypeOK, NEW r \in Requests, SaveStep(r)
  PROVE  RowsKept
<1>. DEFINE p == request[r].plugin
<1>1. CASE UNCHANGED integrations /\ UNCHANGED key
  BY <1>1 DEF RowsKept, Readable
<1>2. CASE SaveInsert(r) /\ ~UNCHANGED integrations
  BY <1>2 DEF SaveInsert, RowsKept, Readable, Put
<1>3. CASE SaveUpdate(r) /\ ~UNCHANGED integrations
  <2>. DEFINE row == Pack(integrations[p], request[r].config)
  <2>1. p \in DOMAIN integrations /\ Put(p, row) /\ key' = key
    BY <1>3 DEF SaveUpdate
  <2>2. row.key = key BY <2>1 DEF Pack, IntegrationsTypeOK, Rows
  <2>. HIDE DEF row
  <2>. QED BY <2>1, <2>2 DEF RowsKept, Readable, Put
<1>. QED BY <1>1, <1>2, <1>3 DEF SaveStep, SaveFind, SaveInsert, SaveUpdate

\* A step of a handler keeps types, handlers and rows.
LEMMA HandlerKeeps ==
  ASSUME IntegrationsTypeOK, \A q \in Requests : RequestInv(q),
         NEW r \in Requests, Request(r) \/ HandlerStep(r)
  PROVE  /\ IntegrationsTypeOK'
         /\ \A q \in Requests : RequestInv(q)'
         /\ RowsKept
<1>1. CASE SaveStep(r)
  <2>1. request' \in [Requests -> Handlers]
    BY <1>1, SaveStepMoves DEF Moves, Becomes, IntegrationsTypeOK
  <2>2. IntegrationsTypeOK'
    BY <1>1, <2>1, SaveStepTables DEF IntegrationsTypeOK
  <2>3. RowsKept BY <1>1, SaveStepRows
  <2>. QED BY <1>1, <2>2, <2>3, SaveStepQuiet, QuietKeeps
<1>2. CASE OtherStep(r)
  <2>1. request' \in [Requests -> Handlers]
    BY <1>2, OtherStepMoves DEF Moves, Becomes, IntegrationsTypeOK
  <2>2. IntegrationsTypeOK'
    BY <1>2, <2>1, OtherStepTables DEF IntegrationsTypeOK
  <2>3. RowsKept BY <1>2, OtherStepTables DEF RowsKept, Readable
  <2>. QED BY <1>2, <2>2, <2>3, OtherStepQuiet, QuietKeeps
<1>3. ASSUME NEW p \in Plugins, NEW c \in Configs, Save(r, p, c)
      PROVE  /\ IntegrationsTypeOK'
             /\ \A q \in Requests : RequestInv(q)'
             /\ RowsKept
  <2>1. RowsKept BY <1>3 DEF Save, RowsKept, Readable
  <2>. QED BY <1>3, <2>1, SaveType, SaveKeeps
<1>. QED BY <1>1, <1>2, <1>3 DEF Request, HandlerStep, SaveStep, OtherStep

-----------------------------------------------------------------------------
\* The steps of the task.

\* Nobody has touched the task of a and the rows it has listed.
LEMMA TaskUntouched ==
  ASSUME NEW a \in Alerts, TaskInv(a), RowsKept, task'[a] = task[a],
         received'[a] = received[a], attempts'[a] = attempts[a]
  PROVE  TaskInv(a)'
BY DEF TaskInv, TaskCoherent, OncePerPlugin, Told, RowsStand, RowsKept,
       InProgress

\* Only the task of a moves.
Only(a) ==
  /\ \A b \in Alerts \ {a} : /\ task'[b] = task[b]
                             /\ received'[b] = received[b]
                             /\ attempts'[b] = attempts[b]
  /\ task' = [b \in Alerts |-> task'[b]]
  /\ received' = [b \in Alerts |-> received'[b]]
  /\ attempts' = [b \in Alerts |-> attempts'[b]]
  /\ Unchanged

\* The steps of one task.
Step(a) == Schedule(a) \/ TaskStep(a)

\* ... move no other task, and no row.
LEMMA StepOnly ==
  ASSUME TypeOK, NEW a \in Alerts, Step(a)
  PROVE  Only(a)
<1>. USE DEF TypeOK, Only
<1>1. CASE Schedule(a) BY <1>1 DEF Schedule
<1>2. CASE ListRows(a) BY <1>2 DEF ListRows
<1>3. CASE Recorded(a) BY <1>3 DEF Recorded, NextTurn
<1>4. CASE Unrecorded(a) BY <1>4 DEF Unrecorded, NextTurn
<1>5. CASE LoopDone(a) BY <1>5 DEF LoopDone, Finish
<1>6. ASSUME NEW p \in Plugins, VisitRow(a, p) PROVE Only(a)
  BY <1>6 DEF VisitRow, Finish
<1>7. ASSUME NEW o \in {"ok", "failed"}, CallPlugin(a, o) PROVE Only(a)
  BY <1>7 DEF CallPlugin
<1>. QED BY <1>1, <1>2, <1>3, <1>4, <1>5, <1>6, <1>7 DEF Step, TaskStep

\* The types and the invariant of a task survive each of its own steps.
LEMMA StepKeeps ==
  ASSUME TypeOK, NEW a \in Alerts, TaskInv(a), Step(a)
  PROVE  /\ task'[a] \in Tasks
         /\ received'[a] \in SUBSET (AlertPlugins \X {"ok", "failed"})
         /\ attempts'[a] \in SUBSET (AlertPlugins \X {"ok", "failed"})
         /\ TaskInv(a)'
<1>. DEFINE t == task[a]
            u == task'[a]
<1>0. /\ t \in Tasks
      /\ received[a] \in SUBSET (AlertPlugins \X {"ok", "failed"})
      /\ attempts[a] \in SUBSET (AlertPlugins \X {"ok", "failed"})
  BY DEF TypeOK
<1>1. /\ TaskCoherent(a) /\ OncePerPlugin(a) /\ Told(a) /\ RowsStand(a)
      /\ attempts[a] \subseteq received[a]
  BY DEF TaskInv
<1>2. ASSUME Schedule(a)
      PROVE  u \in Tasks /\ received'[a] = received[a] /\ TaskInv(a)'
  <2>1. /\ u = [t EXCEPT !.pc = "queued"]
        /\ received'[a] = received[a] /\ attempts'[a] = attempts[a]
    BY <1>2 DEF Schedule, TypeOK
  <2>2. /\ u \in Tasks /\ u.pc = "queued" /\ u.listed = t.listed
        /\ u.todo = t.todo /\ u.unreadable = t.unreadable
        /\ u.spoiled = t.spoiled /\ t.pc = "none"
    BY <1>0, <1>2, <2>1 DEF Tasks, Schedule
  <2>. QED BY <1>0, <1>1, <2>1, <2>2
           DEF TaskInv, TaskCoherent, OncePerPlugin, Told, RowsStand
<1>3. ASSUME ListRows(a)
      PROVE  u \in Tasks /\ received'[a] = received[a] /\ TaskInv(a)'
  <2>. DEFINE bad == {p \in DOMAIN integrations : ~Readable(integrations[p])}
  <2>1. /\ u = [t EXCEPT !.pc = "next", !.todo = DOMAIN integrations,
                         !.unreadable = bad, !.listed = DOMAIN integrations,
                         !.spoiled = bad]
        /\ received'[a] = received[a] /\ attempts'[a] = attempts[a]
        /\ Unchanged /\ t.pc = "queued"
    BY <1>3 DEF ListRows, TypeOK
  <2>2. DOMAIN integrations \in SUBSET Plugins /\ bad \in SUBSET Plugins
    BY DEF TypeOK, IntegrationsTypeOK
  <2>3. /\ u \in Tasks /\ u.pc = "next" /\ u.todo = DOMAIN integrations
        /\ u.listed = DOMAIN integrations /\ u.unreadable = bad
        /\ u.spoiled = bad
    BY <1>0, <2>1, <2>2 DEF Tasks
  <2>4. received[a] = {} BY <1>1, <2>1 DEF TaskCoherent
  <2>5. RowsStand(a)'
    BY <2>1, <2>3 DEF RowsStand, Readable, Unchanged
  <2>. QED BY <1>0, <1>1, <2>1, <2>3, <2>4, <2>5
           DEF TaskInv, TaskCoherent, OncePerPlugin, Told
<1>4. ASSUME Recorded(a) \/ Unrecorded(a)
      PROVE  u \in Tasks /\ received'[a] = received[a] /\ TaskInv(a)'
  <2>1. /\ u = [t EXCEPT !.pc = "next", !.plugin = None, !.status = "none",
                         !.expired = TRUE]
        /\ t.pc = "record" /\ Unchanged /\ received'[a] = received[a]
        /\ \/ attempts'[a] = attempts[a]
           \/ attempts'[a] = attempts[a] \cup {<<t.plugin, t.status>>}
    BY <1>4 DEF Recorded, Unrecorded, NextTurn, TypeOK
  <2>2. /\ u \in Tasks /\ u.pc = "next" /\ u.listed = t.listed
        /\ u.todo = t.todo /\ u.unreadable = t.unreadable
        /\ u.spoiled = t.spoiled
    BY <1>0, <2>1 DEF Tasks
  <2>3. <<t.plugin, t.status>> \in received[a]
    BY <1>1, <2>1 DEF TaskCoherent
  <2>4. RowsStand(a)'
    BY <1>1, <2>1, <2>2 DEF RowsStand, InProgress, Readable, Unchanged
  <2>. QED BY <1>0, <1>1, <2>1, <2>2, <2>3, <2>4
           DEF TaskInv, TaskCoherent, OncePerPlugin, Told
<1>5. ASSUME LoopDone(a)
      PROVE  u \in Tasks /\ received'[a] = received[a] /\ TaskInv(a)'
  <2>1. /\ u = [t EXCEPT !.pc = "ended", !.todo = {}]
        /\ t.pc = "next" /\ t.todo = {}
        /\ received'[a] = received[a] /\ attempts'[a] = attempts[a]
    BY <1>5 DEF LoopDone, Finish, TypeOK
  <2>2. /\ u \in Tasks /\ u.pc = "ended" /\ u.listed = t.listed
        /\ u.todo = {} /\ u.unreadable = t.unreadable
        /\ u.spoiled = t.spoiled
    BY <1>0, <2>1 DEF Tasks
  <2>. QED BY <1>0, <1>1, <2>1, <2>2
           DEF TaskInv, TaskCoherent, OncePerPlugin, Told, RowsStand, InProgress
<1>6. ASSUME NEW p \in Plugins, VisitRow(a, p)
      PROVE  /\ u \in Tasks /\ received'[a] = received[a]
             /\ attempts'[a] = attempts[a] /\ TaskInv(a)'
  <2>0. /\ t.pc = "next" /\ p \in t.todo /\ Unchanged
        /\ received'[a] = received[a] /\ attempts'[a] = attempts[a]
    BY <1>6 DEF VisitRow
  <2>. DEFINE
         Ends == Finish(a) /\ (Gone(a, p) \/ (~Gone(a, p) /\ ~Unpacks(a, p)))
         Skips == /\ p \in DeployPlugins
                  /\ task' = [task EXCEPT ![a].todo = @ \ {p}]
         Calls == /\ p \in AlertPlugins
                  /\ task' = [task EXCEPT ![a].pc = "call", ![a].plugin = p,
                                          ![a].todo = @ \ {p}]
  <2>1. CASE Ends
    <3>1. u = [t EXCEPT !.pc = "ended", !.todo = {}]
      BY <2>1 DEF Finish, TypeOK
    <3>2. /\ u \in Tasks /\ u.pc = "ended" /\ u.listed = t.listed
          /\ u.todo = {} /\ u.unreadable = t.unreadable
          /\ u.spoiled = t.spoiled
      BY <1>0, <3>1 DEF Tasks
    <3>3. p \in t.spoiled
      BY <1>1, <2>0, <2>1
         DEF Gone, Unpacks, RowsStand, InProgress, TaskCoherent
    <3>. QED BY <1>0, <1>1, <2>0, <3>2, <3>3
             DEF TaskInv, TaskCoherent, OncePerPlugin, Told, RowsStand,
                 InProgress
  <2>2. CASE Skips
    <3>1. u = [t EXCEPT !.todo = @ \ {p}] BY <2>2 DEF TypeOK
    <3>2. t.todo \ {p} \in SUBSET Plugins BY <1>0 DEF Tasks
    <3>3. /\ u \in Tasks /\ u.pc = "next" /\ u.listed = t.listed
          /\ u.todo = t.todo \ {p} /\ u.unreadable = t.unreadable
          /\ u.spoiled = t.spoiled
      BY <1>0, <2>0, <3>1, <3>2 DEF Tasks
    <3>4. p \notin AlertPlugins BY <2>2, IntegrationsAssumption
    <3>5. RowsStand(a)'
      BY <1>1, <2>0, <3>3 DEF RowsStand, InProgress, Readable, Unchanged
    <3>. QED BY <1>0, <1>1, <2>0, <3>3, <3>4, <3>5
             DEF TaskInv, TaskCoherent, OncePerPlugin, Told
  <2>3. CASE Calls
    <3>. DEFINE rest == t.todo \ {p}
    <3>1. u = [t EXCEPT !.pc = "call", !.plugin = p, !.todo = rest]
      BY <1>0, <2>3 DEF TypeOK
    <3>2. rest \in SUBSET Plugins BY <1>0 DEF Tasks
    <3>. HIDE DEF rest
    <3>3. /\ u \in Tasks /\ u.pc = "call" /\ u.listed = t.listed
          /\ u.todo = rest /\ u.unreadable = t.unreadable
          /\ u.spoiled = t.spoiled /\ u.plugin = p
      BY <1>0, <3>1, <3>2 DEF Tasks
    <3>. USE DEF rest
    <3>4. RowsStand(a)'
      BY <1>1, <2>0, <3>3 DEF RowsStand, InProgress, Readable, Unchanged
    <3>5. TaskCoherent(a)' BY <1>1, <2>0, <2>3, <3>3 DEF TaskCoherent
    <3>6. OncePerPlugin(a)' BY <1>1, <2>0, <3>3 DEF OncePerPlugin
    <3>7. Told(a)' BY <1>1, <2>0, <3>3 DEF Told
    <3>. QED BY <1>1, <2>0, <3>3, <3>4, <3>5, <3>6, <3>7 DEF TaskInv
  <2>4. Ends \/ Skips \/ Calls BY <1>6, Zenon DEF VisitRow
  <2>. HIDE DEF Ends, Skips, Calls
  <2>. QED BY <2>1, <2>2, <2>3, <2>4
<1>7. ASSUME NEW o \in {"ok", "failed"}, CallPlugin(a, o)
      PROVE  /\ u \in Tasks /\ attempts'[a] = attempts[a] /\ TaskInv(a)'
             /\ received'[a] \in SUBSET (AlertPlugins \X {"ok", "failed"})
  <2>1. /\ u = [t EXCEPT !.pc = "record", !.status = o]
        /\ received'[a] = received[a] \cup {<<t.plugin, o>>}
        /\ t.pc = "call" /\ attempts'[a] = attempts[a] /\ Unchanged
    BY <1>7 DEF CallPlugin, TypeOK
  <2>2. /\ u \in Tasks /\ u.pc = "record" /\ u.listed = t.listed
        /\ u.todo = t.todo /\ u.unreadable = t.unreadable
        /\ u.spoiled = t.spoiled /\ u.plugin = t.plugin /\ u.status = o
    BY <1>0, <2>1 DEF Tasks
  <2>3. t.plugin \in AlertPlugins \ t.todo
    BY <1>1, <2>1 DEF TaskCoherent
  <2>4. RowsStand(a)'
    BY <1>1, <2>1, <2>2 DEF RowsStand, InProgress, Readable, Unchanged
  <2>5. <<t.plugin, o>> \in AlertPlugins \X {"ok", "failed"}
    BY <2>3
  <2>6. received'[a] \in SUBSET (AlertPlugins \X {"ok", "failed"})
    BY <1>0, <2>1, <2>5
  <2>7. TaskCoherent(a)' BY <1>1, <2>1, <2>2, <2>3 DEF TaskCoherent
  <2>8. OncePerPlugin(a)' BY <1>1, <2>1, <2>2, <2>3 DEF OncePerPlugin
  <2>9. Told(a)' BY <1>1, <2>1, <2>2 DEF Told
  <2>. QED BY <1>1, <2>1, <2>2, <2>4, <2>6, <2>7, <2>8, <2>9 DEF TaskInv
<1>8. TaskInv(a)' /\ u \in Tasks
  BY <1>2, <1>3, <1>4, <1>5, <1>6, <1>7 DEF Step, TaskStep
<1>9. received'[a] \in SUBSET (AlertPlugins \X {"ok", "failed"})
  BY <1>0, <1>2, <1>3, <1>4, <1>5, <1>6, <1>7 DEF Step, TaskStep
<1>10. attempts'[a] \subseteq received'[a] BY <1>8 DEF TaskInv
<1>. QED BY <1>8, <1>9, <1>10

\* A deleted row is spoiled for every task that has listed it.
LEMMA DeleteTasks ==
  ASSUME TypeOK, NEW p \in Plugins, DeleteRow(p), NEW a \in Alerts, TaskInv(a)
  PROVE  task'[a] \in Tasks /\ TaskInv(a)'
<1>. DEFINE t == task[a]
            u == task'[a]
            more == t.spoiled \cup
                      (IF InProgress(a) THEN {p} \cap t.listed ELSE {})
<1>0. t \in Tasks BY DEF TypeOK
<1>1. u = [t EXCEPT !.spoiled = more] BY DEF DeleteRow
<1>2. more \in SUBSET Plugins BY <1>0 DEF Tasks
<1>3. /\ t.spoiled \subseteq more
      /\ InProgress(a) /\ p \in t.listed => p \in more
  OBVIOUS
<1>. HIDE DEF more
<1>4. /\ u \in Tasks /\ u.pc = t.pc /\ u.plugin = t.plugin
      /\ u.status = t.status /\ u.todo = t.todo /\ u.listed = t.listed
      /\ u.unreadable = t.unreadable /\ u.spoiled = more
  BY <1>0, <1>1, <1>2 DEF Tasks
<1>5. received' = received /\ attempts' = attempts BY DEF DeleteRow
<1>6. /\ integrations' = [q \in DOMAIN integrations \ {p} |-> integrations[q]]
      /\ key' = key
  BY DEF DeleteRow, Delete
<1>7. RowsStand(a)'
  BY <1>3, <1>4, <1>6 DEF TaskInv, RowsStand, InProgress, Readable
<1>8. TaskCoherent(a)' BY <1>3, <1>4, <1>5 DEF TaskInv, TaskCoherent
<1>9. OncePerPlugin(a)' BY <1>4, <1>5 DEF TaskInv, OncePerPlugin
<1>10. Told(a)' BY <1>3, <1>4, <1>5 DEF TaskInv, Told
<1>. QED BY <1>4, <1>5, <1>7, <1>8, <1>9, <1>10 DEF TaskInv

\* A task that the server loses holds nothing.
LEMMA RestartTasks ==
  ASSUME TypeOK, RestartServer, NEW a \in Alerts, TaskInv(a)
  PROVE  task'[a] \in Tasks /\ TaskInv(a)'
<1>0. task[a] \in Tasks BY DEF TypeOK
<1>1. received' = received /\ attempts' = attempts BY DEF RestartServer
<1>2. CASE InProgress(a)
  <2>1. task'[a] = [NoTask EXCEPT !.pc = "lost"] BY <1>2 DEF RestartServer
  <2>. QED BY <1>1, <2>1
           DEF Tasks, NoTask, TaskInv, TaskCoherent, OncePerPlugin, Told,
               RowsStand, InProgress
<1>3. CASE ~InProgress(a)
  <2>1. task'[a] = task[a] BY <1>3 DEF RestartServer
  <2>. QED BY <1>0, <1>1, <1>3, <2>1
           DEF TaskInv, TaskCoherent, OncePerPlugin, Told, RowsStand, InProgress
<1>. QED BY <1>2, <1>3

-----------------------------------------------------------------------------
\* The invariant.

\* The server starts with no task and no handler.
LEMMA InitInv == Init => IndInv
<1>. SUFFICES ASSUME Init PROVE IndInv OBVIOUS
<1>1. IntegrationsTypeOK
  BY IdleType DEF Init, IntegrationsInit, IntegrationsTypeOK
<1>2. TypeOK BY <1>1 DEF Init, TypeOK, Tasks, NoTask
<1>3. ASSUME NEW a \in Alerts PROVE TaskInv(a)
  BY DEF Init, NoTask, TaskInv, TaskCoherent, OncePerPlugin, Told, RowsStand,
         InProgress
<1>4. ASSUME NEW r \in Requests PROVE RequestInv(r)
  BY DEF Init, IntegrationsInit, Idle, RequestInv
<1>. QED BY <1>2, <1>3, <1>4 DEF IndInv

\* Every step preserves the invariant.
LEMMA NextInv == IndInv /\ [Next]_vars => IndInv'
<1>. SUFFICES ASSUME IndInv, [Next]_vars PROVE IndInv' OBVIOUS
<1>0. /\ TypeOK /\ IntegrationsTypeOK
      /\ \A a \in Alerts : TaskInv(a)
      /\ \A r \in Requests : RequestInv(r)
  BY DEF IndInv, TypeOK
<1>1. ASSUME NEW a \in Alerts, Step(a) PROVE IndInv'
  <2>1. Only(a) BY <1>0, <1>1, StepOnly
  <2>2. /\ task'[a] \in Tasks
        /\ received'[a] \in SUBSET (AlertPlugins \X {"ok", "failed"})
        /\ attempts'[a] \in SUBSET (AlertPlugins \X {"ok", "failed"})
        /\ TaskInv(a)'
    BY <1>0, <1>1, StepKeeps
  <2>3. RowsKept BY <2>1 DEF Only, Unchanged, RowsKept, Readable
  <2>4. \A b \in Alerts : TaskInv(b)'
    BY <1>0, <2>1, <2>2, <2>3, TaskUntouched DEF Only
  <2>5. IntegrationsTypeOK' /\ \A r \in Requests : RequestInv(r)'
    BY <1>0, <2>1 DEF Only, Unchanged, IntegrationsTypeOK, RequestInv
  <2>6. TypeOK' BY <1>0, <2>1, <2>2, <2>5 DEF TypeOK, Only
  <2>. QED BY <2>4, <2>5, <2>6 DEF IndInv
<1>2. ASSUME NEW p \in Plugins, DeleteRow(p) PROVE IndInv'
  <2>1. IntegrationsTypeOK' /\ \A r \in Requests : RequestInv(r)'
    BY <1>0, <1>2, DeleteKeeps DEF DeleteRow
  <2>2. \A a \in Alerts : task'[a] \in Tasks /\ TaskInv(a)'
    BY <1>0, <1>2, DeleteTasks
  <2>3. TypeOK' BY <1>0, <1>2, <2>1, <2>2 DEF TypeOK, DeleteRow
  <2>. QED BY <2>1, <2>2, <2>3 DEF IndInv
<1>3. CASE RestartServer
  <2>1. IntegrationsTypeOK' /\ \A r \in Requests : RequestInv(r)'
    BY <1>0, <1>3, RestartKeeps DEF RestartServer
  <2>2. \A a \in Alerts : task'[a] \in Tasks /\ TaskInv(a)'
    BY <1>0, <1>3, RestartTasks
  <2>3. TypeOK' BY <1>0, <1>3, <2>1, <2>2 DEF TypeOK, RestartServer
  <2>. QED BY <2>1, <2>2, <2>3 DEF IndInv
<1>4. ASSUME NEW r \in Requests, Request(r) \/ HandlerStep(r),
             UNCHANGED <<task, received, attempts>>
      PROVE  IndInv'
  <2>1. IntegrationsTypeOK' /\ (\A q \in Requests : RequestInv(q)') /\ RowsKept
    BY <1>0, <1>4, HandlerKeeps
  <2>2. \A a \in Alerts : TaskInv(a)' BY <1>0, <1>4, <2>1, TaskUntouched
  <2>3. TypeOK' BY <1>0, <1>4, <2>1 DEF TypeOK
  <2>. QED BY <2>1, <2>2, <2>3 DEF IndInv
<1>5. CASE UNCHANGED vars
  BY <1>0, <1>5 DEF vars, IndInv, TypeOK, IntegrationsTypeOK, TaskInv,
     TaskCoherent, OncePerPlugin, Told, RowsStand, InProgress, Readable,
     RequestInv
<1>. QED BY <1>1, <1>2, <1>3, <1>4, <1>5 DEF Next, Handler, Step

\* Everything in the invariant holds in every reachable state: the types, what a
\* task holds and has sent, the rows it still may read, and what each handler
\* will write or answer (services/alerting.py, services/integrations.py).
THEOREM Inductive == Spec => []IndInv
BY InitInv, NextInv, PTL DEF Spec

\* The variables keep their types, whatever the handlers and the tasks do.
THEOREM TypeCorrect == Spec => []TypeOK
<1>1. IndInv => TypeOK BY DEF IndInv
<1>. QED BY <1>1, Inductive, PTL

\* A task that ran to its end has called every alert plugin it listed, if none
\* of the rows was unreadable or deleted (services/alerting.py:31-57).
THEOREM FanOutIsComplete == Spec => []FanOutComplete
<1>1. IndInv => FanOutComplete
  BY DEF IndInv, TaskInv, TaskCoherent, Told, FanOutComplete
<1>. QED BY <1>1, Inductive, PTL

\* distribute() returns one result for every deploy plugin that was configured
\* when it read the table (services/deploy.py).
THEOREM DistributeIsComplete == Spec => []DistributeAnswersAll
<1>1. IndInv => DistributeAnswersAll
  BY DEF IndInv, RequestInv, DistributeAnswersAll
<1>. QED BY <1>1, Inductive, PTL

-----------------------------------------------------------------------------
\* A save that nobody disturbed.

\* No save that was alone and ends in this step wipes a field.
NoWipe == \A r \in Requests :
            request[r].op = "Save" /\ request[r].alone /\ request'[r] = Idle
              => ~Wipes(request[r].plugin)

\* A step that writes no row wipes nothing.
LEMMA UnchangedNoWipe == ASSUME UNCHANGED integrations PROVE NoWipe
BY DEF NoWipe, Wipes

\* The one step that ends a save and changes its row writes the merged config.
LEMMA SaveStepNoWipe ==
  ASSUME IntegrationsTypeOK, NEW r \in Requests, SaveStep(r),
         RequestInv(r), request[r].alone
  PROVE  ~Wipes(request[r].plugin)
<1>. DEFINE p == request[r].plugin
<1>1. CASE UNCHANGED integrations BY <1>1 DEF Wipes
<1>2. CASE SaveInsert(r) /\ ~UNCHANGED integrations
  BY <1>2 DEF SaveInsert, Wipes
<1>3. CASE SaveUpdate(r) /\ ~UNCHANGED integrations
  <2>. DEFINE row == Pack(integrations[p], request[r].config)
  <2>1. p \in DOMAIN integrations /\ Put(p, row) BY <1>3 DEF SaveUpdate
  <2>2. row.config = request[r].config
    BY <2>1 DEF Pack, IntegrationsTypeOK, Rows
  <2>. HIDE DEF row
  <2>3. integrations'[p].config = request[r].config BY <2>1, <2>2 DEF Put
  <2>4. request[r].op = "Save" BY <1>3 DEF SaveUpdate, At
  <2>5. \A f \in Fields : integrations[p].config[f] # None
                            => request[r].config[f] # None
    BY <2>1, <2>4 DEF RequestInv
  <2>. QED BY <2>3, <2>5 DEF Wipes
<1>. QED BY <1>1, <1>2, <1>3 DEF SaveStep, SaveFind

\* No step wipes a field under a save that was alone.
LEMMA NextNoWipe == IndInv /\ Next => NoWipe
<1>. SUFFICES ASSUME IndInv, Next PROVE NoWipe OBVIOUS
<1>0. TypeOK /\ IntegrationsTypeOK /\ \A r \in Requests : RequestInv(r)
  BY DEF IndInv, TypeOK
<1>1. ASSUME NEW a \in Alerts, Step(a) PROVE NoWipe
  BY <1>0, <1>1, StepOnly, UnchangedNoWipe DEF Only, Unchanged
<1>2. ASSUME NEW p \in Plugins, DeleteRow(p) PROVE NoWipe
  <2>1. \A r \in Requests : request'[r].op = request[r].op
    BY <1>0, <1>2, DisturbedKeeps DEF DeleteRow, Delete
  <2>. QED BY <2>1 DEF NoWipe, Idle
<1>3. CASE RestartServer
  BY <1>3, UnchangedNoWipe DEF RestartServer, Restart
<1>4. ASSUME NEW r \in Requests, SaveStep(r) PROVE NoWipe
  <2>1. \A q \in Requests \ {r} : request'[q] = request[q]
    BY <1>0, <1>4, SaveStepQuiet DEF Quiet
  <2>. QED BY <1>0, <1>4, <2>1, SaveStepNoWipe DEF NoWipe, Idle
<1>5. ASSUME NEW r \in Requests, OtherStep(r) PROVE NoWipe
  BY <1>0, <1>5, OtherStepTables DEF NoWipe, Wipes
<1>6. ASSUME NEW r \in Requests, NEW p \in Plugins, NEW c \in Configs,
             Save(r, p, c)
      PROVE  NoWipe
  BY <1>6, UnchangedNoWipe DEF Save
<1>. QED BY <1>1, <1>2, <1>3, <1>4, <1>5, <1>6
         DEF Next, Handler, Step, Request, HandlerStep, SaveStep, OtherStep

\* A field left blank in the form keeps its saved value, at whatever step the
\* save commits, if the save was alone (services/integrations.py:44-52).
THEOREM BlanksAreKept == Spec => BlankKeepsSaved
<1>1. IndInv /\ [Next]_vars => [NoWipe]_vars BY NextNoWipe
<1>2. Spec => [][NoWipe]_vars BY <1>1, Inductive, PTL DEF Spec
<1>. QED BY <1>2 DEF NoWipe, BlankKeepsSaved

-----------------------------------------------------------------------------
\* The task implements Delivery.

\* What the deliveries of the alerts are to Delivery: under way, and ended.
opened == {a \in Alerts : InProgress(a)}
closed == {a \in Alerts : task[a].pc \in {"ended", "lost"}}

\* The first state is one of Delivery.
LEMMA InitDelivery == Init => Promise!Init
BY DEF Init, NoTask, InProgress, Promise!Init

\* Steps that leave the calls and the rows alone begin a delivery, end it, or
\* are not seen.
LEMMA SilentDelivery ==
  ASSUME TypeOK, UNCHANGED <<received, attempts>>,
         NEW ended \in SUBSET opened, opened' = opened \ ended,
         closed' = closed \cup ended
  PROVE  Promise!Next
<1>1. Promise!End(ended) BY DEF Promise!End, opened, closed
<1>2. ended \in SUBSET Alerts BY DEF opened
<1>. QED BY <1>1, <1>2 DEF Promise!Next

\* What Delivery sees of a state.
Seen == <<opened, closed, received, attempts>>

\* Every step of a task is a step of Delivery or changes nothing it sees.
LEMMA StepDelivery ==
  ASSUME TypeOK, NEW a \in Alerts, TaskInv(a), Step(a)
  PROVE  [Promise!Next]_Seen
<1>0. /\ task \in [Alerts -> Tasks] /\ task[a] \in Tasks /\ Only(a)
      /\ received[a] \in SUBSET (AlertPlugins \X {"ok", "failed"})
      /\ received = [b \in Alerts |-> received[b]]
      /\ attempts = [b \in Alerts |-> attempts[b]]
  BY StepOnly DEF TypeOK
<1>1. CASE /\ task[a].pc \in {"queued", "next", "call", "record"}
           /\ task'[a].pc \in {"queued", "next", "call", "record"}
           /\ UNCHANGED <<received, attempts>>
  <2>1. opened' = opened /\ closed' = closed
    BY <1>0, <1>1 DEF opened, closed, InProgress, Only
  <2>. QED BY <1>1, <2>1 DEF Seen
<1>2. CASE /\ task[a].pc \in {"queued", "next", "call", "record"}
           /\ task'[a].pc = "ended"
           /\ UNCHANGED <<received, attempts>>
  <2>1. opened' = opened \ {a} /\ closed' = closed \cup {a}
    BY <1>0, <1>2 DEF opened, closed, InProgress, Only
  <2>2. {a} \in SUBSET opened BY <1>2 DEF opened, InProgress
  <2>. QED BY <1>2, <2>1, <2>2, SilentDelivery
<1>3. CASE Schedule(a)
  <2>1. /\ task[a].pc = "none" /\ task'[a].pc = "queued"
        /\ UNCHANGED <<received, attempts>>
    BY <1>0, <1>3 DEF Schedule, Tasks
  <2>2. opened' = opened \cup {a} /\ closed' = closed
    BY <1>0, <2>1 DEF opened, closed, InProgress, Only
  <2>3. a \notin opened \cup closed BY <2>1 DEF opened, closed, InProgress
  <2>4. Promise!Begin(a) BY <2>1, <2>2, <2>3 DEF Promise!Begin, opened, closed
  <2>. QED BY <2>4 DEF Promise!Next
<1>4. CASE ListRows(a)
  <2>1. task[a].pc = "queued" /\ task'[a].pc = "next"
    BY <1>0, <1>4 DEF ListRows, Tasks
  <2>. QED BY <1>1, <1>4, <2>1 DEF ListRows
<1>5. CASE Recorded(a) \/ Unrecorded(a)
  <2>. DEFINE c == <<task[a].plugin, task[a].status>>
  <2>1. /\ task[a].pc = "record" /\ task'[a].pc = "next" /\ received' = received
        /\ \/ attempts' = attempts
           \/ attempts' = [attempts EXCEPT ![a] = @ \cup {c}]
    <3>1. NextTurn(a) /\ task[a].pc = "record"
      BY <1>5 DEF Recorded, Unrecorded
    <3>2. task'[a].pc = "next" BY <1>0, <3>1 DEF NextTurn, Tasks
    <3>. HIDE DEF c
    <3>3. /\ received' = received
          /\ \/ attempts' = attempts
             \/ attempts' = [attempts EXCEPT ![a] = @ \cup {c}]
      BY <1>5 DEF Recorded, Unrecorded, c
    <3>. QED BY <3>1, <3>2, <3>3
  <2>2. CASE attempts' = attempts BY <1>1, <2>1, <2>2
  <2>3. CASE attempts' # attempts
    <3>1. /\ c \in received[a]
          /\ attempts' = [attempts EXCEPT ![a] = @ \cup {c}]
      BY <2>1, <2>3 DEF TaskInv, TaskCoherent
    <3>2. c \notin attempts[a] BY <1>0, <2>3, <3>1
    <3>3. c \in AlertPlugins \X {"ok", "failed"} BY <1>0, <3>1
    <3>. HIDE DEF c
    <3>4. opened' = opened /\ closed' = closed
      BY <1>0, <2>1 DEF opened, closed, InProgress, Only
    <3>5. a \in opened BY <2>1 DEF opened, InProgress
    <3>6. Promise!Record(a, c)
      BY <2>1, <3>1, <3>2, <3>4, <3>5 DEF Promise!Record, opened, closed
    <3>. QED BY <3>3, <3>6 DEF Promise!Next, Promise!Outcomes
  <2>. QED BY <2>2, <2>3
<1>6. CASE LoopDone(a)
  <2>1. task[a].pc = "next" /\ task'[a].pc = "ended"
    BY <1>0, <1>6 DEF LoopDone, Finish, Tasks
  <2>. QED BY <1>2, <1>6, <2>1 DEF LoopDone
<1>7. ASSUME NEW p \in Plugins, VisitRow(a, p) PROVE [Promise!Next]_Seen
  <2>1. /\ task[a].pc = "next" /\ task'[a].pc \in {"next", "call", "ended"}
        /\ UNCHANGED <<received, attempts>>
    BY <1>0, <1>7 DEF VisitRow, Finish, Tasks
  <2>. QED BY <1>1, <1>2, <2>1
<1>8. ASSUME NEW o \in {"ok", "failed"}, CallPlugin(a, o)
      PROVE  [Promise!Next]_Seen
  <2>. DEFINE p == task[a].plugin
  <2>1. /\ task[a].pc = "call" /\ task'[a].pc = "record"
        /\ received' = [received EXCEPT ![a] = @ \cup {<<p, o>>}]
        /\ attempts' = attempts
    BY <1>0, <1>8 DEF CallPlugin, Tasks
  <2>2. p \in AlertPlugins /\ \A c \in received[a] : c[1] # p
    BY <2>1 DEF TaskInv, TaskCoherent, OncePerPlugin
  <2>3. opened' = opened /\ closed' = closed
    BY <1>0, <2>1 DEF opened, closed, InProgress, Only
  <2>4. a \in opened BY <2>1 DEF opened, InProgress
  <2>. HIDE DEF p
  <2>5. Promise!Call(a, p, o)
    BY <2>1, <2>2, <2>3, <2>4 DEF Promise!Call, opened, closed
  <2>. QED BY <2>2, <2>5 DEF Promise!Next
<1>. QED BY <1>3, <1>4, <1>5, <1>6, <1>7, <1>8 DEF Step, TaskStep

\* So is every step of the server.
LEMMA NextDelivery == IndInv /\ [Next]_vars => [Promise!Next]_Seen
<1>. SUFFICES ASSUME IndInv, [Next]_vars PROVE [Promise!Next]_Seen OBVIOUS
<1>0. TypeOK /\ \A a \in Alerts : TaskInv(a) BY DEF IndInv
<1>1. ASSUME NEW a \in Alerts, Step(a) PROVE [Promise!Next]_Seen
  BY <1>0, <1>1, StepDelivery
<1>2. ASSUME NEW p \in Plugins, DeleteRow(p) PROVE [Promise!Next]_Seen
  <2>1. \A a \in Alerts : task'[a].pc = task[a].pc
    <3>. SUFFICES ASSUME NEW a \in Alerts PROVE task'[a].pc = task[a].pc
      OBVIOUS
    <3>. DEFINE more == task[a].spoiled \cup
                          (IF InProgress(a) THEN {p} \cap task[a].listed ELSE {})
    <3>1. task'[a] = [task[a] EXCEPT !.spoiled = more] BY <1>2 DEF DeleteRow
    <3>. HIDE DEF more
    <3>. QED BY <1>0, <3>1 DEF TypeOK, Tasks
  <2>. QED BY <1>2, <2>1 DEF DeleteRow, Seen, opened, closed, InProgress
<1>3. CASE RestartServer
  <2>1. \A a \in Alerts : IF InProgress(a) THEN task'[a].pc = "lost"
                                           ELSE task'[a] = task[a]
    BY <1>3 DEF RestartServer, NoTask
  <2>2. opened' = opened \ opened /\ closed' = closed \cup opened
    BY <2>1 DEF opened, closed, InProgress
  <2>. QED BY <1>0, <1>3, <2>2, SilentDelivery DEF RestartServer
<1>4. CASE Handler \/ UNCHANGED vars
  BY <1>4 DEF Handler, vars, Seen, opened, closed, InProgress
<1>. QED BY <1>1, <1>2, <1>3, <1>4 DEF Next, Step

\* At most one call per plugin and alert, and no row in delivery_attempts for a
\* call that was not made: the task implements Delivery (services/alerting.py).
THEOREM ImplementsDelivery == Spec => DeliversOnce
<1>1. IndInv /\ [Next]_vars =>
        [Promise!Next]_<<{a \in Alerts : InProgress(a)},
                         {a \in Alerts : task[a].pc \in {"ended", "lost"}},
                         received, attempts>>
  BY NextDelivery DEF Seen, opened, closed
<1>. QED BY <1>1, InitDelivery, Inductive, PTL
         DEF Spec, DeliversOnce, Promise!Spec
=============================================================================
