------------------------- MODULE NodeSnapshotProofs -------------------------
(***************************************************************************)
(* The records of the node's state store and what a snapshot has of them,  *)
(* for every chain, checkpoint interval and number of faults: consensus   *)
(* parameters are found where the records say, the validators that         *)
(* saveValidatorsInfo reads are there, and a complete snapshot agrees with *)
(* its source.                                                             *)
(***************************************************************************)
EXTENDS NodeStoresProofs

-----------------------------------------------------------------------------
(* The inductive invariants *)

\* The record of a height refers to one that has the parameters, and they have not
\* changed since.
GoodParams(infos, params, h) ==
    LET info == infos[h]
        stored == infos[info.changed]
    IN  /\ info # Nothing /\ info.changed <= h /\ info.value \in {NoParams, params[h]}
        /\ stored # Nothing /\ stored.value = params[h]
        /\ \A x \in info.changed .. h : params[x] = params[h]
ParamsInv ==
    restores = 0 =>
        /\ data.state.params = chain.params[data.state.height + 1]
        /\ data.paramsInfo[data.state.height + 1] = NextParamsInfo(data.state)
        /\ \A h \in 1 .. data.state.height + 1 : GoodParams(data.paramsInfo, chain.params, h)
        /\ job.pc \in Saving => job.state.params = chain.params[job.state.height + 1]
        /\ job.pc = "saveState" =>
              data.paramsInfo[job.state.height + 1] = NextParamsInfo(job.state)

\* The validators' record of a height is there, and the one it refers to when they
\* last changed at c.
RecordThere(infos, c, h) ==
    /\ infos[h] # Nothing
    /\ c < h => infos[h].changed = c
    /\ c <= h => infos[lastStoredHeightFor(h, c)] # Nothing
RecordsThere(infos, s, heights) ==
    /\ s.valsChanged <= s.height + 2
    /\ \A h \in heights : RecordThere(infos, s.valsChanged, h)
    /\ infos[s.height + 2] = NextValidatorsInfo(s)

\* The heights whose validators a node or a command may still ask for.
Asked == data.blocks \cup {data.state.height + 1, data.state.height + 2}

\* The target has the source's records.
RecordsCopied ==
    LET r == target.state.height
        c == target.state.valsChanged
    IN  /\ c <= r /\ r <= data.state.height
        /\ RecordsThere(target.valInfo, target.state, r .. r + 2)
        /\ \A h \in (r .. r + 2) \cup {lastStoredHeightFor(r, c)} :
              target.valInfo[h] = data.valInfo[h]
ValidatorsThere ==
    /\ RecordsThere(data.valInfo, data.state, Asked)
    /\ job.pc \in {"saveParams", "saveState"} =>
          data.valInfo[job.state.height + 2] = NextValidatorsInfo(job.state)
    /\ (job.pc \in Copied \/ completed) /\ "records" \notin swallowed => RecordsCopied
ValidatorsInv == ~flawed => ValidatorsThere

-----------------------------------------------------------------------------
(* Consensus parameters *)

\* A record that another height's record does not refer to may be overwritten.
LEMMA KeepGood ==
    ASSUME NEW infos \in [InfoHeight -> ParamsInfo \cup {Nothing}], NEW params,
           NEW h \in InfoHeight, NEW k, NEW i, k # h, infos[h].changed # k,
           GoodParams(infos, params, h)
    PROVE  GoodParams([infos EXCEPT ![k] = i], params, h)
<1> DEFINE g == [infos EXCEPT ![k] = i]
<1>1. infos[h] \in ParamsInfo BY DEF GoodParams
<1>2. infos[h].changed \in InfoHeight BY <1>1 DEF ParamsInfo
<1>3. g[h] = infos[h] /\ g[infos[h].changed] = infos[infos[h].changed] BY <1>2
<1> HIDE DEF g
<1>4. GoodParams(g, params, h) BY <1>3 DEF GoodParams
<1> QED BY <1>4 DEF g

\* One that has the parameters itself is good.
LEMMA OwnGood ==
    ASSUME NEW infos, NEW params, NEW h \in Nat, infos[h] # Nothing,
           infos[h].changed = h, infos[h].value = params[h]
    PROVE  GoodParams(infos, params, h)
<1>1. h <= h /\ \A x \in h .. h : x = h OBVIOUS
<1> QED BY <1>1 DEF GoodParams

\* One that refers to where a good one refers, over heights without a change.
LEMMA ReferGood ==
    ASSUME NEW infos, NEW params, NEW h \in Nat, NEW g \in Nat, NEW c \in Nat,
           GoodParams(infos, params, g), infos[g].changed = c,
           infos[h] # Nothing, infos[h].changed = c, c <= h, infos[h].value = NoParams,
           params[h] = params[g], h <= g \/ h = g + 1
    PROVE  GoodParams(infos, params, h)
<1>1. /\ infos[c] # Nothing /\ infos[c].value = params[g] /\ c <= g
      /\ \A x \in c .. g : params[x] = params[g]
    BY DEF GoodParams
<1>2. ASSUME NEW x \in c .. h PROVE params[x] = params[h]
    <2>1. x \in c .. g \/ x = h BY <1>2
    <2> QED BY <1>1, <2>1
<1> QED BY <1>1, <1>2 DEF GoodParams

\* LoadConsensusParams answers from a good record with the chain's parameters.
LEMMA GoodLoads ==
    ASSUME NEW d, NEW params, NEW h, GoodParams(d.paramsInfo, params, h)
    PROVE  LoadConsensusParams(d, h) = params[h]
BY DEF GoodParams, LoadConsensusParams

LEMMA InitParams == Init => ParamsInv
<1> SUFFICES ASSUME Init PROVE ParamsInv OBVIOUS
<1> DEFINE i == [changed |-> 1, value |-> chain.params[1]]
<1>1. 1 \in InfoHeight BY Bounds
<1>2. data.paramsInfo = [EmptyDirectory.paramsInfo EXCEPT ![1] = i]
    BY DEF Init, GenesisDirectory, EmptyDirectory
<1>3. EmptyDirectory.paramsInfo \in [InfoHeight -> ParamsInfo \cup {Nothing}]
    BY EmptyTypes, DirectoryFields
<1>4. data.paramsInfo[1] = i BY <1>1, <1>2, <1>3
<1>5. /\ data.state.height = 0 /\ data.state.params = chain.params[1]
      /\ data.state.paramsChanged = 1
    BY DEF Init, GenesisDirectory, EmptyDirectory
<1>6. i # Nothing
    <2>1. chain \in Chain BY DEF Init
    <2>2. chain.params[1] \in ConsensusParams
        <3>1. 1 \in 1 .. MaxHeight + 1 BY Bounds
        <3> QED BY <2>1, <3>1, ChainFields
    <2>3. i \in ParamsInfo BY <1>1, <2>2 DEF ParamsInfo
    <2> QED BY <2>3, Markers
<1>7. GoodParams(data.paramsInfo, chain.params, 1) BY <1>4, <1>6, OwnGood
<1>8. data.paramsInfo[data.state.height + 1] = NextParamsInfo(data.state)
    BY <1>4, <1>5 DEF NextParamsInfo
<1>9. job.pc = "idle" BY EmptyTypes DEF Init
<1>10. \A h \in 1 .. data.state.height + 1 : h = 1 BY <1>5
<1>11. data.state.params = chain.params[data.state.height + 1] BY <1>5
<1> QED BY <1>7, <1>8, <1>9, <1>10, <1>11 DEF ParamsInv, Saving

\* What the node and Recover are about to save has the chain's parameters.
LEMMA SavedParams ==
    ASSUME TypeInv, StartInv, ParamsInv, restores = 0, UpdateState \/ Recover,
           job'.pc \in Saving
    PROVE  job'.state.params = chain.params[job'.state.height + 1]
<1> DEFINE s == data.state  h == s.height
<1>1. h \in 0 .. MaxHeight /\ s.params = chain.params[h + 1]
    BY TypeFacts DEF ParamsInv
<1>2. CASE UpdateState
    <2>1. job'.state = NextState(s) BY <1>2, UpdateStateParts
    <2>2. NextState(s).height = h + 1
          /\ NextState(s).params = IF chain.params[h + 1 + 1] # chain.params[h + 1]
                                     THEN chain.params[h + 1 + 1] ELSE s.params
        BY DEF NextState
    <2> QED BY <1>1, <2>1, <2>2
<1>3. CASE Recover
    <2>1. job'.pc = "saveVals" => CanRollBack /\ job'.state = RolledBackState
        BY <1>3, RecoverParts, EmptyTypes
    <2>2. job'.pc = "saveVals" BY <1>3, RecoverParts, EmptyTypes DEF Saving
    <2>3. /\ RolledBackState.height = h - 1 /\ RolledBackState.height \in Height
          /\ RolledBackState.params = LoadConsensusParams(data, h)
        BY <2>1, <2>2, TypeFacts, RolledBackType DEF TypeInv, Formed
    <2>4. h \in 1 .. h + 1 /\ RolledBackState.height + 1 = h BY <1>1, <2>3, Bounds
    <2>5. GoodParams(data.paramsInfo, chain.params, h) BY <2>4 DEF ParamsInv
    <2>6. LoadConsensusParams(data, h) = chain.params[h]
        <3> HIDE DEF h, s
        <3> QED BY <2>5, GoodLoads, Zenon
    <2> QED BY <2>1, <2>2, <2>3, <2>4, <2>6
<1> QED BY <1>2, <1>3

\* SaveParams leaves every record up to the state good: the node writes above them,
\* and Recover writes a record of the height that refers no further than before.
LEMMA SaveParamsGood ==
    ASSUME TypeInv, StartInv, ParamsInv, restores = 0, SaveParams,
           NEW x \in 1 .. data.state.height + 1
    PROVE  GoodParams(data'.paramsInfo, chain.params, x)
<1> DEFINE s == data.state  h == s.height  k == job.state.height + 1
           i == NextParamsInfo(job.state)
           old == data.paramsInfo  new == [old EXCEPT ![k] = i]
           p == chain.params
<1>1. data'.paramsInfo = new /\ job.pc = "saveParams" /\ job.state \in State /\ k \in InfoHeight
    BY SaveParamsParts
<1> SUFFICES GoodParams(new, p, x) BY <1>1
<1>2. old \in [InfoHeight -> ParamsInfo \cup {Nothing}] BY TypeFacts, DirectoryFields
<1>3. h \in 0 .. MaxHeight /\ s \in State BY TypeFacts
<1>4. \A y \in 1 .. h + 1 : GoodParams(old, p, y) BY DEF ParamsInv
<1>5. i \in ParamsInfo /\ i # Nothing BY <1>1, NextInfoTypes, Markers
<1>6. job.state.params = p[k] BY <1>1 DEF ParamsInv, Saving
<1>7. old[h + 1].changed = s.paramsChanged
    BY DEF ParamsInv, NextParamsInfo
<1>8. x \in InfoHeight BY <1>3, Bounds
<1>9. old[x].changed \in Nat /\ old[x].changed <= x
    <2>1. GoodParams(old, p, x) BY <1>4
    <2>2. old[x] \in ParamsInfo BY <1>2, <1>8, <2>1 DEF GoodParams
    <2> QED BY <2>1, <2>2, Bounds DEF GoodParams, ParamsInfo
<1>10. job.cmd \in {"node", "create"} BY <1>1 DEF TypeInv, Formed, Saving
<1>11. ASSUME x # k, old[x].changed # k PROVE GoodParams(new, p, x)
    <2> HIDE DEF old, k, i, p
    <2>1. GoodParams(old, p, x) BY <1>4
    <2> QED BY <1>2, <1>8, <1>11, <2>1, KeepGood
<1>12. CASE job.cmd = "node"
    <2>1. job.state = NextState(s) BY <1>1, <1>12 DEF StartInv, Apart, Saving
    <2>2. k = h + 2 BY <1>3, <2>1 DEF NextState
    <2>3. x # k /\ old[x].changed # k BY <1>3, <1>9, <2>2
    <2> QED BY <1>11, <2>3
<1>13. CASE job.cmd = "create"
    <2>1. RolledBack(job.state, s) /\ job.height = h - 1 /\ job.height \in data.blocks
        BY <1>1, <1>13 DEF StartInv, Apart, Saving
    <2>2. h - 1 \in Height BY <2>1, TypeFacts
    <2> DEFINE c == s.paramsChanged  d == IF c > h - 1 THEN h - 1 + 1 ELSE c
    <2>3. c \in Nat BY <1>3, StateFields, Bounds
    <2>4. job.state.height = h - 1 /\ job.state.paramsChanged = d
        BY <2>1 DEF RolledBack
    <2>5. k = h /\ h \in Nat /\ h > 0 BY <1>3, <2>2, <2>4, Bounds
    <2>6. i.changed = d /\ i.value = IF k = d THEN p[k] ELSE NoParams
        BY <1>6, <2>4 DEF NextParamsInfo
    <2>7. new[k] = i /\ \A y \in InfoHeight : y # k => new[y] = old[y] BY <1>1, <1>2
    <2>8. GoodParams(old, p, h + 1) BY <1>4, <2>5
    <2>9. /\ c <= h + 1 /\ old[c] # Nothing /\ old[c].value = p[h + 1]
          /\ \A y \in c .. h + 1 : p[y] = p[h + 1]
        BY <1>7, <2>8 DEF GoodParams
    <2> HIDE DEF i, new, old, p, c
    <2>10. CASE c >= h
        <3>1. d = h BY <2>3, <2>5, <2>10
        <3>2. new[h] = i /\ i.changed = h /\ i.value = p[h] BY <2>5, <2>6, <2>7, <3>1
        <3>3. GoodParams(new, p, h) BY <1>5, <2>5, <3>2, OwnGood
        <3>4. CASE x = h BY <3>3, <3>4
        <3>5. CASE x # h /\ old[x].changed # h BY <1>11, <2>5, <3>5
        <3>6. CASE x # h /\ old[x].changed = h
            <4>1. x = h + 1 BY <1>3, <1>9, <2>5, <3>6
            <4>2. c = h BY <1>7, <3>6, <4>1 DEF old, c
            <4>3. h \in c .. h + 1 BY <2>5, <4>2
            <4>4. p[h] = p[h + 1] BY <2>9, <4>3
            <4>5. h + 1 \in InfoHeight /\ h + 1 # k BY <1>3, <2>5, Bounds
            <4>6. new[h + 1] = old[h + 1] BY <2>7, <4>5
            <4>7. new[h] # Nothing /\ new[h].value = p[h + 1] BY <1>5, <3>2, <4>4
            <4>8. GoodParams(new, p, h + 1)
                BY <1>7, <2>8, <3>6, <4>1, <4>2, <4>6, <4>7 DEF GoodParams
            <4> QED BY <4>1, <4>8
        <3> QED BY <3>4, <3>5, <3>6
    <2>11. CASE c < h
        <3>1. d = c /\ k # d BY <2>3, <2>5, <2>11
        <3>2. new[h] = i /\ i.changed = c /\ i.value = NoParams BY <2>5, <2>6, <2>7, <3>1
        <3>3. h + 1 \in InfoHeight /\ h + 1 # k BY <1>3, <2>5, Bounds
        <3>4. old[h + 1].changed = c BY <1>7 DEF old, c
        <3>5. GoodParams(new, p, h + 1)
            <4>1. old[h + 1].changed # k BY <2>3, <2>5, <2>11, <3>4
            <4> HIDE DEF k
            <4> QED BY <1>2, <2>8, <3>3, <4>1, KeepGood DEF new
        <3>6. new[h + 1].changed = c BY <2>7, <3>3, <3>4
        <3>7. p[h] = p[h + 1]
            <4>1. h \in c .. h + 1 BY <2>3, <2>5, <2>11
            <4> QED BY <2>9, <4>1
        <3>8. GoodParams(new, p, h)
            <4>1. h + 1 \in Nat /\ c <= h /\ h <= h + 1 BY <2>3, <2>5, <2>11
            <4>2. new[h] # Nothing /\ new[h].changed = c /\ new[h].value = NoParams
                BY <1>5, <3>2
            <4> QED BY <2>3, <2>5, <3>5, <3>6, <3>7, <4>1, <4>2, ReferGood
        <3>9. CASE x = h BY <3>8, <3>9
        <3>10. CASE x = h + 1 BY <3>5, <3>10
        <3>11. CASE x # h /\ x # h + 1
            <4>1. x # k /\ old[x].changed # k BY <1>3, <1>9, <2>5, <3>11
            <4> QED BY <1>11, <4>1
        <3> QED BY <3>9, <3>10, <3>11
    <2> QED BY <2>3, <2>5, <2>10, <2>11
<1> QED BY <1>10, <1>12, <1>13

\* SaveState makes the record that SaveParams wrote the last of the good ones.
LEMMA SaveStateGood ==
    ASSUME TypeInv, StartInv, ParamsInv, restores = 0, SaveState,
           NEW x \in 1 .. job.state.height + 1
    PROVE  GoodParams(data.paramsInfo, chain.params, x)
<1> DEFINE s == data.state  h == s.height  f == data.paramsInfo  p == chain.params
<1>1. job.pc = "saveState" /\ job.state \in State BY SaveStateParts DEF WellFormed
<1>2. h \in 0 .. MaxHeight /\ s \in State BY TypeFacts
<1>3. \A y \in 1 .. h + 1 : GoodParams(f, p, y) BY DEF ParamsInv
<1>4. /\ f[job.state.height + 1] = NextParamsInfo(job.state)
      /\ job.state.params = p[job.state.height + 1]
    BY <1>1 DEF ParamsInv, Saving
<1>5. job.cmd \in {"node", "create"} BY <1>1 DEF TypeInv, Formed, Saving
<1>6. CASE job.cmd = "create"
    <2>1. RolledBack(job.state, s) BY <1>1, <1>6 DEF StartInv, Apart, Saving
    <2>2. job.state.height = h - 1 BY <2>1 DEF RolledBack
    <2>3. x \in 1 .. h + 1 BY <1>2, <2>2
    <2> QED BY <1>3, <2>3
<1>7. CASE job.cmd = "node"
    <2>1. job.state = NextState(s) BY <1>1, <1>7 DEF StartInv, Apart, Saving
    <2> DEFINE c == s.paramsChanged  updated == p[h + 1 + 1] # p[h + 1]
    <2>2. /\ job.state.height = h + 1
          /\ job.state.paramsChanged = IF updated THEN h + 1 + 1 ELSE c
        BY <2>1 DEF NextState
    <2>3. h \in Nat /\ h + 1 + 1 = h + 2 /\ h + 1 \in Nat /\ h + 2 \in Nat BY <1>2
    <2>4. f[h + 2] # Nothing
        <3>1. NextParamsInfo(job.state) \in ParamsInfo BY <1>1, NextInfoTypes
        <3> QED BY <1>4, <2>2, <2>3, <3>1, Markers
    <2>5. /\ f[h + 2].changed = job.state.paramsChanged
          /\ f[h + 2].value = IF h + 2 = job.state.paramsChanged THEN p[h + 2] ELSE NoParams
        <3>1. NextParamsInfo(job.state).changed = job.state.paramsChanged
              /\ NextParamsInfo(job.state).value =
                    IF job.state.height + 1 = job.state.paramsChanged THEN job.state.params
                                                                     ELSE NoParams
            BY DEF NextParamsInfo
        <3>2. job.state.height + 1 = h + 2 BY <2>2, <2>3
        <3> QED BY <1>4, <3>1, <3>2
    <2>6. GoodParams(f, p, h + 1) BY <1>3, <2>3
    <2>7. f[h + 1].changed = c BY DEF ParamsInv, NextParamsInfo
    <2>8. c \in Nat /\ c <= h + 1
        BY <1>2, <2>6, <2>7, StateFields, Bounds DEF GoodParams
    <2>9. x \in 1 .. h + 1 \/ x = h + 2 BY <2>2, <2>3
    <2> HIDE DEF f, p, c, h
    <2>10. GoodParams(f, p, h + 2)
        <3>1. CASE updated
            <4>1. job.state.paramsChanged = h + 2 BY <2>2, <2>3, <3>1
            <4> QED BY <2>3, <2>4, <2>5, <4>1, OwnGood
        <3>2. CASE ~updated
            <4>1. job.state.paramsChanged = c /\ p[h + 2] = p[h + 1] BY <2>2, <2>3, <3>2
            <4>2. c <= h + 2 /\ h + 2 # c /\ h + 2 = h + 1 + 1 BY <2>3, <2>8
            <4>3. f[h + 2].changed = c /\ f[h + 2].value = NoParams BY <2>5, <4>1, <4>2
            <4> QED BY <2>3, <2>4, <2>6, <2>7, <2>8, <4>1, <4>2, <4>3, ReferGood
        <3> QED BY <3>1, <3>2
    <2> QED BY <1>3, <2>9, <2>10 DEF f, p, h
<1> QED BY <1>5, <1>6, <1>7

LEMMA ParamsStep == TypeInv /\ StartInv /\ ParamsInv /\ [Next]_vars => ParamsInv'
<1> SUFFICES ASSUME TypeInv, StartInv, ParamsInv, [Next]_vars PROVE ParamsInv' OBVIOUS
<1> DEFINE h == data.state.height
<1>1. CASE UNCHANGED vars BY <1>1 DEF vars, ParamsInv, NextParamsInfo, GoodParams
<1>2. CASE Next
    <2> SUFFICES ASSUME restores' = 0 PROVE ParamsInv' BY DEF ParamsInv
    <2>1. Frame BY <1>2, StepFrame
    <2>2. restores = 0 /\ ~Restore
        <3>1. restores \in Nat BY DEF TypeInv, NodeTypeOK
        <3>2. ~Restore BY <3>1 DEF Restore
        <3> QED BY <2>1, <3>2 DEF Frame, DataFrame
    <2>3. chain' = chain BY <2>1 DEF Frame
    <2>4. CASE SaveParams
        <3>1. /\ data'.state = data.state /\ job.state \in State /\ job.pc = "saveParams"
              /\ job.state.height + 1 \in InfoHeight
              /\ data'.paramsInfo =
                    [data.paramsInfo EXCEPT ![job.state.height + 1] = NextParamsInfo(job.state)]
              /\ job' = [job EXCEPT !.pc = "saveState"]
            BY <2>4, SaveParamsParts
        <3>2. job'.pc = "saveState" /\ job'.state = job.state BY <3>1, JobGoesTo DEF JobPc
        <3>3. data.paramsInfo \in [InfoHeight -> ParamsInfo \cup {Nothing}]
            BY TypeFacts, DirectoryFields
        <3>4. data'.paramsInfo[job.state.height + 1] = NextParamsInfo(job.state) BY <3>1, <3>3
        <3>5. \A x \in 1 .. h + 1 : GoodParams(data'.paramsInfo, chain.params, x)
            BY <2>2, <2>4, SaveParamsGood
        <3>6. data'.paramsInfo[h + 1] = NextParamsInfo(data.state)
            <4>1. h + 1 \in InfoHeight /\ h \in Int BY TypeFacts, Bounds
            <4>2. job.state.height + 1 # h + 1
                <5>1. job.cmd \in {"node", "create"} BY <3>1 DEF TypeInv, Formed, Saving
                <5>2. CASE job.cmd = "node"
                    <6>1. job.state = NextState(data.state)
                        BY <3>1, <5>2 DEF StartInv, Apart, Saving
                    <6>2. job.state.height = h + 1 BY <6>1 DEF NextState
                    <6> QED BY <4>1, <6>2
                <5>3. CASE job.cmd = "create"
                    <6>1. RolledBack(job.state, data.state)
                        BY <3>1, <5>3 DEF StartInv, Apart, Saving
                    <6>2. job.state.height = h - 1 BY <6>1 DEF RolledBack
                    <6> QED BY <4>1, <6>2
                <5> QED BY <5>1, <5>2, <5>3
            <4>3. data'.paramsInfo[h + 1] = data.paramsInfo[h + 1] BY <3>1, <3>3, <4>1, <4>2
            <4> QED BY <2>2, <4>3 DEF ParamsInv
        <3>7. /\ NextParamsInfo(data.state)' = NextParamsInfo(data.state)
              /\ NextParamsInfo(job.state)' = NextParamsInfo(job.state)
            BY <3>1, <3>2 DEF NextParamsInfo
        <3>8. /\ job.state.params = chain.params[job.state.height + 1]
              /\ data.state.params = chain.params[h + 1]
            BY <2>2, <3>1 DEF ParamsInv, Saving
        <3> QED BY <2>3, <3>1, <3>2, <3>4, <3>5, <3>6, <3>7, <3>8 DEF ParamsInv
    <2>5. CASE SaveState
        <3>1. /\ data'.state = job.state /\ data'.paramsInfo = data.paramsInfo
              /\ job.pc = "saveState" /\ job'.pc \in {"node", "rollApp"}
            BY <2>5, SaveStateParts
        <3>2. \A x \in 1 .. job.state.height + 1 : GoodParams(data.paramsInfo, chain.params, x)
            BY <2>2, <2>5, SaveStateGood
        <3>3. /\ data.paramsInfo[job.state.height + 1] = NextParamsInfo(job.state)
              /\ job.state.params = chain.params[job.state.height + 1]
            BY <2>2, <3>1 DEF ParamsInv, Saving
        <3>4. NextParamsInfo(data.state)' = NextParamsInfo(job.state) BY <3>1 DEF NextParamsInfo
        <3> QED BY <2>3, <3>1, <3>2, <3>3, <3>4 DEF ParamsInv, Saving
    <2>6. CASE data'.state = data.state /\ data'.paramsInfo = data.paramsInfo /\ ~SaveParams
        <3>1. NextParamsInfo(data.state)' = NextParamsInfo(data.state)
            BY <2>6 DEF NextParamsInfo
        <3>2. job'.pc \in Saving => /\ job'.state.params = chain.params[job'.state.height + 1]
                                    /\ job'.pc # "saveState"
            <4>1. CASE UpdateState \/ Recover
                <5>1. job'.pc # "saveState" BY <4>1, UpdateStateParts, RecoverParts, EmptyTypes
                <5> QED BY <2>2, <4>1, <5>1, SavedParams
            <4>2. CASE SaveVals
                <5>1. job.pc = "saveVals" /\ job' = [job EXCEPT !.pc = "saveParams"]
                    BY <4>2, SaveValsParts
                <5>2. job'.pc = "saveParams" /\ job'.state = job.state
                    BY <5>1, JobGoesTo DEF JobPc
                <5> QED BY <2>2, <5>1, <5>2 DEF ParamsInv, Saving
            <4> QED BY <2>1, <2>6, <4>1, <4>2 DEF Frame, JobFrame
        <3> QED BY <2>2, <2>3, <2>6, <3>1, <3>2 DEF ParamsInv, Saving
    <2> QED BY <2>1, <2>2, <2>4, <2>5, <2>6 DEF Frame, DataFrame
<1> QED BY <1>1, <1>2

LEMMA ParamsHold == Spec => []ParamsInv
<1>1. ParamsInv /\ StartInv /\ TypeInv /\ [Next]_vars => ParamsInv' BY ParamsStep
<1> QED BY <1>1, InitParams, StartHolds, TypesHold, PTL DEF Spec

\* Until a snapshot is restored, the state and LoadConsensusParams name the chain's
\* parameters of every height, also after Recover overwrote the record of a height
\* that later records refer to: it refers no further than the one it replaces.
THEOREM ParamsAlwaysTrue == Spec => []ParamsTrue
<1>1. ParamsInv => ParamsTrue
    <2> SUFFICES ASSUME ParamsInv, restores = 0,
                        NEW h \in 1 .. data.state.height + 1
                 PROVE  /\ data.state.params = chain.params[data.state.height + 1]
                        /\ LoadConsensusParams(data, h) = chain.params[h]
        BY DEF ParamsTrue, ParamsInv
    <2>1. GoodParams(data.paramsInfo, chain.params, h) BY DEF ParamsInv
    <2>2. LoadConsensusParams(data, h) = chain.params[h] BY <2>1, GoodLoads, Zenon
    <2> QED BY <2>2 DEF ParamsInv
<1> QED BY <1>1, ParamsHold, PTL

-----------------------------------------------------------------------------
(* Validators *)

\* What three heights in a row refer to, when the validators changed no later than
\* the first, is one of the three or what the first refers to.
LEMMA StoredSpan ==
    ASSUME NEW r \in Nat, NEW c \in Nat, c <= r, NEW h \in r .. r + 2
    PROVE  c <= h /\ lastStoredHeightFor(h, c) \in (r .. r + 2) \cup {lastStoredHeightFor(r, c)}
<1>1. c <= h OBVIOUS
<1>2. h = r \/ h = r + 1 \/ h = r + 1 + 1 OBVIOUS
<1>3. lastStoredHeightFor(r + 1, c) \in {r + 1, lastStoredHeightFor(r, c)} BY StoredStep
<1>4. lastStoredHeightFor(r + 1 + 1, c) \in {r + 1 + 1, lastStoredHeightFor(r + 1, c)}
    <2>1. r + 1 \in Nat /\ c <= r + 1 OBVIOUS
    <2> QED BY <2>1, StoredStep
<1>5. r + 1 \in r .. r + 2 /\ r + 1 + 1 \in r .. r + 2 OBVIOUS
<1>6. lastStoredHeightFor(h, c) \in (r .. r + 2) \cup {lastStoredHeightFor(r, c)}
    <2>1. CASE h = r BY <2>1
    <2>2. CASE h = r + 1 BY <2>2, <1>3, <1>5
    <2>3. CASE h = r + 1 + 1 BY <2>3, <1>3, <1>4, <1>5
    <2> QED BY <1>2, <2>1, <2>2, <2>3
<1> QED BY <1>1, <1>6

\* A record may be overwritten by one that refers to the same change.
LEMMA RecordKept ==
    ASSUME NEW infos \in [InfoHeight -> ValidatorsInfo \cup {Nothing}], NEW c \in InfoHeight,
           NEW h \in InfoHeight, NEW k \in InfoHeight, NEW i, i # Nothing,
           RecordThere(infos, c, h), k = h /\ c < h => i.changed = c
    PROVE  RecordThere([infos EXCEPT ![k] = i], c, h)
<1> DEFINE g == [infos EXCEPT ![k] = i]  stored == lastStoredHeightFor(h, c)
<1>1. \A y \in InfoHeight : g[y] = IF y = k THEN i ELSE infos[y] OBVIOUS
<1>2. c <= h => stored \in InfoHeight
    <2>1. h \in Nat /\ c \in Nat BY Bounds
    <2>2. stored \in Nat /\ c <= stored /\ (c <= h => stored <= h) BY <2>1, StoredRange
    <2> HIDE DEF stored
    <2> QED BY <2>2, Bounds
<1> HIDE DEF g
<1>3. g[h] # Nothing BY <1>1 DEF RecordThere
<1>4. c < h => g[h].changed = c BY <1>1 DEF RecordThere
<1>5. c <= h => g[stored] # Nothing BY <1>1, <1>2 DEF RecordThere
<1>6. RecordThere(g, c, h) BY <1>3, <1>4, <1>5 DEF RecordThere
<1> QED BY <1>6 DEF g

\* What refers to a change refers to it also after one that is later.
LEMMA RecordBefore ==
    ASSUME NEW infos, NEW h \in Nat, NEW c \in Nat, h < c, infos[h] # Nothing
    PROVE  RecordThere(infos, c, h)
<1>1. ~(c < h) /\ ~(c <= h) OBVIOUS
<1> QED BY <1>1 DEF RecordThere
LEMMA RecordAt ==
    ASSUME NEW infos, NEW h \in Nat, infos[h] # Nothing
    PROVE  RecordThere(infos, h, h)
<1>1. lastStoredHeightFor(h, h) \in Nat /\ h <= lastStoredHeightFor(h, h)
      /\ lastStoredHeightFor(h, h) <= h
    BY StoredRange
<1>2. lastStoredHeightFor(h, h) = h BY <1>1
<1>3. ~(h < h) OBVIOUS
<1> QED BY <1>2, <1>3 DEF RecordThere

\* The next record, which refers to the same change.
LEMMA RecordNext ==
    ASSUME NEW infos, NEW h \in Nat, NEW c \in Nat, c <= h, RecordThere(infos, c, h),
           infos[h + 1] # Nothing, infos[h + 1].changed = c
    PROVE  RecordThere(infos, c, h + 1)
<1>1. lastStoredHeightFor(h + 1, c) \in {h + 1, lastStoredHeightFor(h, c)} BY StoredStep
<1>2. infos[lastStoredHeightFor(h, c)] # Nothing BY DEF RecordThere
<1>3. infos[lastStoredHeightFor(h + 1, c)] # Nothing BY <1>1, <1>2
<1> QED BY <1>3 DEF RecordThere

\* The records of a height and of the next two, with the one they refer to.
LEMMA CopiedRecords ==
    ASSUME NEW f, NEW g, NEW r \in Nat, NEW c \in Nat, c <= r,
           \A h \in r .. r + 2 : RecordThere(f, c, h),
           \A h \in (r .. r + 2) \cup {lastStoredHeightFor(r, c)} : g[h] = f[h]
    PROVE  \A h \in r .. r + 2 : RecordThere(g, c, h)
<1> SUFFICES ASSUME NEW h \in r .. r + 2 PROVE RecordThere(g, c, h) OBVIOUS
<1>1. c <= h /\ lastStoredHeightFor(h, c) \in (r .. r + 2) \cup {lastStoredHeightFor(r, c)}
    BY StoredSpan
<1>2. g[h] = f[h] /\ g[lastStoredHeightFor(h, c)] = f[lastStoredHeightFor(h, c)] BY <1>1
<1>3. RecordThere(f, c, h) OBVIOUS
<1> QED BY <1>2, <1>3 DEF RecordThere

LEMMA InitValidators == Init => ValidatorsInv
<1> SUFFICES ASSUME Init PROVE ValidatorsInv OBVIOUS
<1> DEFINE i == [changed |-> 1, value |-> chain.vals[1]]
           j == [changed |-> 1, value |-> IF 2 % valSetCheckpointInterval = 0
                                            THEN chain.vals[2] ELSE Nothing]
           f == data.valInfo
<1>1. 1 \in InfoHeight /\ 2 \in InfoHeight BY Bounds
<1>2. f = [EmptyDirectory.valInfo EXCEPT ![1] = i, ![2] = j]
    BY DEF Init, GenesisDirectory, EmptyDirectory
<1>3. EmptyDirectory.valInfo \in [InfoHeight -> ValidatorsInfo \cup {Nothing}]
    BY EmptyTypes, DirectoryFields
<1>4. f[1] = i /\ f[2] = j BY <1>1, <1>2, <1>3
<1>5. /\ data.state.height = 0 /\ data.state.valsChanged = 1
      /\ data.state.nextVals = chain.vals[2] /\ data.blocks = {}
    BY DEF Init, GenesisDirectory, EmptyDirectory
<1>6. i # Nothing /\ j # Nothing
    <2>1. chain.vals[1] \in ValidatorSet /\ chain.vals[2] \in ValidatorSet
        BY <1>1, ChainFields DEF Init
    <2>2. i \in ValidatorsInfo /\ j \in ValidatorsInfo BY <1>1, <2>1 DEF ValidatorsInfo
    <2> HIDE DEF i, j
    <2> QED BY <2>2, Markers
<1>7. f[2] = NextValidatorsInfo(data.state)
    BY <1>4, <1>5 DEF NextValidatorsInfo
<1>8. f[1] # Nothing /\ f[2] # Nothing /\ f[2].changed = 1 BY <1>4, <1>6
<1> HIDE DEF f
<1>9. RecordThere(f, 1, 1) BY <1>8, RecordAt
<1>10. RecordThere(f, 1, 2)
    <2>1. f[1 + 1] # Nothing /\ f[1 + 1].changed = 1 BY <1>8
    <2>2. RecordThere(f, 1, 1 + 1) BY <1>9, <2>1, RecordNext
    <2> QED BY <2>2
<1>11. Asked = {1, 2} BY <1>5 DEF Asked
<1>12. RecordsThere(f, data.state, Asked) BY <1>5, <1>7, <1>9, <1>10, <1>11 DEF RecordsThere
<1>13. job.pc = "idle" /\ ~completed BY EmptyTypes DEF Init
<1> QED BY <1>12, <1>13 DEF ValidatorsInv, ValidatorsThere, Copied, f

\* The records of a height are found among those of the heights asked for.
LEMMA AskedFacts ==
    ASSUME TypeInv, StartInv, ValidatorsThere
    PROVE  /\ data.state.height \in 0 .. MaxHeight /\ data.state.valsChanged \in InfoHeight
           /\ data.state.valsChanged <= data.state.height + 2
           /\ data.valInfo \in [InfoHeight -> ValidatorsInfo \cup {Nothing}]
           /\ \A h \in Asked : h \in InfoHeight /\ h <= data.state.height + 2
           /\ \A h \in Asked : RecordThere(data.valInfo, data.state.valsChanged, h)
           /\ data.valInfo[data.state.height + 2] = NextValidatorsInfo(data.state)
           /\ data.state.height > 0 => data.state.height \in Asked
           /\ \A b \in data.blocks : b <= data.state.height + 1
<1>1. /\ data.state.height \in 0 .. MaxHeight /\ data.state.valsChanged \in InfoHeight
      /\ data.valInfo \in [InfoHeight -> ValidatorsInfo \cup {Nothing}]
      /\ data.blocks \subseteq Height
    BY TypeFacts, StateFields, DirectoryFields
<1>2. \A b \in data.blocks : b <= data.state.height + 1
    <2>1. StoreHeight(data) \in {data.state.height, data.state.height + 1}
        BY DEF StartInv, Started, Startable
    <2>2. \A b \in data.blocks : b <= StoreHeight(data) BY <1>1, StoreHeightOf
    <2> QED BY <1>1, <2>1, <2>2 DEF Height
<1>3. \A h \in Asked : h \in InfoHeight /\ h <= data.state.height + 2
    BY <1>1, <1>2, Bounds DEF Asked
<1>4. data.state.height > 0 => data.state.height \in Asked
    BY <1>1 DEF StartInv, Started, Asked
<1>5. /\ data.state.valsChanged <= data.state.height + 2
      /\ \A h \in Asked : RecordThere(data.valInfo, data.state.valsChanged, h)
      /\ data.valInfo[data.state.height + 2] = NextValidatorsInfo(data.state)
    BY DEF ValidatorsThere, RecordsThere
<1> QED BY <1>1, <1>2, <1>3, <1>4, <1>5

\* What ss.Save is about to write.
LEMMA SavedVals ==
    ASSUME TypeInv, StartInv, job.pc \in Saving
    PROVE  /\ NextValidatorsInfo(job.state) # Nothing
           /\ NextValidatorsInfo(job.state).changed = job.state.valsChanged
           /\ job.state \in State
           /\ \/ /\ job.cmd = "node" /\ job.state.height = data.state.height + 1
                 /\ job.state.valsChanged \in {data.state.height + 3, data.state.valsChanged}
              \/ /\ job.cmd = "create" /\ ~completed
                 /\ job.state.height = data.state.height - 1 /\ data.state.height > 0
                 /\ job.state.valsChanged = IF data.state.valsChanged > data.state.height - 1
                                              THEN data.state.height
                                              ELSE data.state.valsChanged
                 /\ \A b \in data.blocks : b <= data.state.height
<1>1. job.state \in State /\ job.cmd \in {"node", "create"}
    BY DEF TypeInv, Formed, WellFormed
<1>2. NextValidatorsInfo(job.state) # Nothing BY <1>1, NextInfoTypes, Markers
<1>3. NextValidatorsInfo(job.state).changed = job.state.valsChanged BY DEF NextValidatorsInfo
<1>4. data.state.height \in 0 .. MaxHeight BY TypeFacts
<1>5. CASE job.cmd = "node"
    <2>1. job.state = NextState(data.state) BY <1>5 DEF StartInv, Apart
    <2>2. /\ job.state.height = data.state.height + 1
          /\ job.state.valsChanged \in {data.state.height + 1 + 2, data.state.valsChanged}
        BY <2>1 DEF NextState
    <2>3. data.state.height + 1 + 2 = data.state.height + 3 BY <1>4
    <2> QED BY <1>1, <1>2, <1>3, <1>5, <2>2, <2>3
<1>6. CASE job.cmd = "create"
    <2>1. /\ RolledBack(job.state, data.state) /\ StoreHeight(data) = data.state.height
          /\ job.height = data.state.height - 1 /\ job.height \in data.blocks
        BY <1>6 DEF StartInv, Apart
    <2>2. data.blocks \subseteq Height BY TypeFacts
    <2>3. \A b \in data.blocks : b <= data.state.height BY <2>1, <2>2, StoreHeightOf
    <2>4. data.state.height > 0 BY <1>4, <2>1, <2>2 DEF Height
    <2>5. /\ job.state.height = data.state.height - 1
          /\ job.state.valsChanged = IF data.state.valsChanged > data.state.height - 1
                                       THEN data.state.height - 1 + 1
                                       ELSE data.state.valsChanged
        BY <2>1 DEF RolledBack
    <2>6. data.state.height - 1 + 1 = data.state.height BY <1>4
    <2>7. ~completed BY <1>6, CreatingNotCompleted
    <2> QED BY <1>1, <1>2, <1>3, <1>6, <2>3, <2>4, <2>5, <2>6, <2>7
<1> QED BY <1>1, <1>5, <1>6

\* SaveVals writes above every height that is asked for, or over the record of the
\* height of the next block, which refers no further than the one it replaces.
LEMMA SaveValsThere ==
    ASSUME TypeInv, StartInv, ValidatorsThere, SaveVals
    PROVE  RecordsThere(data'.valInfo, data.state, Asked)
<1> DEFINE f == data.valInfo  h == data.state.height  c == data.state.valsChanged
           k == job.state.height + 2  i == NextValidatorsInfo(job.state)
<1>1. data'.valInfo = [f EXCEPT ![k] = i] /\ job.pc = "saveVals" /\ k \in InfoHeight
    BY SaveValsParts
<1>2. job.pc \in Saving BY <1>1 DEF Saving
<1>3. i # Nothing /\ i.changed = job.state.valsChanged BY <1>2, SavedVals
<1>4. /\ h \in 0 .. MaxHeight /\ c \in InfoHeight /\ c <= h + 2
      /\ f \in [InfoHeight -> ValidatorsInfo \cup {Nothing}]
      /\ \A x \in Asked : x \in InfoHeight /\ x <= h + 2 /\ RecordThere(f, c, x)
      /\ f[h + 2] = NextValidatorsInfo(data.state)
    BY AskedFacts
<1>5. \/ k = h + 3
      \/ k = h + 1 /\ job.state.valsChanged = IF c > h - 1 THEN h ELSE c
    <2>1. \/ job.state.height = h + 1
          \/ job.state.height = h - 1 /\ job.state.valsChanged = IF c > h - 1 THEN h ELSE c
        BY <1>2, SavedVals
    <2> QED BY <1>4, <2>1
<1>6. k # h + 2 /\ h + 2 \in InfoHeight BY <1>4, <1>5, Bounds
<1>7. ASSUME NEW x \in Asked PROVE RecordThere(data'.valInfo, c, x)
    <2>1. x \in InfoHeight /\ x <= h + 2 /\ RecordThere(f, c, x) BY <1>4
    <2>2. k = x /\ c < x => i.changed = c
        <3>1. SUFFICES ASSUME k = x, c < x PROVE job.state.valsChanged = c BY <1>3
        <3>2. x = h + 1 /\ c \in Int /\ h \in Int BY <1>4, <1>5, <2>1, <3>1, Bounds
        <3>3. c = h \/ ~(c > h - 1) BY <3>1, <3>2
        <3>4. k # h + 3 BY <3>1, <3>2
        <3> QED BY <1>5, <3>3, <3>4
    <2> HIDE DEF f, c, k, i
    <2>3. RecordThere([f EXCEPT ![k] = i], c, x) BY <1>1, <1>3, <1>4, <2>1, <2>2, RecordKept
    <2> QED BY <1>1, <2>3
<1>8. data'.valInfo[h + 2] = f[h + 2] BY <1>1, <1>4, <1>6
<1> QED BY <1>4, <1>7, <1>8 DEF RecordsThere

\* After SaveState of the node the heights asked for end one later, after that of
\* Recover one earlier; a change of validators above is forgotten.
LEMMA SaveStateThere ==
    ASSUME TypeInv, StartInv, ValidatorsThere, SaveState
    PROVE  RecordsThere(data.valInfo, job.state,
                        data.blocks \cup {job.state.height + 1, job.state.height + 2})
<1> DEFINE f == data.valInfo  h == data.state.height  c == data.state.valsChanged
           i == NextValidatorsInfo(job.state)  n == job.state.height  e == job.state.valsChanged
<1>1. job.pc = "saveState" BY SaveStateParts
<1>2. job.pc \in Saving BY <1>1 DEF Saving
<1>3. i # Nothing /\ i.changed = e BY <1>2, SavedVals
<1>4. f[n + 2] = i BY <1>1 DEF ValidatorsThere
<1>5. /\ h \in 0 .. MaxHeight /\ c \in InfoHeight /\ c <= h + 2
      /\ \A x \in Asked : x \in InfoHeight /\ RecordThere(f, c, x)
      /\ h > 0 => h \in Asked
      /\ \A b \in data.blocks : b <= h + 1
    BY AskedFacts
<1>6. h \in Nat /\ c \in Nat /\ \A x \in Asked : x \in Nat BY <1>5, Bounds
<1>7. \A x \in Asked : f[x] # Nothing BY <1>5 DEF RecordThere
<1>8. /\ h + 1 \in Asked /\ h + 2 \in Asked
      /\ \A b \in data.blocks : b \in Asked
    BY DEF Asked
<1> SUFFICES e <= n + 2 /\ \A x \in data.blocks \cup {n + 1, n + 2} : RecordThere(f, e, x)
    BY <1>4 DEF RecordsThere
<1>9. CASE job.cmd = "node"
    <2>1. n = h + 1 /\ e \in {h + 3, c} BY <1>2, <1>9, SavedVals
    <2>2. n + 1 = h + 2 /\ n + 2 = h + 3 /\ h + 2 + 1 = h + 3 BY <1>6, <2>1
    <2>3. f[h + 3] # Nothing /\ f[h + 3].changed = e BY <1>3, <1>4, <2>2
    <2> HIDE DEF f, h, c, n, e, i
    <2>4. e <= h + 3 BY <1>5, <1>6, <2>1
    <2>5. \A x \in data.blocks \cup {h + 2} : x \in Asked /\ x \in Nat /\ x < h + 3
        BY <1>5, <1>6, <1>8
    <2>6. CASE e = h + 3
        <3>1. ASSUME NEW x \in data.blocks \cup {h + 2} PROVE RecordThere(f, e, x)
            <4>1. x \in Nat /\ x < e /\ f[x] # Nothing /\ e \in Nat
                BY <1>6, <1>7, <2>5, <2>6
            <4> QED BY <4>1, RecordBefore
        <3>2. RecordThere(f, e, h + 3)
            <4>1. h + 3 \in Nat BY <1>6
            <4> QED BY <2>3, <2>6, <4>1, RecordAt
        <3> QED BY <2>2, <2>4, <3>1, <3>2
    <2>7. CASE e = c
        <3>1. \A x \in data.blocks \cup {h + 2} : RecordThere(f, e, x) BY <1>5, <2>5, <2>7
        <3>2. RecordThere(f, e, h + 3)
            <4>1. h + 2 \in Nat /\ RecordThere(f, c, h + 2) BY <1>6, <3>1, <2>7
            <4>2. f[h + 2 + 1] # Nothing /\ f[h + 2 + 1].changed = c BY <2>2, <2>3, <2>7
            <4>3. RecordThere(f, c, h + 2 + 1) BY <1>5, <1>6, <4>1, <4>2, RecordNext
            <4> QED BY <2>2, <2>7, <4>3
        <3> QED BY <2>2, <2>4, <3>1, <3>2
    <2> QED BY <2>1, <2>6, <2>7
<1>10. CASE job.cmd = "create"
    <2>1. /\ n = h - 1 /\ h > 0 /\ e = IF c > h - 1 THEN h ELSE c
          /\ \A b \in data.blocks : b <= h
        BY <1>2, <1>10, SavedVals
    <2>2. n + 1 = h /\ n + 2 = h + 1 BY <1>6, <2>1
    <2>3. f[h + 1] # Nothing /\ f[h + 1].changed = e BY <1>3, <1>4, <2>2
    <2> HIDE DEF f, h, c, n, e, i
    <2>4. e \in Nat /\ e <= h BY <1>6, <2>1
    <2>5. \A x \in data.blocks \cup {h} : x \in Asked /\ x \in Nat /\ x <= h
        BY <1>5, <1>6, <1>8, <2>1
    <2>6. ASSUME NEW x \in data.blocks \cup {h} PROVE RecordThere(f, e, x)
        <3>1. x \in Asked /\ x \in Nat /\ x <= h /\ f[x] # Nothing BY <1>7, <2>5
        <3>2. CASE e = c BY <1>5, <3>1, <3>2
        <3>3. CASE e = h /\ x < h BY <1>6, <3>1, <3>3, RecordBefore
        <3>4. CASE e = h /\ x = h BY <3>1, <3>4, RecordAt
        <3>5. e = c \/ e = h BY <2>1
        <3>6. x < h \/ x = h BY <1>6, <3>1
        <3> QED BY <3>2, <3>3, <3>4, <3>5, <3>6
    <2>7. RecordThere(f, e, h + 1) BY <1>6, <2>3, <2>4, <2>6, RecordNext
    <2>8. e <= n + 2 BY <1>6, <2>2, <2>4
    <2> QED BY <2>2, <2>6, <2>7, <2>8
<1> QED BY <1>2, <1>9, <1>10, SavedVals

\* saveValidatorsInfo and newStore.Save together copy the source's records, unless
\* one of the ignored errors was met.
LEMMA StateRecordsCopied ==
    ASSUME TypeInv, StartInv, ValidatorsThere, snapshotState, job'.pc \in Copied,
           "records" \notin swallowed'
    PROVE  RecordsCopied'
<1> DEFINE f == data.valInfo  g == target'.valInfo
           r == data.state.height  c == data.state.valsChanged  l == lastStoredHeightFor(r, c)
<1>1. job'.pc # "idle" BY DEF Copied
<1>2. job' # Idle BY <1>1, EmptyTypes
<1>3. job.pc \in Copying BY DEF snapshotState, Copying
<1>4. job.height = r BY <1>3 DEF StartInv, Apart
<1>5. /\ target'.state = data.state /\ c <= r /\ r \in Height
      /\ \A x \in InfoHeight : g[x] =
            IF x \in {r, r + 1, l} THEN f[x]
            ELSE [target.valInfo EXCEPT ![r + 2] = NextValidatorsInfo(data.state)][x]
    <2>1. /\ target'.state = data.state /\ data.state.valsChanged <= job.height
          /\ job.height \in Height
          /\ LET stored == lastStoredHeightFor(job.height, data.state.valsChanged)
                 saved == [target.valInfo EXCEPT ![data.state.height + 2] =
                                                     NextValidatorsInfo(data.state)]
             IN  \A x \in InfoHeight : target'.valInfo[x] =
                   IF x \in {job.height, job.height + 1, stored} THEN data.valInfo[x] ELSE saved[x]
        BY <1>2, snapshotStateParts
    <2> QED BY <1>4, <2>1
<1>6. /\ r \in Nat /\ r > 0 /\ c \in Nat /\ c \in InfoHeight
      /\ r \in InfoHeight /\ r + 1 \in InfoHeight /\ r + 2 \in InfoHeight
    <2>1. r \in Height BY <1>5
    <2>2. c \in InfoHeight BY AskedFacts
    <2> HIDE DEF r, c
    <2> QED BY <2>1, <2>2, Bounds
<1>7. /\ \A h \in Asked : RecordThere(f, c, h)
      /\ f[r + 2] = NextValidatorsInfo(data.state) /\ r \in Asked
    BY <1>6, AskedFacts
<1>8. \A h \in r .. r + 2 : h = r \/ h = r + 1 \/ h = r + 2 BY <1>6
<1>9. \A h \in r .. r + 2 : RecordThere(f, c, h) BY <1>7, <1>8 DEF Asked
<1>10. l \in InfoHeight
    <2>1. l \in Nat /\ c <= l /\ l <= r BY <1>5, <1>6, StoredRange
    <2> HIDE DEF l
    <2> QED BY <1>6, <2>1, Bounds
<1>11. target.valInfo \in [InfoHeight -> ValidatorsInfo \cup {Nothing}]
    BY TypeFacts, DirectoryFields
<1>12. [target.valInfo EXCEPT ![r + 2] = NextValidatorsInfo(data.state)][r + 2] = f[r + 2]
    BY <1>6, <1>7, <1>11
<1> HIDE DEF l, f, g
<1>13. g[r + 2] = f[r + 2] BY <1>5, <1>6, <1>12
<1>14. \A h \in (r .. r + 2) \cup {l} : g[h] = f[h] BY <1>5, <1>6, <1>8, <1>10, <1>13
<1>15. \A h \in r .. r + 2 : RecordThere(g, c, h)
    <2>1. c <= r BY <1>5
    <2> HIDE DEF r, c
    <2> QED BY <1>6, <1>9, <1>14, <2>1, CopiedRecords DEF l
<1>16. g[r + 2] = NextValidatorsInfo(data.state) /\ c <= r + 2 BY <1>5, <1>6, <1>7, <1>13
<1>17. RecordsThere(g, data.state, r .. r + 2) BY <1>15, <1>16 DEF RecordsThere
<1>18. data' = data BY DEF snapshotState
<1>19. r <= r BY <1>6
<1> QED BY <1>5, <1>14, <1>17, <1>18, <1>19 DEF RecordsCopied, f, g, l

\* The source changes under a complete snapshot only above its heights.
LEMMA RecordsStayCopied ==
    ASSUME TypeInv, StartInv, ValidatorsThere, RecordsCopied, target.state \in State,
           target'.state = target.state, target'.valInfo = target.valInfo,
           data'.state.height \in Int, data.state.height <= data'.state.height,
           \A h \in 1 .. data.state.height + 2 : data'.valInfo[h] = data.valInfo[h]
    PROVE  RecordsCopied'
<1> DEFINE r == target.state.height  c == target.state.valsChanged
<1>1. /\ r \in Int /\ c \in InfoHeight /\ data.state.height \in 0 .. MaxHeight
      /\ c <= r /\ r <= data.state.height
      /\ \A h \in (r .. r + 2) \cup {lastStoredHeightFor(r, c)} :
            target.valInfo[h] = data.valInfo[h]
    <2>1. r \in 0 .. MaxHeight /\ c \in InfoHeight BY StateFields
    <2>2. data.state.height \in 0 .. MaxHeight BY TypeFacts
    <2>3. /\ c <= r /\ r <= data.state.height
          /\ \A h \in (r .. r + 2) \cup {lastStoredHeightFor(r, c)} :
                target.valInfo[h] = data.valInfo[h]
        BY DEF RecordsCopied
    <2>4. r \in Int BY <2>1
    <2> QED BY <2>1, <2>2, <2>3, <2>4
<1>2. r \in Nat /\ c \in Nat /\ 1 <= c BY <1>1, Bounds
<1>3. \A h \in (r .. r + 2) \cup {lastStoredHeightFor(r, c)} : h \in 1 .. data.state.height + 2
    <2>1. /\ lastStoredHeightFor(r, c) \in Nat /\ c <= lastStoredHeightFor(r, c)
          /\ lastStoredHeightFor(r, c) <= r
        BY <1>1, <1>2, StoredRange
    <2> QED BY <1>1, <1>2, <2>1
<1>4. \A h \in (r .. r + 2) \cup {lastStoredHeightFor(r, c)} :
         target'.valInfo[h] = data'.valInfo[h]
    BY <1>1, <1>3
<1>5. r <= data'.state.height BY <1>1
<1>6. RecordsThere(target.valInfo, target.state, r .. r + 2) BY DEF RecordsCopied
<1> QED BY <1>1, <1>4, <1>5, <1>6 DEF RecordsCopied

\* What the records of the data directory are after a step that does not go on from
\* a flawed snapshot.
LEMMA RecordsStep ==
    ASSUME TypeInv, StartInv, ValidatorsThere, Next, ~flawed'
    PROVE  RecordsThere(data'.valInfo, data'.state,
                        data'.blocks \cup {data'.state.height + 1, data'.state.height + 2})
<1>1. Frame BY StepFrame
<1>2. CASE Restore
    <2> DEFINE r == target.state.height
    <2>1. /\ data' = target /\ completed /\ target.blocks = {r}
          /\ "records" \notin swallowed
        BY <1>2, Zenon DEF Restore
    <2>2. RecordsThere(target.valInfo, target.state, r .. r + 2)
        BY <2>1 DEF ValidatorsThere, RecordsCopied
    <2>3. r \in Int BY <2>1, StateFields DEF TypeInv, Formed, WellFormed
    <2>4. {r} \cup {r + 1, r + 2} = r .. r + 2 BY <2>3
    <2> QED BY <2>1, <2>2, <2>4
<1>3. CASE SaveVals
    <2>1. data'.blocks = data.blocks /\ data'.state = data.state BY <1>3, SaveValsParts
    <2> QED BY <1>3, <2>1, SaveValsThere DEF Asked
<1>4. CASE SaveState
    <2>1. /\ data'.blocks = data.blocks /\ data'.state = job.state
          /\ data'.valInfo = data.valInfo
        BY <1>4, SaveStateParts
    <2> QED BY <1>4, <2>1, SaveStateThere
<1>5. CASE SaveBlock
    <2>1. /\ data'.blocks = data.blocks \cup {data.state.height + 1}
          /\ data'.state = data.state /\ data'.valInfo = data.valInfo
        BY <1>5, SaveBlockParts
    <2>2. data'.blocks \cup {data'.state.height + 1, data'.state.height + 2} = Asked
        BY <2>1 DEF Asked
    <2> QED BY <2>1, <2>2 DEF ValidatorsThere
<1>6. CASE /\ data'.blocks = data.blocks /\ data'.state = data.state
           /\ data'.valInfo = data.valInfo
    BY <1>6 DEF ValidatorsThere, Asked
<1> QED BY <1>1, <1>2, <1>3, <1>4, <1>5, <1>6 DEF Frame, DataFrame

\* What the target has of them after a step.
LEMMA CopyStays ==
    ASSUME TypeInv, StartInv, ValidatorsThere, Next, job'.pc \in Copied \/ completed',
           "records" \notin swallowed'
    PROVE  RecordsCopied'
<1>1. Frame BY StepFrame
<1>2. TypeInv' BY TypesStep
<1>3. data.state.height \in 0 .. MaxHeight /\ data'.state.height \in Int
    <2>1. data'.state \in State BY <1>2 DEF TypeInv, Formed, WellFormed
    <2>2. data'.state.height \in 0 .. MaxHeight BY <2>1, StateFields
    <2> QED BY <2>2, TypeFacts
<1>4. CASE snapshotState /\ job'.pc \in Copied BY <1>4, StateRecordsCopied
<1>5. CASE /\ job.pc \in Copied /\ data' = data /\ swallowed \subseteq swallowed'
           /\ target'.state = target.state /\ target'.valInfo = target.valInfo
    <2>1. RecordsCopied BY <1>5 DEF ValidatorsThere
    <2>2. target.state \in State BY <1>5 DEF TypeInv, Formed, WellFormed
    <2>3. data.state.height <= data'.state.height BY <1>3, <1>5
    <2> QED BY <1>3, <1>5, <2>1, <2>2, <2>3, RecordsStayCopied
<1>6. CASE copyUpgradeInfo
    <2>1. job.pc = "upgrade" /\ data' = data /\ swallowed' = swallowed
        BY <1>6 DEF copyUpgradeInfo
    <2>2. target'.state = target.state /\ target'.valInfo = target.valInfo
        BY <1>6, copyFilesParts
    <2> QED BY <1>5, <2>1, <2>2 DEF Copied
<1>7. CASE /\ completed /\ completed' /\ swallowed' = swallowed
           /\ target'.state = target.state /\ target'.valInfo = target.valInfo
    <2>1. RecordsCopied BY <1>7 DEF ValidatorsThere
    <2>2. target.state \in State /\ job.cmd # "create"
        BY <1>7 DEF TypeInv, Formed, WellFormed
    <2>3. ~Restore BY <1>7 DEF Restore
    <2>4. data.state.height <= data'.state.height
        <3>1. CASE SaveState
            <4>1. job.pc = "saveState" /\ data'.state = job.state BY <3>1, SaveStateParts
            <4>2. job.state.height = data.state.height + 1
                BY <2>2, <4>1, SavedVals DEF Saving
            <4> QED BY <1>3, <4>1, <4>2
        <3>2. CASE data'.state = data.state BY <1>3, <3>2
        <3> QED BY <1>1, <2>3, <3>1, <3>2 DEF Frame, DataFrame
    <2>5. \A h \in 1 .. data.state.height + 2 : data'.valInfo[h] = data.valInfo[h]
        <3>1. CASE SaveVals
            <4> DEFINE k == job.state.height + 2
            <4>1. /\ job.pc = "saveVals" /\ k \in InfoHeight
                  /\ data'.valInfo = [data.valInfo EXCEPT ![k] = NextValidatorsInfo(job.state)]
                BY <3>1, SaveValsParts
            <4>2. job.state.height = data.state.height + 1
                BY <2>2, <4>1, SavedVals DEF Saving
            <4>3. data.valInfo \in [InfoHeight -> ValidatorsInfo \cup {Nothing}]
                BY TypeFacts, DirectoryFields
            <4>4. \A h \in 1 .. data.state.height + 2 : h \in InfoHeight /\ h # k
                BY <1>3, <4>2, Bounds
            <4> QED BY <4>1, <4>3, <4>4
        <3>2. CASE data'.valInfo = data.valInfo BY <3>2
        <3> QED BY <1>1, <2>3, <3>1, <3>2 DEF Frame, DataFrame
    <2> QED BY <1>3, <1>7, <2>1, <2>2, <2>4, <2>5, RecordsStayCopied
<1> QED BY <1>1, <1>4, <1>5, <1>6, <1>7 DEF Frame, TargetFrame, JobFrame

LEMMA ValidatorsStep == TypeInv /\ StartInv /\ ValidatorsInv /\ [Next]_vars => ValidatorsInv'
<1> SUFFICES ASSUME TypeInv, StartInv, ValidatorsInv, [Next]_vars PROVE ValidatorsInv' OBVIOUS
<1>1. CASE UNCHANGED vars
    BY <1>1 DEF vars, ValidatorsInv, ValidatorsThere, RecordsThere, RecordsCopied,
                RecordThere, Asked, NextValidatorsInfo
<1>2. CASE Next
    <2> SUFFICES ASSUME ~flawed' PROVE ValidatorsThere' BY DEF ValidatorsInv
    <2>1. Frame BY <1>2, StepFrame
    <2>2. ValidatorsThere BY <2>1, Zenon DEF Frame, DataFrame, ValidatorsInv
    <2>3. RecordsThere(data.valInfo, data.state, Asked)'
        BY <1>2, <2>2, RecordsStep DEF Asked
    <2>4. job'.pc \in {"saveParams", "saveState"} =>
             data'.valInfo[job'.state.height + 2] = NextValidatorsInfo(job'.state)
        <3>1. SUFFICES ASSUME job'.pc \in {"saveParams", "saveState"}
                       PROVE  data'.valInfo[job'.state.height + 2] = NextValidatorsInfo(job'.state)
            OBVIOUS
        <3>2. SaveVals \/ SaveParams
            <4>1. ~UpdateState /\ ~Recover BY <3>1, UpdateStateParts, RecoverParts, EmptyTypes
            <4> QED BY <2>1, <3>1, <4>1 DEF Frame, JobFrame, Saving
        <3>3. CASE SaveVals
            <4>1. /\ job.state.height + 2 \in InfoHeight
                  /\ data'.valInfo = [data.valInfo EXCEPT ![job.state.height + 2] =
                                                             NextValidatorsInfo(job.state)]
                  /\ job' = [job EXCEPT !.pc = "saveParams"]
                BY <3>3, SaveValsParts
            <4>2. job'.state = job.state BY <4>1, JobGoesTo DEF JobPc
            <4>3. data.valInfo \in [InfoHeight -> ValidatorsInfo \cup {Nothing}]
                BY TypeFacts, DirectoryFields
            <4> QED BY <4>1, <4>2, <4>3
        <3>4. CASE SaveParams
            <4>1. /\ data'.valInfo = data.valInfo /\ job.pc = "saveParams"
                  /\ job' = [job EXCEPT !.pc = "saveState"]
                BY <3>4, SaveParamsParts
            <4>2. job'.state = job.state BY <4>1, JobGoesTo DEF JobPc
            <4> QED BY <2>2, <4>1, <4>2 DEF ValidatorsThere
        <3> QED BY <3>2, <3>3, <3>4
    <2>5. (job'.pc \in Copied \/ completed') /\ "records" \notin swallowed' => RecordsCopied'
        BY <1>2, <2>2, CopyStays
    <2> QED BY <2>3, <2>4, <2>5 DEF ValidatorsThere
<1> QED BY <1>1, <1>2

LEMMA ValidatorsHold == Spec => []ValidatorsInv
<1>1. ValidatorsInv /\ StartInv /\ TypeInv /\ [Next]_vars => ValidatorsInv' BY ValidatorsStep
<1> QED BY <1>1, InitValidators, StartHolds, TypesHold, PTL DEF Spec

\* Whatever was rolled back, restored and interrupted before, loadValidatorsInfo
\* finds the three records that saveValidatorsInfo copies, also the one at the last
\* change or checkpoint that the height's own record refers to, unless the directory
\* came from a flawed snapshot.
THEOREM ValidatorRecordsKept == Spec => []ValidatorRecordsThere
<1>1. TypeInv /\ StartInv /\ ValidatorsInv => ValidatorRecordsThere
    <2> SUFFICES ASSUME TypeInv, StartInv, ValidatorsThere, job.pc = "state",
                        data.state.valsChanged <= job.height,
                        NEW h \in {job.height, job.height + 1,
                                   lastStoredHeightFor(job.height, data.state.valsChanged)}
                 PROVE  data.valInfo[h] # Nothing
        BY DEF ValidatorRecordsThere, ValidatorsInv
    <2> DEFINE r == data.state.height  c == data.state.valsChanged
    <2>1. job.height = r /\ r \in target.blocks
        BY DEF StartInv, Apart, Snapped, BlockCopied, Copying
    <2>2. r \in Height BY <2>1, TypeFacts
    <2>3. r \in Asked /\ r + 1 \in Asked BY <2>2, AskedFacts, Bounds DEF Asked
    <2>4. RecordThere(data.valInfo, c, r) /\ RecordThere(data.valInfo, c, r + 1)
        BY <2>3, AskedFacts
    <2>5. /\ data.valInfo[r] # Nothing /\ data.valInfo[r + 1] # Nothing
          /\ data.valInfo[lastStoredHeightFor(r, c)] # Nothing
        BY <2>1, <2>4 DEF RecordThere
    <2> QED BY <2>1, <2>5
<1> QED BY <1>1, ValidatorsHold, StartHolds, TypesHold, PTL

\* What LoadValidators answers of the heights of a snapshot depends on the records
\* that were copied only.
LEMMA SameValidators ==
    ASSUME NEW d, NEW e, NEW r \in Nat, NEW c \in Nat, c <= r, NEW h \in r .. r + 2,
           \A x \in r .. r + 2 : RecordThere(d.valInfo, c, x),
           \A x \in (r .. r + 2) \cup {lastStoredHeightFor(r, c)} : d.valInfo[x] = e.valInfo[x],
           e.valInfo[lastStoredHeightFor(r, c)].value # Nothing
    PROVE  LoadValidators(d, h) = LoadValidators(e, h)
<1>1. d.valInfo[h] = e.valInfo[h] OBVIOUS
<1>2. CASE c < h
    <2>1. d.valInfo[h].changed = c BY <1>2 DEF RecordThere
    <2>2. lastStoredHeightFor(h, c) \in (r .. r + 2) \cup {lastStoredHeightFor(r, c)}
        BY StoredSpan
    <2>3. d.valInfo[lastStoredHeightFor(h, c)] = e.valInfo[lastStoredHeightFor(h, c)] BY <2>2
    <2> QED BY <1>1, <2>1, <2>3 DEF LoadValidators
<1>3. CASE ~(c < h)
    <2>1. c = r /\ h = r BY <1>3
    <2>2. lastStoredHeightFor(r, r) \in Nat /\ r <= lastStoredHeightFor(r, r)
          /\ lastStoredHeightFor(r, r) <= r
        BY StoredRange
    <2>3. lastStoredHeightFor(r, r) = r BY <2>2
    <2>4. e.valInfo[h].value # Nothing BY <2>1, <2>3
    <2> QED BY <1>1, <2>4 DEF LoadValidators
<1> QED BY <1>2, <1>3

\* A snapshot that was reported complete is of one height: its last block, state,
\* responses and signed height agree, whatever happened to both directories before
\* and after and whatever errors snapshotState, snapshotCsWAL, copyFile and
\* rollBackApplication ignored on the way.  Each of these costs one more thing and no
\* other: the application is of that height, or one ahead, and a node can start from
\* it as far as its rollback and its copy succeeded, the WAL has the mark of the
\* height if it was read to the end, and LoadValidators answers from the snapshot
\* what it answers from the source if the records were written.
THEOREM SnapshotsConsistent == Spec => []SnapshotConsistent
<1>1. TypeInv /\ StartInv /\ ValidatorsInv => SnapshotConsistent
    <2> SUFFICES ASSUME TypeInv, StartInv, ValidatorsInv, completed PROVE SnapshotConsistent
        BY DEF SnapshotConsistent
    <2> DEFINE r == target.state.height  c == target.state.valsChanged
    <2>1. /\ r \in target.blocks /\ StoreHeight(target) = r /\ r \in target.abci
          /\ target.priv = r /\ ("wal" \notin swallowed => r \in target.wal)
        BY DEF StartInv, Snapped, StateCopied, BlockCopied, WALCopied
    <2>2. r \in Height BY <2>1, TypeFacts
    <2>3. "copy" \notin swallowed =>
             /\ target.app.latest \in {r, r + 1}
             /\ target.app.latest = r \/ "rollApp" \in swallowed
        BY DEF StartInv, Snapped
    <2>4. swallowed \cap {"rollApp", "copy"} = {} => target.app.latest = r /\ Startable(target)
        <3> SUFFICES ASSUME "rollApp" \notin swallowed, "copy" \notin swallowed
                     PROVE  target.app.latest = r /\ Startable(target)
            OBVIOUS
        <3>1. target.app.latest = r BY <2>3
        <3>2. ~(target.app.latest > r) BY <2>2, <3>1 DEF Height
        <3> QED BY <2>1, <3>1, <3>2 DEF Startable
    <2>5. ASSUME "records" \notin swallowed, ~flawed,
                 data.valInfo[lastStoredHeightFor(r, c)].value # Nothing
          PROVE  \A h \in r .. r + 2 : LoadValidators(target, h) = LoadValidators(data, h)
        <3>1. RecordsCopied BY <2>5 DEF ValidatorsInv, ValidatorsThere
        <3>2. /\ c <= r /\ \A h \in r .. r + 2 : RecordThere(target.valInfo, c, h)
              /\ \A h \in (r .. r + 2) \cup {lastStoredHeightFor(r, c)} :
                    target.valInfo[h] = data.valInfo[h]
            BY <3>1 DEF RecordsCopied, RecordsThere
        <3>3. r \in Nat /\ c \in Nat
            <4>1. target.state \in State BY DEF TypeInv, Formed, WellFormed
            <4>2. c \in InfoHeight BY <4>1, StateFields
            <4> QED BY <2>2, <4>2, Bounds
        <3> HIDE DEF r, c
        <3> QED BY <2>5, <3>2, <3>3, SameValidators
    <2> HIDE DEF r, c
    <2> QED BY <2>1, <2>3, <2>4, <2>5 DEF SnapshotConsistent, r, c
<1> QED BY <1>1, ValidatorsHold, StartHolds, TypesHold, PTL

=============================================================================
