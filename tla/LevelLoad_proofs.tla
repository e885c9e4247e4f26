-------------------------- MODULE LevelLoad_proofs --------------------------
(***************************************************************************)
(* Proofs about LevelLoad, for any levels, objects and link times.         *)
(***************************************************************************)
EXTENDS LevelLoad, FiniteSetTheorems, TLAPS

-----------------------------------------------------------------------------
(* Types: game's, and those of its parts. *)
Names == Levels \cup Missing \cup {NoLevel}
Objects == {o \in Levels \X Nat : o[2] \in 1 .. NumObjs[o[1]]}
ObjTypes == Objects \cup {NoObj}
SlotTypes ==
  [status : Statuses, name : Names, display : BOOLEAN, linking : BOOLEAN, current : Nat,
   bsp : Levels \cup {NoLevel}, ran : Seq((Levels \X Nat) \cup {NoObj}), login : Nat]
LinkerTypes == [obj : ObjTypes, to : Slots, left : Nat]
RpcTypes == [busy : BOOLEAN, fno : {"LOAD", "NEXT"}, level : Names, to : Slots, top : Nat,
             result : {"DONE", "MORE", "ERROR"}, obj : ObjTypes]
IopTypes == [file : Levels \cup {NoLevel}, given : Nat]
TopTypes == [obj : ObjTypes, pos : Nat]
GameTypes ==
  [lev : [Slots -> SlotTypes], loadingLevel : Slots \cup {NoSlot}, linker : LinkerTypes,
   relocate : BOOLEAN, rpc : RpcTypes, received : BOOLEAN, iop : IopTypes,
   atTop : [Slots -> TopTypes]]

(* The IOP has not given the last object of the open file yet; a file is   *)
(* asked for by the name of a level.                                       *)
GameOK(g) ==
  /\ g \in GameTypes
  /\ g.iop.file # NoLevel => g.iop.given < NumObjs[g.iop.file]
  /\ g.rpc.fno = "LOAD" => g.rpc.level \in Levels \cup Missing

LEMMA ObjectFacts ==
  ASSUME NEW l \in Levels, NEW n \in Nat, n \in 1 .. NumObjs[l]
  PROVE  <<l, n>> \in Objects /\ <<l, n>> \in ObjTypes
BY DEF Objects, ObjTypes

LEMMA LevelFacts ==
  ASSUME NEW l \in Levels
  PROVE  /\ l # NoLevel /\ l \notin Missing /\ l \in Names
         /\ NumObjs[l] \in Nat /\ NumObjs[l] >= 2
         /\ Tex[l] \in Nat /\ Tex[l] + 1 < NumObjs[l]
         /\ \A n \in 1 .. NumObjs[l] : Work[l][n] \in Nat
<1>1. /\ NumObjs[l] \in Nat \ {0} /\ Tex[l] \in Nat /\ Tex[l] + 1 < NumObjs[l]
      /\ Work[l] \in Seq(Nat) /\ Len(Work[l]) = NumObjs[l]
      /\ l # NoLevel /\ l \notin Missing
  BY LevelAssumption
<1>2. \A n \in 1 .. NumObjs[l] : Work[l][n] \in Nat
  BY <1>1
<1> QED BY <1>1, <1>2 DEF Names

LEMMA SlotFacts ==
  ASSUME NEW g, g \in GameTypes, NEW s \in Slots
  PROVE  /\ g.lev[s] \in SlotTypes
         /\ g.lev[s].status \in Statuses /\ g.lev[s].name \in Names
         /\ g.lev[s].linking \in BOOLEAN /\ g.lev[s].current \in Nat
         /\ g.lev[s].bsp \in Levels \cup {NoLevel}
         /\ g.lev[s].ran \in Seq((Levels \X Nat) \cup {NoObj}) /\ g.lev[s].login \in Nat
         /\ g.lev[s].display \in BOOLEAN
<1>1. g.lev[s] \in SlotTypes
  BY DEF GameTypes
<1> QED BY <1>1 DEF SlotTypes

-----------------------------------------------------------------------------
(* The IOP serves a request. *)

(* What a served request leaves alone. *)
SameLoad(g, h) ==
  /\ h.lev = g.lev /\ h.loadingLevel = g.loadingLevel /\ h.linker = g.linker
  /\ h.relocate = g.relocate

LEMMA DeliverFacts ==
  ASSUME NEW g, GameOK(g), NEW l \in Levels, NEW n \in Nat, n \in 1 .. NumObjs[l]
  PROVE  LET h == Deliver(g, l, n) IN
         /\ GameOK(h)
         /\ SameLoad(g, h) /\ h.received = g.received
         /\ ~h.rpc.busy /\ h.rpc.obj = <<l, n>>
         /\ n # NumObjs[l] => h.rpc.result = "MORE" /\ h.iop.file = l /\ h.iop.given = n
         /\ n = NumObjs[l] => h.rpc.result = "DONE"
<1> DEFINE last == n = NumObjs[l]
           h == Deliver(g, l, n)
           rpc == [g.rpc EXCEPT !.busy = FALSE, !.result = IF last THEN "DONE" ELSE "MORE",
                     !.obj = <<l, n>>]
           iop == IF last THEN [file |-> NoLevel, given |-> 0] ELSE [file |-> l, given |-> n]
           top == IF last THEN [obj |-> <<l, n>>, pos |-> g.rpc.top] ELSE g.atTop[g.rpc.to]
           atTop == [g.atTop EXCEPT ![g.rpc.to] = top]
<1>1. g \in GameTypes /\ g.rpc \in RpcTypes /\ g.atTop \in [Slots -> TopTypes]
  BY DEF GameOK, GameTypes
<1>2. g.rpc.to \in Slots /\ g.rpc.top \in Nat
  BY <1>1 DEF RpcTypes
<1>3. <<l, n>> \in ObjTypes /\ l # NoLevel /\ NumObjs[l] \in Nat
  BY ObjectFacts, LevelFacts
<1>4. h = [g EXCEPT !.rpc = rpc, !.iop = iop, !.atTop = atTop]
  BY <1>1 DEF Deliver, GameTypes, RpcTypes
<1>5. rpc \in RpcTypes /\ rpc.fno = g.rpc.fno /\ rpc.level = g.rpc.level
  BY <1>1, <1>3 DEF RpcTypes
<1>6. iop \in IopTypes /\ (iop.file # NoLevel => iop.given < NumObjs[iop.file])
  BY <1>3 DEF IopTypes
<1>7. atTop \in [Slots -> TopTypes] /\ atTop[g.rpc.to] = top
  BY <1>1, <1>2, <1>3 DEF TopTypes
<1> HIDE DEF rpc, iop, atTop, h
<1>8. /\ h.lev = g.lev /\ h.loadingLevel = g.loadingLevel /\ h.linker = g.linker
      /\ h.relocate = g.relocate /\ h.received = g.received
      /\ h.rpc = rpc /\ h.iop = iop /\ h.atTop = atTop
      /\ h \in GameTypes
  BY <1>1, <1>4, <1>5, <1>6, <1>7 DEF GameTypes
<1>9. GameOK(h)
  BY <1>5, <1>6, <1>8 DEF GameOK
<1>10. /\ ~rpc.busy /\ rpc.obj = <<l, n>>
       /\ rpc.result = IF n = NumObjs[l] THEN "DONE" ELSE "MORE"
  BY <1>1 DEF rpc, RpcTypes
<1> QED BY <1>7, <1>8, <1>9, <1>10 DEF iop, h, SameLoad

(* The last object goes to the heap top the request gave. *)
AtTop(h, s, o, pos) == h.atTop[s].obj = o /\ h.atTop[s].pos = pos

LEMMA DeliverLast ==
  ASSUME NEW g, GameOK(g), NEW l \in Levels, NEW n \in Nat, n = NumObjs[l]
  PROVE  AtTop(Deliver(g, l, n), g.rpc.to, <<l, n>>, g.rpc.top)
<1> DEFINE s == g.rpc.to
<1>1. g \in GameTypes /\ g.atTop \in [Slots -> TopTypes] /\ s \in Slots
  BY DEF GameOK, GameTypes, RpcTypes
<1>2. Deliver(g, l, n).atTop = [g.atTop EXCEPT ![s] = [obj |-> <<l, n>>, pos |-> g.rpc.top]]
  BY <1>1 DEF Deliver, GameTypes
<1>3. Deliver(g, l, n).atTop[s] = [obj |-> <<l, n>>, pos |-> g.rpc.top]
  BY <1>1, <1>2
<1> QED BY <1>3 DEF AtTop

LEMMA RefuseFacts ==
  ASSUME NEW g, GameOK(g)
  PROVE  LET h == Refuse(g) IN
         /\ GameOK(h) /\ SameLoad(g, h) /\ h.received = g.received
         /\ ~h.rpc.busy /\ h.rpc.result = "ERROR" /\ h.iop = g.iop
         /\ h.rpc.fno = g.rpc.fno /\ h.rpc.level = g.rpc.level
<1> DEFINE rpc == [g.rpc EXCEPT !.busy = FALSE, !.result = "ERROR"]
           h == Refuse(g)
<1>1. g \in GameTypes /\ g.rpc \in RpcTypes
  BY DEF GameOK, GameTypes
<1>2. h = [g EXCEPT !.rpc = rpc]
  BY <1>1 DEF Refuse, GameTypes, RpcTypes
<1>3. /\ rpc \in RpcTypes /\ rpc.fno = g.rpc.fno /\ rpc.level = g.rpc.level
      /\ ~rpc.busy /\ rpc.result = "ERROR"
  BY <1>1 DEF RpcTypes
<1> HIDE DEF rpc, h
<1>4. /\ h \in GameTypes /\ h.rpc = rpc /\ h.iop = g.iop /\ SameLoad(g, h)
      /\ h.received = g.received
  BY <1>1, <1>2, <1>3 DEF GameTypes, SameLoad
<1> QED BY <1>3, <1>4 DEF GameOK, h

LEMMA ServedFacts ==
  ASSUME NEW g, GameOK(g)
  PROVE  LET h == Served(g) IN
         /\ GameOK(h) /\ SameLoad(g, h) /\ h.received = g.received /\ ~h.rpc.busy
<1>1. g \in GameTypes /\ g.rpc \in RpcTypes /\ g.iop \in IopTypes
  BY DEF GameOK, GameTypes
<1>2. CASE ~g.rpc.busy
  BY <1>2 DEF Served, SameLoad
<1>3. CASE g.rpc.busy /\ Served(g) = Refuse(g)
  BY <1>3, RefuseFacts
<1>4. ASSUME NEW l \in Levels, NEW n \in Nat, n \in 1 .. NumObjs[l], Served(g) = Deliver(g, l, n)
      PROVE  LET h == Served(g) IN
             GameOK(h) /\ SameLoad(g, h) /\ h.received = g.received /\ ~h.rpc.busy
  BY <1>4, DeliverFacts
<1>5. CASE g.rpc.busy /\ g.rpc.fno = "LOAD"
  <2>1. CASE g.rpc.level \in Missing
    BY <1>3, <1>5, <2>1 DEF Served, LoadDGO
  <2>2. CASE g.rpc.level \notin Missing
    <3>1. g.rpc.level \in Levels /\ 1 \in 1 .. NumObjs[g.rpc.level]
      BY <1>5, <2>2, LevelFacts DEF GameOK
    <3>2. Served(g) = Deliver(g, g.rpc.level, 1)
      BY <1>5, <2>2 DEF Served, LoadDGO
    <3> QED BY <1>4, <3>1, <3>2
  <2> QED BY <2>1, <2>2
<1>6. CASE g.rpc.busy /\ g.rpc.fno # "LOAD"
  <2>1. CASE g.iop.file = NoLevel
    BY <1>3, <1>6, <2>1 DEF Served, LoadNextDGO
  <2>2. CASE g.iop.file # NoLevel
    <3>1. /\ g.iop.file \in Levels /\ g.iop.given \in Nat
          /\ g.iop.given < NumObjs[g.iop.file]
      BY <1>1, <2>2 DEF GameOK, IopTypes
    <3>2. g.iop.given + 1 \in Nat /\ g.iop.given + 1 \in 1 .. NumObjs[g.iop.file]
      BY <3>1, LevelFacts
    <3>3. Served(g) = Deliver(g, g.iop.file, g.iop.given + 1)
      BY <1>6, <2>2 DEF Served, LoadNextDGO
    <3> QED BY <1>4, <3>1, <3>2, <3>3
  <2> QED BY <2>1, <2>2
<1> QED BY <1>2, <1>5, <1>6

(* A new request: the last one is answered, this one is under way. *)
LEMMA CallFacts ==
  ASSUME NEW g, GameOK(g), NEW s \in Slots, NEW fno, NEW l,
         \/ fno = "LOAD" /\ l \in Levels \cup Missing
         \/ fno = "NEXT" /\ l = NoLevel
  PROVE  LET h == call(g, fno, l, s) IN
         /\ GameOK(h) /\ SameLoad(g, h) /\ h.received /\ h.rpc.busy
         /\ h.rpc.fno = fno /\ h.rpc.level = l /\ h.rpc.to = s
         /\ h.rpc.top = g.lev[s].current
         /\ ~g.rpc.busy => h.iop = g.iop
<1> DEFINE sv == Served(g)
           rpc == [sv.rpc EXCEPT !.busy = TRUE, !.fno = fno, !.level = l, !.to = s,
                                 !.top = sv.lev[s].current]
           h == call(g, fno, l, s)
<1>1. /\ GameOK(sv) /\ SameLoad(g, sv) /\ sv.received = g.received
      /\ ~g.rpc.busy => sv = g
  BY ServedFacts DEF Served
<1>2. h = [sv EXCEPT !.rpc = rpc, !.received = TRUE]
  BY DEF call
<1> HIDE DEF sv, h
<1>3. sv \in GameTypes /\ sv.rpc \in RpcTypes
  BY <1>1 DEF GameOK, GameTypes
<1>4. sv.lev[s].current \in Nat /\ sv.lev[s].current = g.lev[s].current
  BY <1>1, <1>3, SlotFacts DEF SameLoad
<1>5. l \in Names
  BY DEF Names
<1>6. /\ rpc \in RpcTypes /\ rpc.busy = TRUE /\ rpc.fno = fno /\ rpc.level = l /\ rpc.to = s
      /\ rpc.top = g.lev[s].current
  BY <1>3, <1>4, <1>5 DEF RpcTypes
<1> HIDE DEF rpc
<1>7. /\ h \in GameTypes /\ h.rpc = rpc /\ h.received = TRUE /\ h.iop = sv.iop
      /\ SameLoad(sv, h)
  BY <1>2, <1>3, <1>6 DEF GameTypes, SameLoad
<1>8. GameOK(h)
  BY <1>1, <1>6, <1>7 DEF GameOK
<1> QED BY <1>1, <1>6, <1>7, <1>8 DEF SameLoad, h

-----------------------------------------------------------------------------
(* The linker. *)
SameChannel(g, h) ==
  /\ h.rpc = g.rpc /\ h.received = g.received /\ h.iop = g.iop /\ h.atTop = g.atTop

(* What linking leaves alone of a slot. *)
SameSlot(L, M) ==
  /\ M.status = L.status /\ M.name = L.name /\ M.display = L.display
  /\ M.linking = L.linking /\ M.login = L.login

(* The game with a slot, and with the fields that belong to no slot, replaced. *)
PutSlot(g, s, L) == [g EXCEPT !.lev[s] = L]
PutShared(g, relocate, linker, loading) ==
  [g EXCEPT !.relocate = relocate, !.linker = linker, !.loadingLevel = loading]

LEMMA SlotSet ==
  ASSUME NEW g, GameOK(g), NEW s \in Slots, NEW L \in SlotTypes
  PROVE  LET h == PutSlot(g, s, L) IN
         /\ GameOK(h) /\ SameChannel(g, h) /\ h.relocate = g.relocate
         /\ h.linker = g.linker /\ h.loadingLevel = g.loadingLevel
         /\ h.lev[s] = L /\ \A t \in Slots : t # s => h.lev[t] = g.lev[t]
<1> DEFINE h == PutSlot(g, s, L)
<1>1. h = [g EXCEPT !.lev = [g.lev EXCEPT ![s] = L]] /\ g \in GameTypes
  BY DEF GameOK, PutSlot
<1> HIDE DEF h
<1>2. /\ h \in GameTypes /\ SameChannel(g, h) /\ h.relocate = g.relocate
      /\ h.linker = g.linker /\ h.loadingLevel = g.loadingLevel
      /\ h.lev[s] = L /\ \A t \in Slots : t # s => h.lev[t] = g.lev[t]
  BY <1>1 DEF GameTypes, SameChannel
<1> QED BY <1>2 DEF GameOK, SameChannel, h

LEMMA SharedSet ==
  ASSUME NEW g, GameOK(g), NEW relocate \in BOOLEAN,
         NEW linker \in LinkerTypes, NEW loading \in Slots \cup {NoSlot}
  PROVE  LET h == PutShared(g, relocate, linker, loading) IN
         /\ GameOK(h) /\ SameChannel(g, h) /\ h.lev = g.lev /\ h.relocate = relocate
         /\ h.linker = linker /\ h.loadingLevel = loading
<1> DEFINE h == PutShared(g, relocate, linker, loading)
<1>1. /\ h \in GameTypes /\ SameChannel(g, h) /\ h.lev = g.lev /\ h.relocate = relocate
      /\ h.linker = linker /\ h.loadingLevel = loading
  BY DEF GameOK, GameTypes, SameChannel, PutShared
<1> HIDE DEF h
<1> QED BY <1>1 DEF GameOK, SameChannel, h

(* What a link leaves alone: the channel, the slots' states, loading-level. *)
SameWork(g, h) ==
  /\ SameChannel(g, h) /\ h.loadingLevel = g.loadingLevel
  /\ \A t \in Slots : SameSlot(g.lev[t], h.lev[t])

(* No object was run, or o was for the slot to.  A last object is the bsp   *)
(* of the slot that loads.                                                  *)
NotRun(g, h) ==
  /\ h.relocate = g.relocate
  /\ \A t \in Slots : h.lev[t].ran = g.lev[t].ran /\ h.lev[t].bsp = g.lev[t].bsp

GivesBsp(g, o) == o[2] = NumObjs[o[1]] /\ g.loadingLevel # NoSlot

HasRun(g, h, to, o) ==
  /\ h.relocate <=> (g.relocate \/ (o[2] = Tex[o[1]] /\ g.loadingLevel = 0))
  /\ h.lev[to].ran = Append(g.lev[to].ran, o)
  /\ \A t \in Slots : t # to => h.lev[t].ran = g.lev[t].ran
  /\ \A t \in Slots : ~(GivesBsp(g, o) /\ t = g.loadingLevel) => h.lev[t].bsp = g.lev[t].bsp
  /\ GivesBsp(g, o) => h.lev[g.loadingLevel].bsp = o[1]

LEMMA FinishFacts ==
  ASSUME NEW g, GameOK(g), NEW o, o = g.linker.obj, o # NoObj, NEW to, to = g.linker.to,
         NEW h, h = FinishLink(g)
  PROVE  /\ GameOK(h) /\ SameWork(g, h) /\ h.linker = g.linker
         /\ \A t \in Slots : h.lev[t].current = g.lev[t].current
         /\ HasRun(g, h, to, o)
<1> DEFINE bsp == o[2] = NumObjs[o[1]] /\ g.loadingLevel # NoSlot
           tex == o[2] = Tex[o[1]] /\ g.loadingLevel = 0
           L1 == [g.lev[to] EXCEPT !.ran = Append(g.lev[to].ran, o)]
           ran == PutSlot(g, to, L1)
           L2 == [ran.lev[g.loadingLevel] EXCEPT !.bsp = o[1]]
<1>1. /\ g \in GameTypes /\ g.linker \in LinkerTypes
      /\ g.loadingLevel \in Slots \cup {NoSlot} /\ g.relocate \in BOOLEAN
  BY DEF GameOK, GameTypes
<1>2. o \in Objects /\ to \in Slots
  BY <1>1 DEF LinkerTypes, ObjTypes
<1>3. o[1] \in Levels /\ o \in Levels \X Nat /\ ~(bsp /\ tex)
  <2>1. o[1] \in Levels /\ o \in Levels \X Nat
    BY <1>2 DEF Objects
  <2> QED BY <2>1, LevelFacts
<1>4. h = IF bsp THEN PutSlot(ran, g.loadingLevel, L2)
          ELSE IF tex THEN [ran EXCEPT !.relocate = TRUE] ELSE ran
  BY DEF FinishLink, PutSlot
<1>5. g.lev[to] \in SlotTypes
  BY <1>1, <1>2, SlotFacts
<1>6. /\ L1 \in SlotTypes /\ SameSlot(g.lev[to], L1) /\ L1.bsp = g.lev[to].bsp
      /\ L1.current = g.lev[to].current /\ L1.ran = Append(g.lev[to].ran, o)
  <2>1. Append(g.lev[to].ran, o) \in Seq((Levels \X Nat) \cup {NoObj})
    BY <1>3, <1>5 DEF SlotTypes
  <2> QED BY <1>5, <2>1 DEF SlotTypes, SameSlot
<1> HIDE DEF L1
<1>7. /\ GameOK(ran) /\ SameChannel(g, ran) /\ ran.relocate = g.relocate
      /\ ran.linker = g.linker /\ ran.loadingLevel = g.loadingLevel
      /\ ran.lev[to] = L1 /\ \A t \in Slots : t # to => ran.lev[t] = g.lev[t]
  <2>1. L1 \in SlotTypes /\ to \in Slots
    BY <1>2, <1>6
  <2> QED BY <2>1, SlotSet
<1> HIDE DEF ran
<1>8. /\ \A t \in Slots : /\ SameSlot(g.lev[t], ran.lev[t])
                          /\ ran.lev[t].current = g.lev[t].current
                          /\ ran.lev[t].bsp = g.lev[t].bsp
                          /\ t # to => ran.lev[t].ran = g.lev[t].ran
      /\ ran.lev[to].ran = Append(g.lev[to].ran, o)
  BY <1>2, <1>6, <1>7 DEF SameSlot
<1>9. CASE bsp
  <2>1. g.loadingLevel \in Slots /\ ran.lev[g.loadingLevel] \in SlotTypes
    BY <1>1, <1>7, <1>9, SlotFacts DEF GameOK
  <2>2. /\ L2 \in SlotTypes /\ SameSlot(ran.lev[g.loadingLevel], L2) /\ L2.bsp = o[1]
        /\ L2.current = ran.lev[g.loadingLevel].current /\ L2.ran = ran.lev[g.loadingLevel].ran
    BY <1>3, <2>1 DEF SlotTypes, SameSlot
  <2> HIDE DEF L2
  <2>3. h = PutSlot(ran, g.loadingLevel, L2)
    BY <1>4, <1>9
  <2>4. /\ GameOK(h) /\ SameChannel(ran, h) /\ h.relocate = ran.relocate
        /\ h.linker = ran.linker /\ h.loadingLevel = ran.loadingLevel
        /\ h.lev[g.loadingLevel] = L2
        /\ \A t \in Slots : t # g.loadingLevel => h.lev[t] = ran.lev[t]
    BY <1>7, <2>1, <2>2, <2>3, SlotSet
  <2>5. SameChannel(g, h)
    BY <1>7, <2>4 DEF SameChannel
  <2>6. \A t \in Slots : /\ SameSlot(g.lev[t], h.lev[t])
                         /\ h.lev[t].current = g.lev[t].current
                         /\ t # to => h.lev[t].ran = g.lev[t].ran
                         /\ t # g.loadingLevel => h.lev[t].bsp = g.lev[t].bsp
    <3> SUFFICES ASSUME NEW t \in Slots
                 PROVE  /\ SameSlot(g.lev[t], h.lev[t])
                        /\ h.lev[t].current = g.lev[t].current
                        /\ t # to => h.lev[t].ran = g.lev[t].ran
                        /\ t # g.loadingLevel => h.lev[t].bsp = g.lev[t].bsp
      OBVIOUS
    <3>1. CASE t = g.loadingLevel
      <4>1. h.lev[t] = L2
        BY <2>4, <3>1
      <4> QED BY <1>8, <2>2, <3>1, <4>1 DEF SameSlot
    <3>2. CASE t # g.loadingLevel
      BY <1>8, <2>4, <3>2
    <3> QED BY <3>1, <3>2
  <2>7. h.lev[to].ran = Append(g.lev[to].ran, o)
    BY <1>2, <1>8, <2>2, <2>4
  <2>8. h.relocate <=> (g.relocate \/ tex)
    BY <1>3, <1>7, <1>9, <2>4
  <2> QED
    BY <1>7, <1>9, <2>2, <2>4, <2>5, <2>6, <2>7, <2>8 DEF SameWork, HasRun, GivesBsp
<1>10. CASE ~bsp
  <2> DEFINE relocate == IF tex THEN TRUE ELSE g.relocate
  <2>1. relocate \in BOOLEAN /\ (relocate <=> (g.relocate \/ tex))
    BY <1>1
  <2>2. ran \in GameTypes /\ ran.linker \in LinkerTypes /\ ran.loadingLevel \in Slots \cup {NoSlot}
    BY <1>1, <1>7 DEF GameOK
  <2>3. h = PutShared(ran, relocate, ran.linker, ran.loadingLevel)
    BY <1>4, <1>7, <1>10, <2>2 DEF GameTypes, PutShared
  <2> HIDE DEF relocate
  <2>4. /\ GameOK(h) /\ SameChannel(ran, h) /\ h.lev = ran.lev /\ h.relocate = relocate
        /\ h.linker = ran.linker /\ h.loadingLevel = ran.loadingLevel
    BY <1>7, <2>1, <2>2, <2>3, SharedSet
  <2>5. SameChannel(g, h)
    BY <1>7, <2>4 DEF SameChannel
  <2> QED BY <1>7, <1>8, <1>10, <2>1, <2>4, <2>5 DEF SameWork, HasRun, GivesBsp
<1> QED BY <1>9, <1>10

LEMMA FinishEffect ==
  ASSUME NEW g, GameOK(g)
  PROVE  LET h == FinishLink(g) IN
         /\ GameOK(h) /\ SameWork(g, h) /\ h.linker = g.linker
         /\ \A t \in Slots : h.lev[t].current = g.lev[t].current
         /\ IF g.linker.obj = NoObj THEN NotRun(g, h) ELSE HasRun(g, h, g.linker.to, g.linker.obj)
<1>1. CASE g.linker.obj = NoObj
  <2>1. FinishLink(g) = g
    BY <1>1 DEF FinishLink
  <2> QED BY <1>1, <2>1 DEF SameWork, SameChannel, SameSlot, NotRun
<1>2. CASE g.linker.obj # NoObj
  <2> DEFINE h == FinishLink(g)
  <2> HIDE DEF h
  <2>1. h = FinishLink(g)
    BY DEF h
  <2>2. /\ GameOK(h) /\ SameWork(g, h) /\ h.linker = g.linker
        /\ \A t \in Slots : h.lev[t].current = g.lev[t].current
        /\ HasRun(g, h, g.linker.to, g.linker.obj)
    BY <1>2, <2>1, FinishFacts
  <2> QED BY <1>2, <2>1, <2>2
<1> QED BY <1>1, <1>2

LEMMA LinkBeginFacts ==
  ASSUME NEW g, GameOK(g), NEW s \in Slots, NEW o \in ObjTypes
  PROVE  LET h == link_begin(g, s, o) IN
         /\ GameOK(h) /\ SameWork(g, h)
         /\ h.linker.obj = o /\ h.linker.to = s /\ h.linker.left \in Nat
         /\ o = NoObj => h.linker.left = 0
         /\ IF o = NoObj \/ h.linker.left > 0 THEN NotRun(g, h) ELSE HasRun(g, h, s, o)
<1> DEFINE left == IF o = NoObj THEN 0 ELSE Work[o[1]][o[2]]
           linker == [obj |-> o, to |-> s, left |-> left]
           L == [g.lev[s] EXCEPT !.current = g.lev[s].current + 1]
           k == PutShared(PutSlot(g, s, L), g.relocate, linker, g.loadingLevel)
           h == link_begin(g, s, o)
<1>1. /\ g \in GameTypes /\ g.relocate \in BOOLEAN /\ g.loadingLevel \in Slots \cup {NoSlot}
      /\ g.lev[s] \in SlotTypes /\ g.lev[s].current \in Nat
  BY SlotFacts DEF GameOK, GameTypes
<1>2. left \in Nat
  <2>1. CASE o = NoObj
    BY <2>1
  <2>2. CASE o # NoObj
    <3>1. o[1] \in Levels /\ o[2] \in 1 .. NumObjs[o[1]]
      BY <2>2 DEF ObjTypes, Objects
    <3> QED BY <2>2, <3>1, LevelFacts
  <2> QED BY <2>1, <2>2
<1>3. linker \in LinkerTypes
  BY <1>2 DEF LinkerTypes
<1>4. /\ L \in SlotTypes /\ SameSlot(g.lev[s], L)
      /\ L.ran = g.lev[s].ran /\ L.bsp = g.lev[s].bsp
  BY <1>1 DEF SlotTypes, SameSlot
<1>5. h = IF left = 0 THEN FinishLink(k) ELSE k
  <2>1. k = [g EXCEPT !.linker = linker, !.lev[s].current = @ + 1]
    BY <1>1 DEF PutShared, PutSlot, GameTypes, SlotTypes
  <2>2. k.linker.left = left
    BY <1>1 DEF PutShared, PutSlot, GameTypes
  <2> HIDE DEF k
  <2> QED BY <2>1, <2>2 DEF link_begin
<1>6. /\ linker.obj = o /\ linker.to = s /\ linker.left = left
  OBVIOUS
<1> HIDE DEF L, linker, h
<1>7. /\ GameOK(PutSlot(g, s, L)) /\ SameChannel(g, PutSlot(g, s, L))
      /\ PutSlot(g, s, L).lev[s] = L
      /\ \A t \in Slots : t # s => PutSlot(g, s, L).lev[t] = g.lev[t]
  BY <1>4, SlotSet
<1>8. /\ GameOK(k) /\ SameChannel(g, k) /\ k.relocate = g.relocate /\ k.linker = linker
      /\ k.loadingLevel = g.loadingLevel
      /\ k.lev[s] = L /\ \A t \in Slots : t # s => k.lev[t] = g.lev[t]
  <2>1. /\ GameOK(k) /\ SameChannel(PutSlot(g, s, L), k) /\ k.lev = PutSlot(g, s, L).lev
        /\ k.relocate = g.relocate /\ k.linker = linker /\ k.loadingLevel = g.loadingLevel
    BY <1>1, <1>3, <1>7, SharedSet
  <2> QED BY <1>7, <2>1 DEF SameChannel
<1> HIDE DEF k
<1>9. SameWork(g, k) /\ NotRun(g, k)
  BY <1>4, <1>8 DEF SameWork, NotRun, SameSlot
<1>10. CASE left # 0
  BY <1>2, <1>5, <1>6, <1>8, <1>9, <1>10 DEF h
<1>11. CASE left = 0
  <2>1. h = FinishLink(k)
    BY <1>5, <1>11
  <2>2. /\ GameOK(h) /\ SameWork(k, h) /\ h.linker = linker
        /\ IF o = NoObj THEN NotRun(k, h) ELSE HasRun(k, h, s, o)
    BY <1>6, <1>8, <2>1, FinishEffect
  <2>3. SameWork(g, h)
    BY <1>9, <2>2 DEF SameWork, SameChannel, SameSlot
  <2>4. CASE o = NoObj
    <3>1. NotRun(g, h)
      BY <1>9, <2>2, <2>4 DEF NotRun
    <3> QED BY <1>2, <1>6, <1>11, <2>2, <2>3, <2>4, <3>1 DEF h
  <2>5. CASE o # NoObj
    <3>1. HasRun(g, h, s, o)
      <4>1. HasRun(k, h, s, o)
        BY <2>2, <2>5
      <4>2. GivesBsp(k, o) <=> GivesBsp(g, o)
        BY <1>8 DEF GivesBsp
      <4>3. \A t \in Slots : k.lev[t].ran = g.lev[t].ran /\ k.lev[t].bsp = g.lev[t].bsp
        BY <1>9 DEF NotRun
      <4>4. h.relocate <=> (g.relocate \/ (o[2] = Tex[o[1]] /\ g.loadingLevel = 0))
        BY <1>8, <4>1, Zenon DEF HasRun
      <4>5. /\ h.lev[s].ran = Append(g.lev[s].ran, o)
            /\ \A t \in Slots : t # s => h.lev[t].ran = g.lev[t].ran
        BY <4>1, <4>3, Zenon DEF HasRun
      <4>6. /\ \A t \in Slots : ~(GivesBsp(g, o) /\ t = g.loadingLevel) => h.lev[t].bsp = g.lev[t].bsp
            /\ GivesBsp(g, o) => h.lev[g.loadingLevel].bsp = o[1]
        BY <1>8, <4>1, <4>2, <4>3, Zenon DEF HasRun
      <4> QED BY <4>4, <4>5, <4>6, Zenon DEF HasRun
    <3> QED BY <1>2, <1>6, <1>11, <2>2, <2>3, <2>5, <3>1 DEF h
  <2> QED BY <2>4, <2>5
<1> QED BY <1>10, <1>11

LEMMA LinkResumeFacts ==
  ASSUME NEW g, GameOK(g)
  PROVE  LET h == link_resume(g) IN
         /\ GameOK(h) /\ SameWork(g, h)
         /\ \A t \in Slots : h.lev[t].current = g.lev[t].current
         /\ h.linker.obj = g.linker.obj /\ h.linker.to = g.linker.to
         /\ h.linker.left = IF g.linker.left = 0 THEN 0 ELSE g.linker.left - 1
         /\ IF g.linker.obj = NoObj \/ h.linker.left > 0 THEN NotRun(g, h)
            ELSE HasRun(g, h, g.linker.to, g.linker.obj)
<1> DEFINE left == IF g.linker.left = 0 THEN 0 ELSE g.linker.left - 1
           linker == [g.linker EXCEPT !.left = left]
           k == PutShared(g, g.relocate, linker, g.loadingLevel)
           h == link_resume(g)
<1>1. /\ g \in GameTypes /\ g.relocate \in BOOLEAN /\ g.loadingLevel \in Slots \cup {NoSlot}
      /\ g.linker \in LinkerTypes /\ g.linker.left \in Nat
  BY DEF GameOK, GameTypes, LinkerTypes
<1>2. left \in Nat
  BY <1>1
<1>3. /\ linker \in LinkerTypes /\ linker.obj = g.linker.obj /\ linker.to = g.linker.to
      /\ linker.left = left
  BY <1>1, <1>2 DEF LinkerTypes
<1>4. h = IF left = 0 THEN FinishLink(k) ELSE k
  <2>1. k = [g EXCEPT !.linker.left = IF @ = 0 THEN 0 ELSE @ - 1]
    BY <1>1 DEF PutShared, GameTypes, LinkerTypes
  <2>2. k.linker.left = left
    BY <1>1, <1>3 DEF PutShared, GameTypes
  <2> HIDE DEF k
  <2> QED BY <2>1, <2>2 DEF link_resume
<1> HIDE DEF linker, h, left
<1>5. /\ GameOK(k) /\ SameChannel(g, k) /\ k.relocate = g.relocate /\ k.linker = linker
      /\ k.loadingLevel = g.loadingLevel /\ k.lev = g.lev
  BY <1>1, <1>3, SharedSet
<1> HIDE DEF k
<1>6. SameWork(g, k) /\ NotRun(g, k)
  BY <1>5 DEF SameWork, NotRun, SameSlot
<1>7. CASE left # 0
  <2>1. h = k /\ h.linker.left = left /\ h.linker.left > 0
    BY <1>2, <1>3, <1>4, <1>5, <1>7
  <2> QED BY <1>3, <1>5, <1>6, <2>1 DEF h, left
<1>8. CASE left = 0
  <2>1. h = FinishLink(k)
    BY <1>4, <1>8
  <2>2. /\ GameOK(h) /\ SameWork(k, h) /\ h.linker = linker
        /\ \A t \in Slots : h.lev[t].current = k.lev[t].current
        /\ IF k.linker.obj = NoObj THEN NotRun(k, h)
           ELSE HasRun(k, h, k.linker.to, k.linker.obj)
    BY <1>5, <2>1, FinishEffect
  <2>3. SameWork(g, h)
    BY <1>6, <2>2 DEF SameWork, SameChannel, SameSlot
  <2>4. CASE g.linker.obj = NoObj
    <3>1. NotRun(g, h)
      BY <1>3, <1>5, <1>6, <2>2, <2>4 DEF NotRun
    <3> QED BY <1>3, <1>5, <1>8, <2>2, <2>3, <2>4, <3>1 DEF h, left
  <2>5. CASE g.linker.obj # NoObj
    <3>1. HasRun(g, h, g.linker.to, g.linker.obj)
      <4>1. HasRun(k, h, g.linker.to, g.linker.obj)
        BY <1>3, <1>5, <2>2, <2>5
      <4>2. GivesBsp(k, g.linker.obj) <=> GivesBsp(g, g.linker.obj)
        BY <1>5 DEF GivesBsp
      <4>3. h.relocate <=> (g.relocate \/ (g.linker.obj[2] = Tex[g.linker.obj[1]] /\ g.loadingLevel = 0))
        BY <1>5, <4>1, Zenon DEF HasRun
      <4>4. /\ h.lev[g.linker.to].ran = Append(g.lev[g.linker.to].ran, g.linker.obj)
            /\ \A t \in Slots : t # g.linker.to => h.lev[t].ran = g.lev[t].ran
        BY <1>5, <4>1, Zenon DEF HasRun
      <4>5. /\ \A t \in Slots : ~(GivesBsp(g, g.linker.obj) /\ t = g.loadingLevel)
                                => h.lev[t].bsp = g.lev[t].bsp
            /\ GivesBsp(g, g.linker.obj) => h.lev[g.loadingLevel].bsp = g.linker.obj[1]
        BY <1>5, <4>1, <4>2, Zenon DEF HasRun
      <4> QED BY <4>3, <4>4, <4>5, Zenon DEF HasRun
    <3>2. ~(h.linker.left > 0)
      BY <1>3, <1>8, <2>2
    <3> QED BY <1>3, <1>5, <1>8, <2>2, <2>3, <2>5, <3>1, <3>2 DEF h, left
  <2> QED BY <2>4, <2>5
<1> QED BY <1>7, <1>8

-----------------------------------------------------------------------------
(* The steps of one slot.  What they leave alone: all but the slot, and     *)
(* perhaps loading-level.                                                   *)
OtherSame(g, h, s) ==
  /\ h.relocate = g.relocate /\ h.linker = g.linker
  /\ \A t \in Slots : t # s => h.lev[t] = g.lev[t]

OnlySlot(g, h, s) == SameChannel(g, h) /\ OtherSame(g, h, s)

PutBoth(g, s, L, loading) == [g EXCEPT !.lev[s] = L, !.loadingLevel = loading]

LEMMA SlotAndLoading ==
  ASSUME NEW g, GameOK(g), NEW s \in Slots, NEW L \in SlotTypes,
         NEW loading \in Slots \cup {NoSlot}
  PROVE  LET h == PutBoth(g, s, L, loading) IN
         GameOK(h) /\ OnlySlot(g, h, s) /\ h.lev[s] = L /\ h.loadingLevel = loading
<1> DEFINE k == PutSlot(g, s, L)
           h == PutShared(k, g.relocate, g.linker, loading)
<1>1. /\ GameOK(k) /\ SameChannel(g, k) /\ k.relocate = g.relocate
      /\ k.linker = g.linker /\ k.lev[s] = L /\ \A t \in Slots : t # s => k.lev[t] = g.lev[t]
  BY SlotSet
<1>2. h = PutBoth(g, s, L, loading)
  BY DEF PutBoth, PutShared, PutSlot, GameOK, GameTypes
<1>3. g.relocate \in BOOLEAN /\ g.linker \in LinkerTypes
  BY DEF GameOK, GameTypes
<1> HIDE DEF k
<1>4. /\ GameOK(h) /\ SameChannel(k, h) /\ h.lev = k.lev /\ h.relocate = g.relocate
      /\ h.linker = g.linker /\ h.loadingLevel = loading
  BY <1>1, <1>3, SharedSet
<1> HIDE DEF h
<1>5. OnlySlot(g, h, s)
  BY <1>1, <1>4 DEF OnlySlot, OtherSame, SameChannel
<1> QED BY <1>1, <1>2, <1>4, <1>5 DEF h, k

LEMMA SlotOnly ==
  ASSUME NEW g, GameOK(g), NEW s \in Slots, NEW L \in SlotTypes
  PROVE  LET h == PutSlot(g, s, L) IN
         /\ GameOK(h) /\ OnlySlot(g, h, s) /\ h.lev[s] = L /\ h.loadingLevel = g.loadingLevel
<1>1. LET h == PutSlot(g, s, L) IN
      /\ GameOK(h) /\ SameChannel(g, h) /\ h.relocate = g.relocate
      /\ h.linker = g.linker /\ h.loadingLevel = g.loadingLevel
      /\ h.lev[s] = L /\ \A t \in Slots : t # s => h.lev[t] = g.lev[t]
  BY SlotSet
<1> QED BY <1>1 DEF OnlySlot, OtherSame

SetLinking(g, s, b) == [g EXCEPT !.lev[s].linking = b]
SetStatus(g, s, x) == [g EXCEPT !.lev[s].status = x]
SetReceived(g) == [g EXCEPT !.received = FALSE]

LEMMA SetLinkingFacts ==
  ASSUME NEW g, GameOK(g), NEW s \in Slots, NEW b \in BOOLEAN
  PROVE  LET h == SetLinking(g, s, b) IN
         /\ GameOK(h) /\ OnlySlot(g, h, s) /\ h.loadingLevel = g.loadingLevel
         /\ h.lev[s].linking = b
         /\ h.lev[s].status = g.lev[s].status /\ h.lev[s].name = g.lev[s].name
         /\ h.lev[s].current = g.lev[s].current /\ h.lev[s].bsp = g.lev[s].bsp
         /\ h.lev[s].ran = g.lev[s].ran
<1> DEFINE L == [g.lev[s] EXCEPT !.linking = b]
           h == SetLinking(g, s, b)
<1>1. g \in GameTypes /\ g.lev[s] \in SlotTypes
  BY SlotFacts DEF GameOK
<1>2. /\ L \in SlotTypes /\ L.linking = b
      /\ L.status = g.lev[s].status /\ L.name = g.lev[s].name
      /\ L.current = g.lev[s].current /\ L.bsp = g.lev[s].bsp /\ L.ran = g.lev[s].ran
  BY <1>1 DEF SlotTypes
<1>3. h = PutSlot(g, s, L)
  BY DEF SetLinking, PutSlot
<1> HIDE DEF L, h
<1>4. GameOK(h) /\ OnlySlot(g, h, s) /\ h.lev[s] = L /\ h.loadingLevel = g.loadingLevel
  BY <1>2, <1>3, SlotOnly
<1> QED BY <1>2, <1>4 DEF h

LEMMA SetStatusFacts ==
  ASSUME NEW g, GameOK(g), NEW s \in Slots, NEW x \in Statuses
  PROVE  LET h == SetStatus(g, s, x) IN
         /\ GameOK(h) /\ OnlySlot(g, h, s) /\ h.loadingLevel = g.loadingLevel
         /\ h.lev[s].status = x
         /\ h.lev[s].linking = g.lev[s].linking /\ h.lev[s].name = g.lev[s].name
         /\ h.lev[s].current = g.lev[s].current /\ h.lev[s].bsp = g.lev[s].bsp
         /\ h.lev[s].ran = g.lev[s].ran
<1> DEFINE L == [g.lev[s] EXCEPT !.status = x]
           h == SetStatus(g, s, x)
<1>1. g \in GameTypes /\ g.lev[s] \in SlotTypes
  BY SlotFacts DEF GameOK
<1>2. /\ L \in SlotTypes /\ L.status = x
      /\ L.linking = g.lev[s].linking /\ L.name = g.lev[s].name
      /\ L.current = g.lev[s].current /\ L.bsp = g.lev[s].bsp /\ L.ran = g.lev[s].ran
  BY <1>1 DEF SlotTypes
<1>3. h = PutSlot(g, s, L)
  BY DEF SetStatus, PutSlot
<1> HIDE DEF L, h
<1>4. GameOK(h) /\ OnlySlot(g, h, s) /\ h.lev[s] = L /\ h.loadingLevel = g.loadingLevel
  BY <1>2, <1>3, SlotOnly
<1> QED BY <1>2, <1>4 DEF h

LEMMA SetReceivedFacts ==
  ASSUME NEW g, GameOK(g)
  PROVE  LET h == SetReceived(g) IN
         /\ GameOK(h) /\ SameLoad(g, h) /\ ~h.received
         /\ h.rpc = g.rpc /\ h.iop = g.iop /\ h.atTop = g.atTop
<1> DEFINE h == SetReceived(g)
<1>1. /\ h \in GameTypes /\ SameLoad(g, h) /\ h.received = FALSE
      /\ h.rpc = g.rpc /\ h.iop = g.iop /\ h.atTop = g.atTop
  BY DEF GameOK, GameTypes, SetReceived, SameLoad
<1> HIDE DEF h
<1> QED BY <1>1 DEF GameOK, h

(* A slot is emptied; loading-level forgets it. *)
LEMMA UnloadFacts ==
  ASSUME NEW g, GameOK(g), NEW s \in Slots
  PROVE  LET h == unload(g, s) IN
         /\ GameOK(h) /\ OnlySlot(g, h, s)
         /\ g.lev[s].status = "inactive" => h = g
         /\ g.lev[s].status # "inactive" =>
              h.loadingLevel = IF g.loadingLevel = s THEN NoSlot ELSE g.loadingLevel
         /\ h.lev[s].status = "inactive"
         /\ h.lev[s].linking = g.lev[s].linking /\ h.lev[s].name = g.lev[s].name
<1>1. CASE g.lev[s].status = "inactive"
  BY <1>1 DEF unload, OnlySlot, OtherSame, SameChannel
<1>2. CASE g.lev[s].status # "inactive"
  <2> DEFINE L == [g.lev[s] EXCEPT !.status = "inactive", !.bsp = NoLevel,
                                   !.current = 0, !.ran = <<>>]
             loading == IF g.loadingLevel = s THEN NoSlot ELSE g.loadingLevel
             h == unload(g, s)
  <2>1. g \in GameTypes /\ g.lev[s] \in SlotTypes
    BY SlotFacts DEF GameOK
  <2>2. loading \in Slots \cup {NoSlot}
    BY <2>1 DEF GameTypes
  <2>3. /\ L \in SlotTypes /\ L.status = "inactive"
        /\ L.linking = g.lev[s].linking /\ L.name = g.lev[s].name
    <3>1. <<>> \in Seq((Levels \X Nat) \cup {NoObj}) /\ "inactive" \in Statuses
      BY DEF Statuses
    <3> QED BY <2>1, <3>1 DEF SlotTypes
  <2>4. h = PutBoth(g, s, L, loading)
    BY <1>2 DEF unload, PutBoth
  <2> HIDE DEF L, loading, h
  <2>5. /\ GameOK(h) /\ OnlySlot(g, h, s) /\ h.lev[s] = L /\ h.loadingLevel = loading
    BY <2>2, <2>3, <2>4, SlotAndLoading
  <2> QED BY <1>2, <2>3, <2>5 DEF h, loading
<1> QED BY <1>1, <1>2

(* What logging in leaves alone of a slot. *)
KeepsLoad(L, M) ==
  /\ M.name = L.name /\ M.linking = L.linking /\ M.bsp = L.bsp /\ M.ran = L.ran
  /\ M.current = L.current

LEMMA UpdateAfterLoadFacts ==
  ASSUME NEW g, GameOK(g), NEW s \in Slots
  PROVE  LET h == level_update_after_load(g, s) IN
         /\ GameOK(h) /\ OnlySlot(g, h, s) /\ KeepsLoad(g.lev[s], h.lev[s])
         /\ \/ h.lev[s].status = g.lev[s].status /\ h.loadingLevel = g.loadingLevel
            \/ h.lev[s].status = "loaded" /\ h.loadingLevel = NoSlot
<1> DEFINE h == level_update_after_load(g, s)
<1>1. g \in GameTypes /\ g.lev[s] \in SlotTypes /\ g.lev[s].login \in Nat
  BY SlotFacts DEF GameOK
<1>2. CASE g.lev[s].login > 0
  <2> DEFINE L == [g.lev[s] EXCEPT !.login = g.lev[s].login - 1]
  <2>1. L \in SlotTypes /\ L.status = g.lev[s].status /\ KeepsLoad(g.lev[s], L)
    BY <1>1, <1>2 DEF SlotTypes, KeepsLoad
  <2>2. h = PutSlot(g, s, L)
    BY <1>2 DEF level_update_after_load, PutSlot
  <2> HIDE DEF L, h
  <2>3. GameOK(h) /\ OnlySlot(g, h, s) /\ h.lev[s] = L /\ h.loadingLevel = g.loadingLevel
    BY <2>1, <2>2, SlotOnly
  <2> QED BY <2>1, <2>3 DEF h
<1>3. CASE ~(g.lev[s].login > 0)
  <2> DEFINE L == [g.lev[s] EXCEPT !.status = "loaded"]
  <2>1. L \in SlotTypes /\ L.status = "loaded" /\ KeepsLoad(g.lev[s], L)
    BY <1>1 DEF SlotTypes, Statuses, KeepsLoad
  <2>2. h = PutBoth(g, s, L, NoSlot)
    BY <1>3 DEF level_update_after_load, PutBoth
  <2> HIDE DEF L, h
  <2>3. GameOK(h) /\ OnlySlot(g, h, s) /\ h.lev[s] = L /\ h.loadingLevel = NoSlot
    BY <2>1, <2>2, SlotAndLoading
  <2> QED BY <2>1, <2>3 DEF h
<1> QED BY <1>2, <1>3

LEMMA LoginBeginFacts ==
  ASSUME NEW g, GameOK(g), NEW s \in Slots
  PROVE  LET h == login_begin(g, s) IN
         /\ GameOK(h)
         /\ g.lev[s].bsp # NoLevel =>
              /\ OnlySlot(g, h, s) /\ KeepsLoad(g.lev[s], h.lev[s])
              /\ h.lev[s].status = "login" /\ h.loadingLevel = g.loadingLevel
<1> DEFINE h == login_begin(g, s)
<1>1. g \in GameTypes /\ g.lev[s] \in SlotTypes
  BY SlotFacts DEF GameOK
<1>2. CASE g.lev[s].bsp # NoLevel
  <2> DEFINE L == [g.lev[s] EXCEPT !.status = "login", !.login = LoginWork]
  <2>1. L \in SlotTypes /\ L.status = "login" /\ KeepsLoad(g.lev[s], L)
    <3>1. LoginWork \in Nat /\ "login" \in Statuses
      BY LevelAssumption DEF Statuses
    <3> QED BY <1>1, <3>1 DEF SlotTypes, KeepsLoad
  <2>2. h = PutSlot(g, s, L)
    BY <1>2 DEF login_begin, PutSlot
  <2> HIDE DEF L, h
  <2>3. GameOK(h) /\ OnlySlot(g, h, s) /\ h.lev[s] = L /\ h.loadingLevel = g.loadingLevel
    BY <2>1, <2>2, SlotOnly
  <2> QED BY <1>2, <2>1, <2>3 DEF h
<1>3. CASE g.lev[s].bsp = NoLevel
  <2> DEFINE k == unload(g, s)
  <2>1. GameOK(k)
    BY UnloadFacts
  <2>2. h = PutShared(k, k.relocate, k.linker, NoSlot)
    <3>1. h = [k EXCEPT !.loadingLevel = NoSlot]
      BY <1>3 DEF login_begin
    <3> HIDE DEF h, k
    <3> QED BY <2>1, <3>1 DEF PutShared, GameOK, GameTypes
  <2> HIDE DEF k
  <2>3. k.relocate \in BOOLEAN /\ k.linker \in LinkerTypes
    BY <2>1 DEF GameOK, GameTypes
  <2> HIDE DEF h
  <2>4. GameOK(h)
    BY <2>1, <2>2, <2>3, SharedSet
  <2> QED BY <1>3, <2>4 DEF h
<1> QED BY <1>2, <1>3

LEMMA LoadBeginFacts ==
  ASSUME NEW g, GameOK(g), NEW s \in Slots, g.lev[s].name \in Levels \cup Missing
  PROVE  LET h == load_begin(g, s) IN
         /\ GameOK(h) /\ OtherSame(g, h, s) /\ h.loadingLevel = s
         /\ h.lev[s].status = "loading" /\ h.lev[s].name = g.lev[s].name
         /\ h.lev[s].ran = <<>> /\ ~h.lev[s].linking
         /\ h.received /\ h.rpc.busy /\ h.rpc.fno = "LOAD"
         /\ h.rpc.level = g.lev[s].name /\ h.rpc.to = s /\ h.rpc.top = h.lev[s].current
<1> DEFINE L == [g.lev[s] EXCEPT !.bsp = NoLevel, !.linking = FALSE,
                                 !.status = "loading", !.ran = <<>>]
           k == PutBoth(g, s, L, s)
           h == load_begin(g, s)
<1>1. g \in GameTypes /\ g.lev[s] \in SlotTypes
  BY SlotFacts DEF GameOK
<1>2. /\ L \in SlotTypes /\ L.status = "loading" /\ L.name = g.lev[s].name
      /\ L.ran = <<>> /\ L.linking = FALSE
  <2>1. <<>> \in Seq((Levels \X Nat) \cup {NoObj}) /\ "loading" \in Statuses
    BY DEF Statuses
  <2> QED BY <1>1, <2>1 DEF SlotTypes
<1>3. h = call(k, "LOAD", g.lev[s].name, s)
  <2>1. k = [g EXCEPT !.loadingLevel = s, !.lev[s] = L]
    BY <1>1 DEF PutBoth, GameTypes
  <2> QED BY <2>1 DEF load_begin
<1> HIDE DEF L
<1>4. GameOK(k) /\ OnlySlot(g, k, s) /\ k.lev[s] = L /\ k.loadingLevel = s
  BY <1>2, SlotAndLoading
<1> HIDE DEF k, h
<1>5. /\ GameOK(h) /\ SameLoad(k, h) /\ h.received /\ h.rpc.busy
      /\ h.rpc.fno = "LOAD" /\ h.rpc.level = g.lev[s].name /\ h.rpc.to = s
      /\ h.rpc.top = k.lev[s].current
  BY <1>3, <1>4, CallFacts
<1>6. OtherSame(g, h, s)
  BY <1>4, <1>5 DEF OnlySlot, OtherSame, SameLoad
<1>7. h.lev = k.lev /\ h.loadingLevel = s
  BY <1>4, <1>5 DEF SameLoad
<1> QED BY <1>2, <1>4, <1>5, <1>6, <1>7 DEF h

-----------------------------------------------------------------------------
(* Types are kept by every operation of a slot. *)
LEMMA AfterLinkType ==
  ASSUME NEW g, GameOK(g), NEW s \in Slots
  PROVE  GameOK(AfterLink(g, s))
<1>1. GameOK(dgo_load_continue(g, s))
  BY CallFacts DEF dgo_load_continue
<1>2. GameOK(login_begin(g, s))
  BY LoginBeginFacts
<1> QED BY <1>1, <1>2 DEF AfterLink

LEMMA LinkOrLaterType ==
  ASSUME NEW g, GameOK(g), NEW s \in Slots, NEW o \in ObjTypes
  PROVE  GameOK(LinkOrLater(g, s, o))
<1> DEFINE h == link_begin(g, s, o)
<1>1. GameOK(h)
  BY LinkBeginFacts
<1>2. LinkOrLater(g, s, o) = IF Linked(h) THEN AfterLink(h, s) ELSE SetLinking(h, s, TRUE)
  BY DEF LinkOrLater, SetLinking
<1> HIDE DEF h
<1>3. GameOK(AfterLink(h, s))
  BY <1>1, AfterLinkType
<1>4. GameOK(SetLinking(h, s, TRUE))
  BY <1>1, SetLinkingFacts
<1> QED BY <1>2, <1>3, <1>4

(* The object LinkLast takes. *)
LastObject(g, s) == IF g.atTop[s].pos = g.lev[s].current THEN g.atTop[s].obj ELSE NoObj

LEMMA LinkLastType ==
  ASSUME NEW g, GameOK(g), NEW s \in Slots
  PROVE  GameOK(LinkLast(g, s))
<1>1. LastObject(g, s) \in ObjTypes
  <2>1. g.atTop[s] \in TopTypes
    BY DEF GameOK, GameTypes
  <2> QED BY <2>1 DEF LastObject, TopTypes, ObjTypes
<1>2. LinkLast(g, s) = LinkOrLater(g, s, LastObject(g, s))
  BY DEF LinkLast, LastObject
<1> QED BY <1>1, <1>2, LinkOrLaterType

LEMMA GetNextCases ==
  ASSUME NEW g, GameOK(g), NEW s \in Slots
  PROVE  LET h == SetReceived(g) IN
         GetNext(g, s) =
           IF g.rpc.busy \/ ~g.received THEN g
           ELSE IF g.rpc.result = "ERROR" THEN h
           ELSE IF g.rpc.result = "MORE" THEN LinkOrLater(h, s, g.rpc.obj)
           ELSE LinkLast(SetStatus(h, s, "loading-bt"), s)
<1>1. g.rpc.result \in {"DONE", "MORE", "ERROR"}
  BY DEF GameOK, GameTypes, RpcTypes
<1> QED BY <1>1 DEF GetNext, SetReceived, SetStatus

LEMMA GetNextType ==
  ASSUME NEW g, GameOK(g), NEW s \in Slots
  PROVE  GameOK(GetNext(g, s))
<1> DEFINE h == SetReceived(g)
<1>1. GameOK(h) /\ g.rpc.obj \in ObjTypes /\ "loading-bt" \in Statuses
  BY SetReceivedFacts DEF GameOK, GameTypes, RpcTypes, Statuses
<1> HIDE DEF h
<1>2. GameOK(LinkOrLater(h, s, g.rpc.obj))
  BY <1>1, LinkOrLaterType
<1>3. GameOK(SetStatus(h, s, "loading-bt"))
  BY <1>1, SetStatusFacts
<1>4. GameOK(LinkLast(SetStatus(h, s, "loading-bt"), s))
  BY <1>3, LinkLastType
<1> QED BY <1>1, <1>2, <1>4, GetNextCases DEF h

SetRelocate(g) == PutShared(g, FALSE, g.linker, g.loadingLevel)

LEMMA SetRelocateFacts ==
  ASSUME NEW g, GameOK(g)
  PROVE  LET h == SetRelocate(g) IN
         /\ GameOK(h) /\ SameChannel(g, h) /\ h.lev = g.lev /\ ~h.relocate
         /\ h.linker = g.linker /\ h.loadingLevel = g.loadingLevel
         /\ h = [g EXCEPT !.relocate = FALSE]
<1> DEFINE h == SetRelocate(g)
           off == FALSE
<1>1. off \in BOOLEAN /\ ~off
  OBVIOUS
<1>5. g.linker \in LinkerTypes /\ g.loadingLevel \in Slots \cup {NoSlot}
  BY DEF GameOK, GameTypes
<1>2. SetRelocate(g) = [g EXCEPT !.relocate = FALSE]
  BY DEF SetRelocate, PutShared, GameOK, GameTypes
<1>3. h = PutShared(g, off, g.linker, g.loadingLevel)
  BY DEF SetRelocate
<1> HIDE DEF h, off
<1>4. /\ GameOK(h) /\ SameChannel(g, h) /\ h.lev = g.lev /\ h.relocate = off
      /\ h.linker = g.linker /\ h.loadingLevel = g.loadingLevel
  BY <1>1, <1>3, <1>5, SharedSet
<1> QED BY <1>1, <1>2, <1>4 DEF h

LEMMA LoadContinueCases ==
  ASSUME NEW g, GameOK(g), NEW s \in Slots
  PROVE  load_continue(g, s) =
           IF g.lev[s].linking
             THEN IF Linked(link_resume(g)) THEN AfterLink(SetLinking(link_resume(g), s, FALSE), s)
                  ELSE link_resume(g)
           ELSE IF g.relocate THEN dgo_load_continue(SetRelocate(g), s)
           ELSE IF g.lev[s].status = "loading" THEN GetNext(g, s)
           ELSE IF g.lev[s].status = "loading-bt" THEN LinkLast(g, s)
           ELSE IF g.lev[s].status = "login" THEN level_update_after_load(g, s)
           ELSE g
<1>1. SetRelocate(g) = [g EXCEPT !.relocate = FALSE]
  BY SetRelocateFacts
<1> QED BY <1>1 DEF load_continue, SetLinking

LEMMA LoadContinueType ==
  ASSUME NEW g, GameOK(g), NEW s \in Slots
  PROVE  GameOK(load_continue(g, s))
<1> DEFINE k == link_resume(g)
<1>1. GameOK(k)
  BY LinkResumeFacts
<1> HIDE DEF k
<1>2. GameOK(SetLinking(k, s, FALSE))
  BY <1>1, SetLinkingFacts
<1>3. GameOK(AfterLink(SetLinking(k, s, FALSE), s))
  BY <1>2, AfterLinkType
<1>4. GameOK(SetRelocate(g))
  BY SetRelocateFacts
<1>5. GameOK(dgo_load_continue(SetRelocate(g), s))
  BY <1>4, CallFacts DEF dgo_load_continue
<1>6. GameOK(GetNext(g, s)) /\ GameOK(LinkLast(g, s)) /\ GameOK(level_update_after_load(g, s))
  BY GetNextType, LinkLastType, UpdateAfterLoadFacts
<1> QED BY <1>1, <1>3, <1>5, <1>6, LoadContinueCases DEF k

-----------------------------------------------------------------------------
(* The steps of both slots. *)
SetName(g, s, l) == [g EXCEPT !.lev[s] = [g.lev[s] EXCEPT !.name = l, !.display = FALSE]]

LEMMA SetNameFacts ==
  ASSUME NEW g, GameOK(g), NEW s \in Slots, NEW l \in Names
  PROVE  LET h == SetName(g, s, l) IN
         /\ GameOK(h) /\ OnlySlot(g, h, s) /\ h.loadingLevel = g.loadingLevel
         /\ h.lev[s].name = l /\ h.lev[s].status = g.lev[s].status
<1> DEFINE L == [g.lev[s] EXCEPT !.name = l, !.display = FALSE]
           h == SetName(g, s, l)
<1>1. g \in GameTypes /\ g.lev[s] \in SlotTypes
  BY SlotFacts DEF GameOK
<1>2. L \in SlotTypes /\ L.name = l /\ L.status = g.lev[s].status
  BY <1>1 DEF SlotTypes
<1>3. h = PutSlot(g, s, L)
  BY DEF SetName, PutSlot
<1> HIDE DEF L, h
<1>4. GameOK(h) /\ OnlySlot(g, h, s) /\ h.lev[s] = L /\ h.loadingLevel = g.loadingLevel
  BY <1>2, <1>3, SlotOnly
<1> QED BY <1>2, <1>4 DEF h

(* A slot is taken for a level: the request is under way, whatever the      *)
(* slot did before.                                                         *)
LEMMA GetForUseFacts ==
  ASSUME NEW g, GameOK(g), NEW s \in Slots, NEW l \in Levels \cup Missing
  PROVE  LET h == level_get_for_use(g, l, s) IN
         /\ GameOK(h) /\ OtherSame(g, h, s) /\ h.loadingLevel = s
         /\ h.lev[s].status = "loading" /\ h.lev[s].name = l
         /\ h.lev[s].ran = <<>> /\ ~h.lev[s].linking
         /\ h.received /\ h.rpc.busy /\ h.rpc.fno = "LOAD"
         /\ h.rpc.level = l /\ h.rpc.to = s /\ h.rpc.top = h.lev[s].current
<1> DEFINE k == unload(g, s)
           m == SetName(k, s, l)
           h == level_get_for_use(g, l, s)
<1>1. h = load_begin(m, s)
  BY DEF level_get_for_use, SetName
<1>2. GameOK(k) /\ OnlySlot(g, k, s)
  BY UnloadFacts
<1> HIDE DEF k, h
<1>3. GameOK(m) /\ OnlySlot(k, m, s) /\ m.lev[s].name = l
  BY <1>2, SetNameFacts DEF Names
<1> HIDE DEF m
<1>4. /\ GameOK(h) /\ OtherSame(m, h, s) /\ h.loadingLevel = s
      /\ h.lev[s].status = "loading" /\ h.lev[s].name = l
      /\ h.lev[s].ran = <<>> /\ ~h.lev[s].linking
      /\ h.received /\ h.rpc.busy /\ h.rpc.fno = "LOAD"
      /\ h.rpc.level = l /\ h.rpc.to = s /\ h.rpc.top = h.lev[s].current
  BY <1>1, <1>3, LoadBeginFacts
<1>5. OtherSame(g, h, s)
  BY <1>2, <1>3, <1>4 DEF OnlySlot, OtherSame
<1> QED BY <1>4, <1>5 DEF h

LEMMA DiscardType ==
  ASSUME NEW g, GameOK(g)
  PROVE  GameOK(DiscardUnwanted(g))
<1>1. GameOK(unload(g, 0)) /\ GameOK(unload(g, 1)) /\ GameOK(unload(unload(g, 0), 1))
  BY UnloadFacts DEF Slots
<1> QED BY <1>1 DEF DiscardUnwanted

WantTypes == [Slots -> [name : Names, display : BOOLEAN]]
Pcs == {"slot0", "slot1", "update", "block0", "block1", "display"}

LEMMA PlaceType ==
  ASSUME NEW w \in WantTypes, NEW l \in Names
  PROVE  Place(w, l) \in WantTypes
BY DEF Place, WantTypes, Slots, Names

LEMMA WantLevelsType ==
  ASSUME want \in WantTypes, NEW a \in Names, NEW b \in Names
  PROVE  want_levels(a, b) \in WantTypes
<1> DEFINE kept == [i \in Slots |-> IF want[i].name \in {a, b} THEN want[i] ELSE NoWant]
           rest(l) == IF l \in WantedNames THEN NoLevel ELSE l
<1>1. kept \in WantTypes
  BY DEF WantTypes, NoWant, Names
<1>2. rest(a) \in Names /\ rest(b) \in Names
  BY DEF Names
<1>3. want_levels(a, b) = Place(Place(kept, rest(a)), rest(b))
  BY DEF want_levels
<1> HIDE DEF kept, rest
<1>4. Place(kept, rest(a)) \in WantTypes
  BY <1>1, <1>2, PlaceType
<1> QED BY <1>2, <1>3, <1>4, PlaceType

LEMMA ToLoadFacts ==
  ASSUME want \in WantTypes, NEW g, Absent(g) # {}
  PROVE  NextToLoad(g) \in Absent(g) /\ want[NextToLoad(g)].name \in Levels \cup Missing
<1>1. Absent(g) \subseteq Slots
  BY DEF Absent
<1>2. NextToLoad(g) \in Absent(g)
  <2>1. CASE Absent(g) = Slots
    BY <2>1 DEF NextToLoad, Slots
  <2>2. CASE Absent(g) # Slots
    BY <2>2 DEF NextToLoad
  <2> QED BY <2>1, <2>2
<1>3. want[NextToLoad(g)].name # NoLevel /\ NextToLoad(g) \in Slots
  BY <1>2 DEF Absent
<1>4. want[NextToLoad(g)].name \in Names
  BY <1>3 DEF WantTypes
<1> QED BY <1>2, <1>3, <1>4 DEF Names

LEMMA DisposableSlot ==
  ASSUME NEW g
  PROVE  Disposable(g) \in Slots
BY DEF Disposable, Slots

(* Display moves slots between loaded and active only, and those wanted. *)
Redisplayed(L, M) ==
  /\ KeepsLoad(L, M)
  /\ \/ M.status = L.status
     \/ /\ {L.status, M.status} \subseteq {"loaded", "active"}
        /\ \E i \in Slots : want[i].name = L.name

LEMMA DisplayFacts ==
  ASSUME GameOK(game), Display
  PROVE  /\ GameOK(game') /\ SameChannel(game, game') /\ game'.relocate = game.relocate
         /\ game'.linker = game.linker /\ game'.loadingLevel = game.loadingLevel
         /\ \A s \in Slots : Redisplayed(game.lev[s], game'.lev[s])
<1> SUFFICES ASSUME NEW g, g = game, NEW h, h = game'
             PROVE  /\ GameOK(h) /\ SameChannel(g, h) /\ h.relocate = g.relocate
                    /\ h.linker = g.linker /\ h.loadingLevel = g.loadingLevel
                    /\ \A s \in Slots : Redisplayed(g.lev[s], h.lev[s])
  OBVIOUS
<1> DEFINE wants(L) == \E i \in Slots : want[i].name = L.name /\ want[i].display
           Shown1(L) == L.status \in {"loaded", "active"} /\ wants(L)
           Hidden(L) == L.status # "inactive" /\ L.name \in WantedNames /\ L.display /\ ~wants(L)
           M(L) == IF Shown1(L) THEN [L EXCEPT !.status = "active", !.display = TRUE]
                   ELSE IF Hidden(L)
                     THEN [L EXCEPT !.status = IF L.status = "active" THEN "loaded" ELSE L.status,
                                    !.display = FALSE]
                   ELSE L
           lev == [s \in Slots |-> M(g.lev[s])]
<1>1. g \in GameTypes /\ \A s \in Slots : g.lev[s] \in SlotTypes
  BY SlotFacts DEF GameOK
<1>2. h = [g EXCEPT !.lev = lev]
  BY DEF Display
<1>3. ASSUME NEW L \in SlotTypes
      PROVE  M(L) \in SlotTypes /\ Redisplayed(L, M(L))
  <2>1. CASE Shown1(L)
    <3> DEFINE K == [L EXCEPT !.status = "active", !.display = TRUE]
    <3>1. K \in SlotTypes /\ KeepsLoad(L, K) /\ K.status = "active"
      BY DEF SlotTypes, Statuses, KeepsLoad
    <3>2. M(L) = K
      BY <2>1
    <3> QED BY <2>1, <3>1, <3>2 DEF Redisplayed
  <2>2. CASE ~Shown1(L) /\ Hidden(L)
    <3> DEFINE st == IF L.status = "active" THEN "loaded" ELSE L.status
               K == [L EXCEPT !.status = st, !.display = FALSE]
    <3>1. st \in Statuses /\ (st = L.status \/ (L.status = "active" /\ st = "loaded"))
      BY DEF SlotTypes, Statuses
    <3>2. M(L) = K
      BY <2>2
    <3> HIDE DEF st
    <3>3. K \in SlotTypes /\ KeepsLoad(L, K) /\ K.status = st
      BY <3>1 DEF SlotTypes, KeepsLoad
    <3>4. \E i \in Slots : want[i].name = L.name
      BY <2>2 DEF WantedNames
    <3> QED BY <3>1, <3>2, <3>3, <3>4 DEF Redisplayed
  <2>3. CASE ~Shown1(L) /\ ~Hidden(L)
    BY <2>3 DEF Redisplayed, KeepsLoad
  <2> QED BY <2>1, <2>2, <2>3
<1> HIDE DEF M
<1>4. /\ lev \in [Slots -> SlotTypes]
      /\ \A s \in Slots : lev[s] = M(g.lev[s]) /\ Redisplayed(g.lev[s], lev[s])
  BY <1>1, <1>3
<1> HIDE DEF lev
<1>5. /\ h \in GameTypes /\ SameChannel(g, h) /\ h.relocate = g.relocate
      /\ h.linker = g.linker /\ h.loadingLevel = g.loadingLevel /\ h.lev = lev
  BY <1>1, <1>2, <1>4 DEF GameTypes, SameChannel
<1> QED BY <1>4, <1>5 DEF GameOK, SameChannel

TypeInv == GameOK(game) /\ want \in WantTypes /\ pc \in Pcs

LEMMA InitGame ==
  ASSUME Init
  PROVE  \E l \in Levels :
           /\ game.lev[1] = Empty
           /\ game.lev[0] = [Empty EXCEPT !.status = "active", !.name = l, !.display = TRUE,
                               !.current = NumObjs[l], !.bsp = l, !.ran = AllObjects(l)]
           /\ game.loadingLevel = NoSlot /\ game.relocate = FALSE
           /\ want = [i \in Slots |-> IF i = 0 THEN [name |-> l, display |-> TRUE] ELSE NoWant]
           /\ GameOK(game)
<1>1. PICK l \in Levels :
        /\ want = [i \in Slots |-> IF i = 0 THEN [name |-> l, display |-> TRUE] ELSE NoWant]
        /\ game = [lev |-> [s \in Slots |->
                    IF s = 1 THEN Empty
                    ELSE [Empty EXCEPT !.status = "active", !.name = l, !.display = TRUE,
                            !.current = NumObjs[l], !.bsp = l, !.ran = AllObjects(l)]],
                  loadingLevel |-> NoSlot,
                  linker |-> [obj |-> NoObj, to |-> 0, left |-> 0],
                  relocate |-> FALSE,
                  rpc |-> [busy |-> FALSE, fno |-> "LOAD", level |-> l, to |-> 0, top |-> 0,
                           result |-> "DONE", obj |-> NoObj],
                  received |-> FALSE,
                  iop |-> [file |-> NoLevel, given |-> 0],
                  atTop |-> [s \in Slots |-> [obj |-> NoObj, pos |-> 0]]]
  BY DEF Init
<1> DEFINE L == [Empty EXCEPT !.status = "active", !.name = l, !.display = TRUE,
                   !.current = NumObjs[l], !.bsp = l, !.ran = AllObjects(l)]
<1>2. NumObjs[l] \in Nat
  BY LevelFacts
<1>3. AllObjects(l) \in Seq((Levels \X Nat) \cup {NoObj})
  BY <1>2 DEF AllObjects
<1>4. Empty \in SlotTypes
  BY DEF Empty, SlotTypes, Statuses, Names
<1>5. L \in SlotTypes
  BY <1>2, <1>3, <1>4 DEF SlotTypes, Statuses, Names
<1>6. game.lev[1] = Empty /\ game.lev[0] = L
  BY <1>1 DEF Slots
<1>7. game.lev \in [Slots -> SlotTypes]
  BY <1>1, <1>4, <1>5
<1>8. /\ game.loadingLevel = NoSlot /\ game.relocate = FALSE /\ game.received = FALSE
      /\ game.linker = [obj |-> NoObj, to |-> 0, left |-> 0]
      /\ game.rpc = [busy |-> FALSE, fno |-> "LOAD", level |-> l, to |-> 0, top |-> 0,
                     result |-> "DONE", obj |-> NoObj]
      /\ game.iop = [file |-> NoLevel, given |-> 0]
      /\ game.atTop = [s \in Slots |-> [obj |-> NoObj, pos |-> 0]]
  BY <1>1
<1>9. game.linker \in LinkerTypes
  BY <1>8 DEF LinkerTypes, ObjTypes, Slots
<1>10. game.rpc \in RpcTypes /\ game.rpc.fno = "LOAD" /\ game.rpc.level = l
  BY <1>8 DEF RpcTypes, ObjTypes, Slots, Names
<1>11. game.iop \in IopTypes /\ game.iop.file = NoLevel
  BY <1>8 DEF IopTypes
<1>12. game.atTop \in [Slots -> TopTypes]
  BY <1>8 DEF TopTypes, ObjTypes
<1>13. game \in GameTypes
  BY <1>1, <1>7, <1>8, <1>9, <1>10, <1>11, <1>12 DEF GameTypes
<1>14. GameOK(game)
  BY <1>10, <1>11, <1>13 DEF GameOK
<1> QED BY <1>1, <1>6, <1>8, <1>14

LEMMA InitType == Init => TypeInv
<1> SUFFICES ASSUME Init PROVE TypeInv
  OBVIOUS
<1>1. GameOK(game)
  BY InitGame
<1>2. want \in WantTypes
  <2>1. PICK l \in Levels :
          want = [i \in Slots |-> IF i = 0 THEN [name |-> l, display |-> TRUE] ELSE NoWant]
    BY InitGame
  <2> QED BY <2>1 DEF WantTypes, NoWant, Names
<1>3. pc \in Pcs
  BY DEF Init, Pcs
<1> QED BY <1>1, <1>2, <1>3 DEF TypeInv

(* Update discards, goes on, or begins a load. *)
LEMMA UpdateCases ==
  ASSUME Update
  PROVE  \/ Unwanted(game) # {} /\ game' = DiscardUnwanted(game) /\ pc' = "slot0"
         \/ game' = game /\ pc' = "display"
         \/ /\ Unwanted(game) = {} /\ Absent(game) # {} /\ pc' \in {"block0", "block1", "display"}
            /\ game' = level_get_for_use(game, want[NextToLoad(game)].name, Disposable(game))
BY DEF Update

LEMMA NextType == TypeInv /\ [Next]_vars => TypeInv'
<1> SUFFICES ASSUME TypeInv, [Next]_vars PROVE TypeInv'
  OBVIOUS
<1>1. GameOK(game) /\ want \in WantTypes /\ pc \in Pcs
  BY DEF TypeInv
<1>2. ASSUME NEW w \in Wanted, WantLevels(w[1], w[2]) PROVE TypeInv'
  <2>1. w[1] \in Names /\ w[2] \in Names
    BY <1>2, LevelAssumption DEF Names
  <2>2. want_levels(w[1], w[2]) \in WantTypes
    BY <1>1, <2>1, WantLevelsType
  <2> QED BY <1>1, <1>2, <2>2 DEF WantLevels, TypeInv
<1>3. ASSUME NEW i \in Slots, NEW d \in BOOLEAN, WantDisplay(i, d) PROVE TypeInv'
  <2>1. want' \in WantTypes
    BY <1>1, <1>3 DEF WantDisplay, WantTypes
  <2> QED BY <1>1, <1>3, <2>1 DEF WantDisplay, TypeInv
<1>4. ASSUME NEW s \in Slots, LoadContinue(s) PROVE TypeInv'
  <2>1. GameOK(load_continue(game, s))
    BY <1>1, LoadContinueType
  <2>2. want' = want /\ pc' \in Pcs /\ game' = load_continue(game, s)
    BY <1>4 DEF LoadContinue, Pcs
  <2> QED BY <1>1, <2>1, <2>2 DEF TypeInv
<1>5. ASSUME NEW s \in Slots, WaitForLevel(s) PROVE TypeInv'
  <2>1. GameOK(load_continue(game, s))
    BY <1>1, LoadContinueType
  <2>2. want' = want /\ pc' \in Pcs /\ (game' = game \/ game' = load_continue(game, s))
    BY <1>1, <1>5 DEF WaitForLevel, Pcs
  <2> QED BY <1>1, <2>1, <2>2 DEF TypeInv
<1>6. CASE Update
  <2>1. want' = want /\ pc' \in Pcs
    BY <1>6, UpdateCases DEF Update, Pcs
  <2>2. CASE game' = DiscardUnwanted(game)
    BY <1>1, <2>1, <2>2, DiscardType DEF TypeInv
  <2>3. CASE game' = game
    BY <1>1, <2>1, <2>3 DEF TypeInv
  <2>4. CASE /\ Absent(game) # {}
             /\ game' = level_get_for_use(game, want[NextToLoad(game)].name, Disposable(game))
    <3>1. want[NextToLoad(game)].name \in Levels \cup Missing /\ Disposable(game) \in Slots
      BY <1>1, <2>4, ToLoadFacts, DisposableSlot
    <3>2. GameOK(level_get_for_use(game, want[NextToLoad(game)].name, Disposable(game)))
      BY <1>1, <3>1, GetForUseFacts
    <3> QED BY <2>1, <2>4, <3>2 DEF TypeInv
  <2> QED BY <1>6, <2>2, <2>3, <2>4, UpdateCases
<1>7. CASE Display
  <2>1. want' = want /\ pc' \in Pcs
    BY <1>7 DEF Display, Pcs
  <2>2. GameOK(game')
    BY <1>1, <1>7, DisplayFacts
  <2> QED BY <1>1, <2>1, <2>2 DEF TypeInv
<1>8. CASE Answer
  <2>1. GameOK(Served(game))
    BY <1>1, ServedFacts
  <2> QED BY <1>1, <1>8, <2>1 DEF Answer, TypeInv
<1>9. CASE UNCHANGED vars
  BY <1>1, <1>9 DEF vars, TypeInv
<1> QED BY <1>2, <1>3, <1>4, <1>5, <1>6, <1>7, <1>8, <1>9 DEF Next

LEMMA TypeInvTypeOK == TypeInv => TypeOK
<1> SUFFICES ASSUME TypeInv PROVE TypeOK
  OBVIOUS
<1>1. game \in GameTypes
  BY DEF TypeInv, GameOK
<1>2. /\ game.lev \in [Slots -> SlotTypes] /\ game.loadingLevel \in Slots \cup {NoSlot}
      /\ game.relocate \in BOOLEAN /\ game.received \in BOOLEAN
      /\ game.iop.file \in Levels \cup {NoLevel}
  BY <1>1 DEF GameTypes, IopTypes
<1> QED BY <1>2 DEF TypeInv, TypeOK, WantTypes, Pcs, SlotTypes, Names

(* The state of the slots, the linker and the channel keeps its types, also *)
(* when loads overlap: a message that asks for a level names one, and the   *)
(* IOP is never asked for an object past the end of a file.                 *)
THEOREM TypeCorrectness == Spec => []TypeOK
<1>1. Init => TypeInv
  BY InitType
<1>2. TypeInv /\ [Next]_vars => TypeInv'
  BY NextType
<1>3. TypeInv => TypeOK
  BY TypeInvTypeOK
<1> QED BY <1>1, <1>2, <1>3, PTL DEF Spec

-----------------------------------------------------------------------------
(***************************************************************************)
(* A load, step by step.  At most one slot is under way: it loads, or a    *)
(* link of the level it had is not through.  What its object list, the     *)
(* request, the answer, the open file and the linker say fits together in  *)
(* five ways, one for each place a load can be in.                         *)
(***************************************************************************)
IsUnderWay(L) == L.status \in LoadingStatuses \/ L.linking

Own(L) == \A i \in DOMAIN L.ran : L.ran[i] = <<L.name, i>>

(* The file was asked for and the IOP has not answered. *)
AskedFirst(g, s) ==
  LET L == g.lev[s] IN
  /\ g.rpc.busy /\ g.received /\ ~L.linking /\ ~g.relocate
  /\ g.rpc.fno = "LOAD" /\ g.rpc.level = L.name /\ g.rpc.to = s /\ g.rpc.top = L.current
  /\ Len(L.ran) = 0

(* The next object was asked for.  The last one goes where the request says. *)
AskedNext(g, s) ==
  LET L == g.lev[s] IN
  /\ g.rpc.busy /\ g.received /\ ~L.linking /\ ~g.relocate
  /\ g.rpc.fno = "NEXT" /\ g.iop.file = L.name /\ g.iop.given = Len(L.ran)
  /\ Len(L.ran) + 1 = NumObjs[L.name] => g.rpc.to = s /\ g.rpc.top = L.current

Answered(g, s) ==
  LET L == g.lev[s]
      n == Len(L.ran) + 1 IN
  /\ ~g.rpc.busy /\ g.received /\ ~L.linking /\ ~g.relocate
  /\ \/ /\ n < NumObjs[L.name] /\ g.rpc.result = "MORE" /\ g.rpc.obj = <<L.name, n>>
        /\ g.iop.file = L.name /\ g.iop.given = n
     \/ /\ n = NumObjs[L.name] /\ g.rpc.result = "DONE"
        /\ g.atTop[s].obj = <<L.name, n>> /\ g.atTop[s].pos = L.current

(* o is the object the slot needs next, and the channel is at rest. *)
Due(g, s, o) ==
  LET L == g.lev[s]
      n == Len(L.ran) + 1 IN
  /\ L.status \in {"loading", "loading-bt"} /\ L.name \in Levels /\ Own(L)
  /\ g.loadingLevel = s /\ ~g.relocate /\ o = <<L.name, n>>
  /\ L.status = "loading" => /\ n < NumObjs[L.name] /\ ~g.rpc.busy /\ ~g.received
                             /\ g.iop.file = L.name /\ g.iop.given = n
  /\ L.status = "loading-bt" => n = NumObjs[L.name]

Linking(g, s) == g.lev[s].linking /\ Due(g, s, g.linker.obj)

(* The texture page waits to be moved: only in slot 0, never the last object. *)
Moving(g, s) ==
  LET L == g.lev[s] IN
  /\ ~g.rpc.busy /\ ~g.received /\ ~L.linking /\ g.relocate /\ s = 0
  /\ Len(L.ran) + 1 < NumObjs[L.name] /\ g.iop.file = L.name /\ g.iop.given = Len(L.ran)

(* A level that is not on the disc is asked for, and refused. *)
MissingLoad(g, s) ==
  LET L == g.lev[s] IN
  /\ Len(L.ran) = 0 /\ ~L.linking /\ ~g.relocate
  /\ g.rpc.busy => g.rpc.fno = "LOAD" /\ g.rpc.level = L.name
  /\ ~g.rpc.busy /\ g.received => g.rpc.result = "ERROR"

SlotOK(g, s) ==
  LET L == g.lev[s] IN
  /\ L.status = "inactive" => ~L.linking \/ g.loadingLevel = NoSlot
  /\ L.status # "inactive" => Own(L) /\ L.name # NoLevel
  /\ L.status = "loading" /\ L.name \in Missing => MissingLoad(g, s)
  /\ L.status = "loading" /\ L.name \notin Missing =>
       /\ Len(L.ran) < NumObjs[L.name]
       /\ AskedFirst(g, s) \/ AskedNext(g, s) \/ Answered(g, s) \/ Linking(g, s) \/ Moving(g, s)
  /\ L.status = "loading-bt" => Linking(g, s)
  /\ L.status \in {"login", "loaded", "active"} =>
       L.name \in Levels /\ L.bsp = L.name /\ Len(L.ran) = NumObjs[L.name] /\ ~L.linking
  /\ L.linking => g.linker.to = s /\ g.linker.left > 0 /\ g.linker.obj # NoObj
  /\ L.status \in LoadingStatuses <=> g.loadingLevel = s

Alone(g, s) == \A t \in Slots : t # s => ~IsUnderWay(g.lev[t])

LoadInv(g) ==
  /\ GameOK(g)
  /\ \A s \in Slots : SlotOK(g, s)
  /\ \A s \in Slots : IsUnderWay(g.lev[s]) => Alone(g, s)
  /\ g.relocate => g.lev[0].status = "loading"
  /\ \A s, t \in Slots : g.lev[s].status # "inactive" /\ g.lev[t].status # "inactive"
                         /\ g.lev[s].name = g.lev[t].name => s = t

(* What SlotOK reads of a slot that is not under way. *)
SameBody(L, M) ==
  /\ M.status = L.status /\ M.name = L.name /\ M.linking = L.linking
  /\ M.bsp = L.bsp /\ M.ran = L.ran

LEMMA IdleSlot ==
  ASSUME NEW g, NEW h, NEW t \in Slots, SlotOK(g, t), ~IsUnderWay(g.lev[t]),
         SameBody(g.lev[t], h.lev[t]), h.loadingLevel # t
  PROVE  SlotOK(h, t) /\ ~IsUnderWay(h.lev[t])
BY DEF SlotOK, SameBody, IsUnderWay, Own, LoadingStatuses

(* A step of slot s, the only one that may be under way. *)
Stepped(g, h, s) ==
  /\ GameOK(h) /\ SlotOK(h, s) /\ h.loadingLevel \in {s, NoSlot}
  /\ h.lev[s].name = g.lev[s].name
  /\ h.lev[s].status = "inactive" <=> g.lev[s].status = "inactive"
  /\ \A t \in Slots : t # s => SameBody(g.lev[t], h.lev[t])
  /\ h.relocate => s = 0 /\ h.lev[0].status = "loading"

(* A step that begins no load and moves no slot to another level. *)
Calm(g, h) ==
  \A t \in Slots : /\ h.lev[t].name = g.lev[t].name
                   /\ h.lev[t].status = "inactive" <=> g.lev[t].status = "inactive"
                   /\ IsUnderWay(h.lev[t]) => IsUnderWay(g.lev[t])

LEMMA SteppedInv ==
  ASSUME NEW g, LoadInv(g), NEW s \in Slots, IsUnderWay(g.lev[s]), NEW h, Stepped(g, h, s)
  PROVE  LoadInv(h) /\ Calm(g, h)
<1>1. \A t \in Slots : t # s => h.loadingLevel # t
  BY LevelAssumption DEF Stepped, Slots
<1>2. \A t \in Slots : t # s => /\ SlotOK(g, t) /\ ~IsUnderWay(g.lev[t])
                                /\ SameBody(g.lev[t], h.lev[t])
  BY DEF LoadInv, Alone, Stepped
<1>3. \A t \in Slots : t # s => SlotOK(h, t) /\ ~IsUnderWay(h.lev[t])
  BY <1>1, <1>2, IdleSlot
<1>4. \A t \in Slots : SlotOK(h, t)
  BY <1>3 DEF Stepped
<1>5. \A t \in Slots : IsUnderWay(h.lev[t]) => Alone(h, t)
  BY <1>3 DEF Alone
<1>6. \A t \in Slots : /\ h.lev[t].name = g.lev[t].name
                       /\ h.lev[t].status = "inactive" <=> g.lev[t].status = "inactive"
  BY <1>2 DEF Stepped, SameBody
<1>7. \A t, u \in Slots : h.lev[t].status # "inactive" /\ h.lev[u].status # "inactive"
                          /\ h.lev[t].name = h.lev[u].name => t = u
  BY <1>6 DEF LoadInv
<1>8. Calm(g, h)
  BY <1>3, <1>6 DEF Calm
<1> QED BY <1>4, <1>5, <1>7, <1>8 DEF LoadInv, Stepped

(* An object the slot needed has run: it asks for the next, or logs in. *)
Ready(g, s) ==
  LET L == g.lev[s] IN
  /\ L.status \in {"loading", "loading-bt"} /\ L.name \in Levels /\ Own(L)
  /\ g.loadingLevel = s
  /\ L.status = "loading" =>
       /\ Len(L.ran) < NumObjs[L.name] /\ ~g.rpc.busy /\ ~g.received
       /\ g.iop.file = L.name /\ g.iop.given = Len(L.ran)
       /\ g.relocate => s = 0 /\ Len(L.ran) + 1 < NumObjs[L.name]
  /\ L.status = "loading-bt" =>
       Len(L.ran) = NumObjs[L.name] /\ L.bsp = L.name /\ ~g.relocate

LEMMA OwnAppend ==
  ASSUME NEW L, NEW M, L.ran \in Seq((Levels \X Nat) \cup {NoObj}), L.name \in Levels,
         Own(L), M.name = L.name, M.ran = Append(L.ran, <<L.name, Len(L.ran) + 1>>)
  PROVE  Own(M) /\ Len(M.ran) = Len(L.ran) + 1 /\ Len(L.ran) \in Nat
<1> DEFINE n == Len(L.ran) + 1
           o == <<L.name, n>>
<1>1. n \in Nat \ {0} /\ DOMAIN L.ran = 1 .. (n - 1) /\ o \in (Levels \X Nat) \cup {NoObj}
  OBVIOUS
<1>2. /\ DOMAIN M.ran = 1 .. n /\ Len(M.ran) = n
      /\ M.ran[n] = o /\ \A i \in 1 .. (n - 1) : M.ran[i] = L.ran[i]
  BY <1>1
<1>3. ASSUME NEW i \in 1 .. n PROVE M.ran[i] = <<M.name, i>>
  <2>1. CASE i = n
    BY <1>2, <2>1
  <2>2. CASE i # n
    <3>1. i \in 1 .. (n - 1)
      BY <1>1, <2>2
    <3> QED BY <1>1, <1>2, <3>1 DEF Own
  <2> QED BY <2>1, <2>2
<1> QED BY <1>1, <1>2, <1>3 DEF Own

LEMMA RunReady ==
  ASSUME NEW g, GameOK(g), NEW s \in Slots, NEW o, Due(g, s, o), NEW h, GameOK(h),
         SameWork(g, h), HasRun(g, h, s, o)
  PROVE  /\ Ready(h, s) /\ h.lev[s].linking = g.lev[s].linking
         /\ h.lev[s].name = g.lev[s].name
         /\ \A t \in Slots : t # s => SameBody(g.lev[t], h.lev[t])
<1> DEFINE L == g.lev[s]
           M == h.lev[s]
           n == Len(L.ran) + 1
<1>1. /\ L.ran \in Seq((Levels \X Nat) \cup {NoObj}) /\ L.name \in Levels /\ Own(L)
      /\ g.loadingLevel = s /\ ~g.relocate /\ o = <<L.name, n>>
      /\ o[1] = L.name /\ o[2] = n
  BY SlotFacts DEF GameOK, Due
<1>2. /\ M.status = L.status /\ M.name = L.name /\ M.linking = L.linking
      /\ h.loadingLevel = s /\ h.rpc = g.rpc /\ h.received = g.received /\ h.iop = g.iop
      /\ M.ran = Append(L.ran, o)
  BY <1>1 DEF SameWork, SameChannel, SameSlot, HasRun
<1>3. Own(M) /\ Len(M.ran) = n /\ n \in Nat
  <2>1. M.ran = Append(L.ran, <<L.name, Len(L.ran) + 1>>) /\ M.name = L.name
    BY <1>1, <1>2
  <2>2. L.ran \in Seq((Levels \X Nat) \cup {NoObj}) /\ L.name \in Levels /\ Own(L)
    BY <1>1
  <2> HIDE DEF L, M
  <2>3. Own(M) /\ Len(M.ran) = Len(L.ran) + 1 /\ Len(L.ran) \in Nat
    BY <2>1, <2>2, OwnAppend
  <2> QED BY <2>3
<1>4. NumObjs[L.name] \in Nat /\ Tex[L.name] \in Nat /\ Tex[L.name] + 1 < NumObjs[L.name]
  BY <1>1, LevelFacts
<1>5. s # NoSlot
  BY LevelAssumption DEF Slots
<1>6. h.relocate => n = Tex[L.name] /\ s = 0
  BY <1>1 DEF HasRun
<1>7. n = NumObjs[L.name] => M.bsp = L.name
  BY <1>1, <1>5 DEF HasRun, GivesBsp
<1>8. \A t \in Slots : t # s => SameBody(g.lev[t], h.lev[t])
  BY <1>1 DEF SameWork, SameSlot, HasRun, SameBody
<1>9. Ready(h, s)
  <2>1. M.status \in {"loading", "loading-bt"}
    BY <1>2 DEF Due
  <2>2. CASE L.status = "loading"
    <3>1. n < NumObjs[L.name] /\ ~g.rpc.busy /\ ~g.received /\ g.iop.file = L.name /\ g.iop.given = n
      BY <2>2 DEF Due
    <3> QED BY <1>1, <1>2, <1>3, <1>4, <1>6, <2>1, <2>2, <3>1 DEF Ready
  <2>3. CASE L.status = "loading-bt"
    <3>1. n = NumObjs[L.name]
      BY <2>3 DEF Due
    <3>2. ~h.relocate /\ M.bsp = L.name
      BY <1>4, <1>6, <1>7, <3>1
    <3>3. M.status = "loading-bt" /\ M.status # "loading" /\ Len(M.ran) = NumObjs[M.name]
      BY <1>2, <1>3, <2>3, <3>1
    <3> HIDE DEF L, M, n
    <3> QED BY <1>1, <1>2, <1>3, <2>1, <3>2, <3>3 DEF Ready, M
  <2> QED BY <1>2, <2>1, <2>2, <2>3
<1> QED BY <1>2, <1>8, <1>9

LEMMA AfterReady ==
  ASSUME NEW g, GameOK(g), NEW s \in Slots, Ready(g, s), ~g.lev[s].linking
  PROVE  Stepped(g, AfterLink(g, s), s)
<1> DEFINE L == g.lev[s]
           h == AfterLink(g, s)
<1>1. GameOK(h) /\ g \in GameTypes /\ L \in SlotTypes /\ L.status \in {"loading", "loading-bt"}
  BY AfterLinkType, SlotFacts DEF GameOK, Ready
<1>2. L.name \in Levels /\ Own(L) /\ g.loadingLevel = s /\ L.name # NoLevel /\ L.name \notin Missing
  BY LevelFacts DEF Ready
<1>3. CASE L.status = "loading" /\ g.relocate
  <2>1. h = g
    BY <1>3 DEF AfterLink
  <2>2. Moving(g, s) /\ s = 0
    BY <1>3 DEF Ready, Moving
  <2>3. SlotOK(g, s)
    BY <1>2, <1>3, <2>2 DEF SlotOK, Ready, LoadingStatuses
  <2> QED BY <1>2, <1>3, <2>1, <2>2, <2>3 DEF Stepped, SameBody
<1>4. CASE L.status = "loading" /\ ~g.relocate
  <2>1. h = call(g, "NEXT", NoLevel, s)
    BY <1>4 DEF AfterLink, dgo_load_continue
  <2>2. /\ GameOK(h) /\ SameLoad(g, h) /\ h.received /\ h.rpc.busy
        /\ h.rpc.fno = "NEXT" /\ h.rpc.to = s /\ h.rpc.top = L.current /\ h.iop = g.iop
    <3>1. ~g.rpc.busy
      BY <1>4 DEF Ready
    <3> HIDE DEF h
    <3> QED BY <2>1, <3>1, CallFacts
  <2> HIDE DEF h
  <2>3. h.lev[s] = L /\ h.loadingLevel = s /\ ~h.relocate
    BY <1>2, <1>4, <2>2 DEF SameLoad
  <2>4. AskedNext(h, s)
    BY <1>4, <2>2, <2>3 DEF AskedNext, Ready
  <2>5. SlotOK(h, s)
    BY <1>2, <1>4, <2>3, <2>4 DEF SlotOK, Ready, LoadingStatuses
  <2>6. \A t \in Slots : SameBody(g.lev[t], h.lev[t])
    BY <2>2 DEF SameLoad, SameBody
  <2> QED BY <2>2, <2>3, <2>5, <2>6 DEF Stepped, h
<1>5. CASE L.status = "loading-bt"
  <2>1. h = login_begin(g, s)
    BY <1>5 DEF AfterLink
  <2>2. L.bsp = L.name /\ L.bsp # NoLevel /\ Len(L.ran) = NumObjs[L.name] /\ ~g.relocate
    BY <1>2, <1>5 DEF Ready
  <2>3. /\ OnlySlot(g, h, s) /\ KeepsLoad(L, h.lev[s])
        /\ h.lev[s].status = "login" /\ h.loadingLevel = s
    BY <1>2, <2>1, <2>2, LoginBeginFacts
  <2> HIDE DEF h
  <2>4. SlotOK(h, s)
    BY <1>2, <2>2, <2>3 DEF SlotOK, KeepsLoad, Own, LoadingStatuses
  <2>5. \A t \in Slots : t # s => SameBody(g.lev[t], h.lev[t])
    BY <2>3 DEF OnlySlot, OtherSame, SameBody
  <2>6. h.lev[s].name = L.name /\ ~h.relocate
    BY <2>2, <2>3 DEF KeepsLoad, OnlySlot, OtherSame
  <2> QED BY <1>1, <1>5, <2>3, <2>4, <2>5, <2>6 DEF Stepped, h
<1> QED BY <1>1, <1>3, <1>4, <1>5

LEMMA SteppedAfter ==
  ASSUME NEW g, NEW h, NEW k, NEW s \in Slots, Stepped(h, k, s),
         h.lev[s].name = g.lev[s].name,
         h.lev[s].status = "inactive" <=> g.lev[s].status = "inactive",
         \A t \in Slots : t # s => SameBody(g.lev[t], h.lev[t])
  PROVE  Stepped(g, k, s)
BY DEF Stepped, SameBody

LEMMA DueObject ==
  ASSUME NEW g, GameOK(g), NEW s \in Slots, NEW o, Due(g, s, o)
  PROVE  o \in ObjTypes /\ o # NoObj
<1> DEFINE L == g.lev[s]
<1>1. /\ L.name \in Levels /\ o = <<L.name, Len(L.ran) + 1>>
      /\ L.ran \in Seq((Levels \X Nat) \cup {NoObj})
      /\ L.status \in {"loading", "loading-bt"}
  BY SlotFacts DEF GameOK, Due
<1>2. /\ NumObjs[L.name] \in Nat /\ Len(L.ran) + 1 <= NumObjs[L.name]
      /\ Len(L.ran) \in Nat /\ L.name # NoLevel
  <2>1. NumObjs[L.name] \in Nat /\ L.name # NoLevel /\ Len(L.ran) \in Nat
    BY <1>1, LevelFacts
  <2> QED BY <1>1, <2>1 DEF Due
<1>3. o \in Objects
  BY <1>1, <1>2, ObjectFacts
<1> QED BY <1>1, <1>2, <1>3 DEF ObjTypes, NoObj

LEMMA LinkOrLaterStepped ==
  ASSUME NEW g, GameOK(g), NEW s \in Slots, NEW o, Due(g, s, o), ~g.lev[s].linking
  PROVE  Stepped(g, LinkOrLater(g, s, o), s)
<1> DEFINE h == link_begin(g, s, o)
           on == TRUE
           k == SetLinking(h, s, on)
<1>1. o \in ObjTypes /\ o # NoObj
  BY DueObject
<1>2. LinkOrLater(g, s, o) = IF Linked(h) THEN AfterLink(h, s) ELSE k
  BY DEF LinkOrLater, SetLinking
<1>3. /\ GameOK(h) /\ SameWork(g, h)
      /\ h.linker.obj = o /\ h.linker.to = s /\ h.linker.left \in Nat
      /\ IF h.linker.left > 0 THEN NotRun(g, h) ELSE HasRun(g, h, s, o)
  BY <1>1, LinkBeginFacts
<1> HIDE DEF h
<1>4. h.lev[s].name = g.lev[s].name /\ h.lev[s].status = g.lev[s].status
  BY <1>3 DEF SameWork, SameSlot
<1>5. CASE h.linker.left = 0
  <2>1. HasRun(g, h, s, o)
    BY <1>3, <1>5
  <2>2. /\ Ready(h, s) /\ h.lev[s].linking = g.lev[s].linking
        /\ \A t \in Slots : t # s => SameBody(g.lev[t], h.lev[t])
    BY <1>3, <2>1, RunReady
  <2>3. Stepped(h, AfterLink(h, s), s)
    BY <1>3, <2>2, AfterReady
  <2>4. Stepped(g, AfterLink(h, s), s)
    BY <1>4, <2>2, <2>3, SteppedAfter
  <2> QED BY <1>2, <1>5, <2>4 DEF Linked
<1>6. CASE h.linker.left # 0
  <2>1. h.linker.left > 0 /\ NotRun(g, h)
    BY <1>3, <1>6
  <2>2. on \in BOOLEAN /\ on
    OBVIOUS
  <2> HIDE DEF on
  <2>3. /\ GameOK(k) /\ OnlySlot(h, k, s) /\ k.loadingLevel = h.loadingLevel
        /\ k.lev[s].linking = on
        /\ k.lev[s].status = h.lev[s].status /\ k.lev[s].name = h.lev[s].name
        /\ k.lev[s].ran = h.lev[s].ran
    <3>1. GameOK(h) /\ on \in BOOLEAN
      BY <1>3, <2>2
    <3> QED BY <3>1, SetLinkingFacts
  <2> HIDE DEF k
  <2>4. /\ k.lev[s].status = g.lev[s].status /\ k.lev[s].name = g.lev[s].name
        /\ k.lev[s].ran = g.lev[s].ran /\ k.loadingLevel = g.loadingLevel
        /\ k.relocate = g.relocate /\ k.linker = h.linker
        /\ k.rpc = g.rpc /\ k.received = g.received /\ k.iop = g.iop
    BY <1>3, <1>4, <2>1, <2>3 DEF SameWork, NotRun, OnlySlot, OtherSame, SameChannel
  <2>5. Due(k, s, o)
    BY <2>4 DEF Due, Own
  <2>6. Linking(k, s)
    BY <1>3, <2>2, <2>3, <2>4, <2>5 DEF Linking
  <2>7. SlotOK(k, s) /\ k.loadingLevel = s /\ ~k.relocate
    <3>1. /\ k.lev[s].name # NoLevel /\ k.lev[s].name \notin Missing
          /\ k.linker.to = s /\ k.linker.left > 0 /\ k.linker.obj # NoObj
      BY <1>1, <1>3, <2>1, <2>4, <2>5, LevelFacts DEF Due
    <3>2. k.lev[s].status = "loading" => Len(k.lev[s].ran) < NumObjs[k.lev[s].name]
      <4>1. k.lev[s].ran \in Seq((Levels \X Nat) \cup {NoObj}) /\ k.lev[s].name \in Levels
        BY <2>3, <2>5, SlotFacts DEF GameOK, Due
      <4>2. Len(k.lev[s].ran) \in Nat /\ NumObjs[k.lev[s].name] \in Nat
        BY <4>1, LevelFacts
      <4> QED BY <2>5, <4>2 DEF Due
    <3> QED BY <2>5, <2>6, <3>1, <3>2 DEF SlotOK, Due, LoadingStatuses
  <2>8. \A t \in Slots : t # s => SameBody(g.lev[t], k.lev[t])
    BY <1>3, <2>1, <2>3 DEF SameWork, SameSlot, NotRun, OnlySlot, OtherSame, SameBody
  <2>9. Stepped(g, k, s)
    BY <2>3, <2>4, <2>7, <2>8 DEF Stepped
  <2> QED BY <1>2, <1>6, <2>9 DEF Linked
<1> QED BY <1>5, <1>6

LEMMA SameStepped ==
  ASSUME NEW g, GameOK(g), NEW s \in Slots, SlotOK(g, s), g.loadingLevel \in {s, NoSlot},
         ~g.relocate
  PROVE  Stepped(g, g, s)
BY DEF Stepped, SameBody

LEMMA GetNextStepped ==
  ASSUME NEW g, GameOK(g), NEW s \in Slots, SlotOK(g, s), g.lev[s].status = "loading",
         ~g.lev[s].linking, ~g.relocate
  PROVE  Stepped(g, GetNext(g, s), s)
<1> DEFINE L == g.lev[s]
           h == SetReceived(g)
           k == SetStatus(h, s, "loading-bt")
<1>1. /\ g.loadingLevel = s /\ Own(L) /\ L.name # NoLevel /\ L.name \in Levels \cup Missing
      /\ L.ran \in Seq((Levels \X Nat) \cup {NoObj})
  BY SlotFacts DEF GameOK, SlotOK, LoadingStatuses, Names
<1>2. GetNext(g, s) =
        IF g.rpc.busy \/ ~g.received THEN g
        ELSE IF g.rpc.result = "ERROR" THEN h
        ELSE IF g.rpc.result = "MORE" THEN LinkOrLater(h, s, g.rpc.obj)
        ELSE LinkLast(k, s)
  BY GetNextCases
<1>3. /\ GameOK(h) /\ SameLoad(g, h) /\ ~h.received
      /\ h.rpc = g.rpc /\ h.iop = g.iop /\ h.atTop = g.atTop
  BY SetReceivedFacts
<1> HIDE DEF h
<1>4. h.lev[s] = L /\ h.loadingLevel = s /\ ~h.relocate
  BY <1>1, <1>3 DEF SameLoad
<1>5. \A t \in Slots : SameBody(g.lev[t], h.lev[t])
  BY <1>3 DEF SameLoad, SameBody
<1>6. CASE g.rpc.busy \/ ~g.received
  BY <1>1, <1>2, <1>6, SameStepped
<1>7. CASE ~(g.rpc.busy \/ ~g.received) /\ L.name \in Missing
  <2>1. g.rpc.result = "ERROR" /\ Len(L.ran) = 0
    BY <1>7 DEF SlotOK, MissingLoad
  <2>2. MissingLoad(h, s)
    BY <1>3, <1>4, <1>7, <2>1 DEF MissingLoad
  <2>3. SlotOK(h, s)
    BY <1>1, <1>4, <1>7, <2>2 DEF SlotOK, LoadingStatuses
  <2>4. Stepped(g, h, s)
    BY <1>3, <1>4, <1>5, <2>3 DEF Stepped
  <2> QED BY <1>2, <1>7, <2>1, <2>4
<1>8. CASE ~(g.rpc.busy \/ ~g.received) /\ L.name \notin Missing
  <2>1. Answered(g, s) /\ L.name \in Levels
    BY <1>1, <1>8 DEF SlotOK, AskedFirst, AskedNext, Linking, Moving
  <2> DEFINE n == Len(L.ran) + 1
  <2>2. CASE /\ n < NumObjs[L.name] /\ g.rpc.result = "MORE" /\ g.rpc.obj = <<L.name, n>>
             /\ g.iop.file = L.name /\ g.iop.given = n
    <3>1. Due(h, s, g.rpc.obj)
      BY <1>1, <1>3, <1>4, <1>8, <2>1, <2>2 DEF Due
    <3>2. Stepped(h, LinkOrLater(h, s, g.rpc.obj), s)
      BY <1>3, <1>4, <3>1, LinkOrLaterStepped
    <3>3. Stepped(g, LinkOrLater(h, s, g.rpc.obj), s)
      BY <1>4, <1>5, <3>2, SteppedAfter
    <3> QED BY <1>2, <1>8, <2>2, <3>3
  <2>3. CASE /\ n = NumObjs[L.name] /\ g.rpc.result = "DONE"
             /\ g.atTop[s].obj = <<L.name, n>> /\ g.atTop[s].pos = L.current
    <3>1. "loading-bt" \in Statuses
      BY DEF Statuses
    <3>2. /\ GameOK(k) /\ OnlySlot(h, k, s) /\ k.loadingLevel = h.loadingLevel
          /\ k.lev[s].status = "loading-bt"
          /\ k.lev[s].linking = h.lev[s].linking /\ k.lev[s].name = h.lev[s].name
          /\ k.lev[s].current = h.lev[s].current /\ k.lev[s].ran = h.lev[s].ran
      BY <1>3, <3>1, SetStatusFacts
    <3> HIDE DEF k
    <3>3. /\ k.lev[s].name = L.name /\ k.lev[s].ran = L.ran /\ ~k.lev[s].linking
          /\ k.lev[s].current = L.current /\ k.loadingLevel = s /\ ~k.relocate
          /\ k.atTop = g.atTop
      BY <1>3, <1>4, <3>2 DEF OnlySlot, OtherSame, SameChannel
    <3>4. LastObject(k, s) = <<L.name, n>>
      BY <2>3, <3>3 DEF LastObject
    <3>5. Due(k, s, LastObject(k, s))
      BY <1>1, <2>1, <2>3, <3>2, <3>3, <3>4 DEF Due, Own
    <3>6. Stepped(k, LinkOrLater(k, s, LastObject(k, s)), s)
      BY <3>2, <3>3, <3>5, LinkOrLaterStepped
    <3>7. LinkLast(k, s) = LinkOrLater(k, s, LastObject(k, s))
      BY DEF LinkLast, LastObject
    <3>8. \A t \in Slots : t # s => SameBody(g.lev[t], k.lev[t])
      BY <1>5, <3>2 DEF OnlySlot, OtherSame
    <3>9. Stepped(g, LinkLast(k, s), s)
      BY <3>2, <3>3, <3>6, <3>7, <3>8, SteppedAfter
    <3>10. ~(g.rpc.result = "ERROR") /\ ~(g.rpc.result = "MORE")
      BY <2>3
    <3> QED BY <1>2, <1>8, <3>9, <3>10
  <2> QED BY <2>1, <2>2, <2>3 DEF Answered
<1> QED BY <1>6, <1>7, <1>8

LEMMA MovingFacts ==
  ASSUME NEW g, LoadInv(g), g.relocate
  PROVE  /\ Moving(g, 0) /\ g.lev[0].status = "loading" /\ g.lev[0].name \notin Missing
         /\ g.loadingLevel = 0 /\ \A t \in Slots : ~g.lev[t].linking
<1>1. g.lev[0].status = "loading" /\ SlotOK(g, 0) /\ 0 \in Slots
  BY DEF LoadInv, Slots
<1>2. Moving(g, 0) /\ g.lev[0].name \notin Missing /\ g.loadingLevel = 0
  BY <1>1 DEF SlotOK, MissingLoad, AskedFirst, AskedNext, Answered, Linking, Due,
              LoadingStatuses
<1>3. IsUnderWay(g.lev[0]) /\ ~g.lev[0].linking
  BY <1>1, <1>2 DEF IsUnderWay, LoadingStatuses, Moving
<1>4. Alone(g, 0)
  BY <1>1, <1>3 DEF LoadInv
<1> QED BY <1>1, <1>2, <1>3, <1>4 DEF Alone, IsUnderWay

(* A link goes on; its object has run: the load goes on, or nothing does if *)
(* the slot was emptied.                                                    *)
LEMMA ResumeStepped ==
  ASSUME NEW g, LoadInv(g), NEW s \in Slots, g.lev[s].linking
  PROVE  Stepped(g, load_continue(g, s), s)
<1> DEFINE L == g.lev[s]
           k == link_resume(g)
           off == FALSE
           m == SetLinking(k, s, off)
<1>1. /\ GameOK(g) /\ SlotOK(g, s) /\ ~g.relocate
      /\ g.linker.to = s /\ g.linker.left > 0 /\ g.linker.obj # NoObj
      /\ g.linker.left \in Nat
  BY MovingFacts DEF LoadInv, SlotOK, GameOK, GameTypes, LinkerTypes
<1>2. load_continue(g, s) = IF Linked(k) THEN AfterLink(m, s) ELSE k
  BY <1>1, LoadContinueCases
<1>3. /\ GameOK(k) /\ SameWork(g, k)
      /\ k.linker.obj = g.linker.obj /\ k.linker.to = s
      /\ k.linker.left = g.linker.left - 1 /\ k.linker.left \in Nat
      /\ IF k.linker.left > 0 THEN NotRun(g, k) ELSE HasRun(g, k, s, g.linker.obj)
  <2>1. /\ GameOK(k) /\ SameWork(g, k)
        /\ k.linker.obj = g.linker.obj /\ k.linker.to = g.linker.to
        /\ k.linker.left = IF g.linker.left = 0 THEN 0 ELSE g.linker.left - 1
        /\ IF g.linker.obj = NoObj \/ k.linker.left > 0 THEN NotRun(g, k)
           ELSE HasRun(g, k, g.linker.to, g.linker.obj)
    BY <1>1, LinkResumeFacts
  <2> HIDE DEF k
  <2> QED BY <1>1, <2>1
<1> HIDE DEF k
<1>4. /\ k.lev[s].name = L.name /\ k.lev[s].status = L.status /\ k.lev[s].linking = L.linking
      /\ k.loadingLevel = g.loadingLevel
      /\ k.rpc = g.rpc /\ k.received = g.received /\ k.iop = g.iop
  BY <1>3 DEF SameWork, SameSlot, SameChannel
<1>5. \/ L.status \in {"loading", "loading-bt"} /\ Due(g, s, g.linker.obj)
      \/ L.status = "inactive" /\ g.loadingLevel = NoSlot
  <2>1. L.status \in Statuses
    BY <1>1, SlotFacts DEF GameOK
  <2> QED BY <1>1, <2>1 DEF SlotOK, MissingLoad, AskedFirst, AskedNext, Answered, Linking,
                            Moving, Statuses
<1>6. g.loadingLevel \in {s, NoSlot}
  BY <1>5 DEF Due
<1>7. CASE k.linker.left > 0
  <2>1. NotRun(g, k)
    BY <1>3, <1>7
  <2>2. k.lev[s].ran = L.ran /\ k.lev[s].bsp = L.bsp /\ ~k.relocate
    BY <1>1, <2>1 DEF NotRun
  <2>3. SlotOK(k, s)
    <3>1. CASE L.status \in {"loading", "loading-bt"} /\ Due(g, s, g.linker.obj)
      <4>1. Due(k, s, k.linker.obj)
        BY <1>3, <1>4, <2>2, <3>1 DEF Due, Own
      <4>2. Linking(k, s)
        BY <1>1, <1>4, <4>1 DEF Linking
      <4> QED
        BY <1>1, <1>3, <1>4, <1>7, <2>2, <3>1, <4>2 DEF SlotOK, MissingLoad, Own, LoadingStatuses
    <3>2. CASE L.status = "inactive" /\ g.loadingLevel = NoSlot
      BY <1>1, <1>3, <1>4, <1>7, <2>2, <3>2 DEF SlotOK, LoadingStatuses
    <3> QED BY <1>5, <3>1, <3>2
  <2>5. \A t \in Slots : t # s => SameBody(g.lev[t], k.lev[t])
    BY <1>3, <2>1 DEF SameWork, SameSlot, NotRun, SameBody
  <2>6. Stepped(g, k, s)
    BY <1>3, <1>4, <1>6, <2>2, <2>3, <2>5 DEF Stepped
  <2>7. ~Linked(k)
    BY <1>7 DEF Linked
  <2> QED BY <1>2, <2>6, <2>7
<1>8. CASE ~(k.linker.left > 0)
  <2>1. HasRun(g, k, s, g.linker.obj) /\ Linked(k)
    <3>1. k.linker.left = 0
      <4>1. k.linker.left \in Nat
        BY <1>3, Zenon
      <4> QED BY <1>8, <4>1
    <3>2. HasRun(g, k, s, g.linker.obj)
      BY <1>3, <1>8, Zenon
    <3> QED BY <3>1, <3>2 DEF Linked
  <2>2. off \in BOOLEAN /\ ~off
    OBVIOUS
  <2> HIDE DEF off
  <2>3. /\ GameOK(m) /\ OnlySlot(k, m, s) /\ m.loadingLevel = k.loadingLevel
        /\ m.lev[s].linking = off
        /\ m.lev[s].status = k.lev[s].status /\ m.lev[s].name = k.lev[s].name
        /\ m.lev[s].bsp = k.lev[s].bsp /\ m.lev[s].ran = k.lev[s].ran
    <3>1. GameOK(k) /\ off \in BOOLEAN
      BY <1>3, <2>2
    <3> QED BY <3>1, SetLinkingFacts
  <2> HIDE DEF m
  <2>4. /\ ~m.lev[s].linking /\ m.relocate = k.relocate
        /\ m.rpc = k.rpc /\ m.received = k.received /\ m.iop = k.iop
        /\ \A t \in Slots : t # s => m.lev[t] = k.lev[t]
    BY <2>2, <2>3 DEF OnlySlot, OtherSame, SameChannel
  <2>5. CASE L.status \in {"loading", "loading-bt"} /\ Due(g, s, g.linker.obj)
    <3>1. /\ Ready(k, s)
          /\ \A t \in Slots : t # s => SameBody(g.lev[t], k.lev[t])
      BY <1>1, <1>3, <2>1, <2>5, RunReady
    <3>2. Ready(m, s)
      <4>1. Own(k.lev[s]) => Own(m.lev[s])
        BY <2>3 DEF Own
      <4> QED BY <2>3, <2>4, <3>1, <4>1 DEF Ready
    <3>3. Stepped(m, AfterLink(m, s), s)
      BY <2>3, <2>4, <3>2, AfterReady
    <3>4. Stepped(g, AfterLink(m, s), s)
      BY <1>4, <2>3, <2>4, <3>1, <3>3, SteppedAfter
    <3> QED BY <1>2, <2>1, <3>4
  <2>6. CASE L.status = "inactive" /\ g.loadingLevel = NoSlot
    <3>1. ~GivesBsp(g, g.linker.obj) /\ g.loadingLevel # 0
      BY <2>6, LevelAssumption DEF GivesBsp
    <3>2. \A t \in Slots : t # s => SameBody(g.lev[t], k.lev[t])
      BY <1>3, <2>1, <3>1 DEF SameWork, SameSlot, HasRun, SameBody
    <3>3. ~m.relocate
      BY <1>1, <2>1, <2>4, <3>1 DEF HasRun
    <3>4. SlotOK(m, s)
      BY <1>1, <1>4, <2>3, <2>4, <2>6 DEF SlotOK, LoadingStatuses
    <3>5. AfterLink(m, s) = m
      BY <1>4, <2>3, <2>6 DEF AfterLink
    <3>6. Stepped(g, m, s)
      BY <1>4, <2>3, <2>4, <2>6, <3>2, <3>3, <3>4 DEF Stepped
    <3> QED BY <1>2, <2>1, <3>5, <3>6
  <2> QED BY <1>5, <2>5, <2>6
<1> QED BY <1>7, <1>8

LEMMA LoadContinueInv ==
  ASSUME NEW g, LoadInv(g), NEW s \in Slots
  PROVE  LET h == load_continue(g, s) IN
         LoadInv(h) /\ Calm(g, h) /\ (h.relocate => s = 0)
<1> DEFINE L == g.lev[s]
           h == load_continue(g, s)
<1>1. GameOK(g) /\ SlotOK(g, s) /\ L.status \in Statuses
  BY SlotFacts DEF LoadInv, GameOK
<1>2. ASSUME Stepped(g, h, s), IsUnderWay(L)
      PROVE  LoadInv(h) /\ Calm(g, h) /\ (h.relocate => s = 0)
  BY <1>2, SteppedInv DEF Stepped
<1>3. CASE L.linking
  <2>1. Stepped(g, h, s)
    BY <1>3, ResumeStepped
  <2> QED BY <1>2, <1>3, <2>1 DEF IsUnderWay
<1>4. CASE ~L.linking /\ g.relocate
  <2> DEFINE k == SetRelocate(g)
             M == g.lev[0]
  <2>1. /\ Moving(g, 0) /\ M.status = "loading" /\ M.name \notin Missing
        /\ g.loadingLevel = 0 /\ 0 \in Slots
    BY <1>4, MovingFacts DEF Slots
  <2>2. h = call(k, "NEXT", NoLevel, s)
    BY <1>1, <1>4, LoadContinueCases DEF dgo_load_continue
  <2>3. /\ GameOK(k) /\ SameChannel(g, k) /\ k.lev = g.lev /\ ~k.relocate
        /\ k.linker = g.linker /\ k.loadingLevel = g.loadingLevel
    BY <1>1, SetRelocateFacts
  <2> HIDE DEF k, h
  <2>4. ~k.rpc.busy /\ k.iop = g.iop
    BY <2>1, <2>3 DEF Moving, SameChannel
  <2>5. /\ GameOK(h) /\ SameLoad(k, h) /\ h.received /\ h.rpc.busy
        /\ h.rpc.fno = "NEXT" /\ h.iop = k.iop
    BY <2>2, <2>3, <2>4, CallFacts
  <2>6. h.lev = g.lev /\ h.loadingLevel = 0 /\ ~h.relocate /\ h.linker = g.linker
    BY <2>1, <2>3, <2>5 DEF SameLoad
  <2>7. /\ GameOK(g) /\ SlotOK(g, 0) /\ M.name \in Levels /\ NumObjs[M.name] \in Nat
        /\ Len(M.ran) \in Nat
    <3>1. SlotOK(g, 0)
      BY <2>1 DEF LoadInv
    <3>2. M.name \in Levels
      BY <1>1, <2>1, <3>1, SlotFacts DEF GameOK, SlotOK, Names
    <3> QED BY <1>1, <2>1, <3>1, <3>2, SlotFacts, LevelFacts DEF GameOK
  <2>8. AskedNext(h, 0)
    BY <2>1, <2>4, <2>5, <2>6, <2>7 DEF AskedNext, Moving
  <2>9. SlotOK(h, 0)
    BY <2>1, <2>6, <2>7, <2>8 DEF SlotOK, LoadingStatuses
  <2>10. Stepped(g, h, 0)
    BY <2>5, <2>6, <2>9 DEF Stepped, SameBody
  <2>11. IsUnderWay(M)
    BY <2>1 DEF IsUnderWay, LoadingStatuses
  <2>12. LoadInv(h) /\ Calm(g, h)
    BY <2>1, <2>10, <2>11, SteppedInv
  <2> QED BY <2>6, <2>12 DEF h
<1>5. CASE ~L.linking /\ ~g.relocate /\ L.status = "loading"
  <2>1. h = GetNext(g, s)
    BY <1>1, <1>5, LoadContinueCases
  <2>2. Stepped(g, h, s)
    BY <1>1, <1>5, <2>1, GetNextStepped
  <2> QED BY <1>2, <1>5, <2>2 DEF IsUnderWay, LoadingStatuses
<1>6. CASE ~L.linking /\ ~g.relocate /\ L.status = "login"
  <2>1. h = level_update_after_load(g, s)
    BY <1>1, <1>6, LoadContinueCases
  <2> HIDE DEF h
  <2>2. /\ GameOK(h) /\ OnlySlot(g, h, s) /\ KeepsLoad(L, h.lev[s])
        /\ \/ h.lev[s].status = L.status /\ h.loadingLevel = g.loadingLevel
           \/ h.lev[s].status = "loaded" /\ h.loadingLevel = NoSlot
    BY <1>1, <2>1, UpdateAfterLoadFacts
  <2>3. /\ g.loadingLevel = s /\ L.name \in Levels /\ L.bsp = L.name /\ Own(L)
        /\ Len(L.ran) = NumObjs[L.name] /\ L.name # NoLevel
    BY <1>1, <1>6 DEF SlotOK, LoadingStatuses
  <2>4. s # NoSlot
    BY LevelAssumption DEF Slots
  <2>5. SlotOK(h, s)
    BY <1>6, <2>2, <2>3, <2>4 DEF SlotOK, KeepsLoad, Own, LoadingStatuses
  <2>6. ~h.relocate /\ \A t \in Slots : t # s => SameBody(g.lev[t], h.lev[t])
    BY <1>6, <2>2 DEF OnlySlot, OtherSame, SameBody
  <2>7. h.lev[s].name = L.name /\ h.lev[s].status # "inactive" /\ h.loadingLevel \in {s, NoSlot}
    BY <1>6, <2>2, <2>3 DEF KeepsLoad
  <2>8. Stepped(g, h, s)
    BY <1>6, <2>2, <2>5, <2>6, <2>7 DEF Stepped
  <2> QED BY <1>2, <1>6, <2>8 DEF IsUnderWay, LoadingStatuses, h
<1>7. CASE ~L.linking /\ ~g.relocate /\ L.status \notin {"loading", "login"}
  <2>1. L.status # "loading-bt"
    BY <1>1, <1>7 DEF SlotOK, Linking
  <2>2. h = g
    BY <1>1, <1>7, <2>1, LoadContinueCases
  <2> QED BY <1>7, <2>2 DEF Calm
<1> QED BY <1>3, <1>4, <1>5, <1>6, <1>7

LEMMA ServedSlot ==
  ASSUME NEW g, GameOK(g), g.rpc.busy, NEW s \in Slots, SlotOK(g, s)
  PROVE  SlotOK(Served(g), s)
<1> DEFINE L == g.lev[s]
           h == Served(g)
<1>1. GameOK(h) /\ SameLoad(g, h) /\ h.received = g.received /\ ~h.rpc.busy
  BY ServedFacts
<1>2. /\ L.name \in Names /\ L.ran \in Seq((Levels \X Nat) \cup {NoObj})
      /\ g.rpc \in RpcTypes /\ g.rpc.to \in Slots
  BY SlotFacts DEF GameOK, GameTypes, RpcTypes
<1>3. CASE L.status # "loading"
  <2> HIDE DEF h
  <2>1. Linking(g, s) => Linking(h, s)
    BY <1>1, <1>3 DEF Linking, Due, SameLoad
  <2> QED BY <1>1, <1>3, <2>1 DEF SlotOK, SameLoad, h
<1>4. CASE L.status = "loading" /\ L.name \in Missing
  <2>1. MissingLoad(g, s) /\ g.rpc.fno = "LOAD" /\ g.rpc.level = L.name
    BY <1>4 DEF SlotOK, MissingLoad
  <2>2. h = Refuse(g)
    BY <1>4, <2>1 DEF Served, LoadDGO
  <2> HIDE DEF h
  <2>3. h.rpc.result = "ERROR"
    BY <2>2, RefuseFacts
  <2>4. MissingLoad(h, s)
    BY <1>1, <2>1, <2>3 DEF MissingLoad, SameLoad
  <2> QED BY <1>1, <1>4, <2>4 DEF SlotOK, SameLoad, LoadingStatuses, h
<1>5. CASE L.status = "loading" /\ L.name \notin Missing
  <2> DEFINE n == Len(L.ran) + 1
  <2>1. /\ L.name \in Levels /\ Len(L.ran) < NumObjs[L.name] /\ g.received /\ ~L.linking
        /\ ~g.relocate
        /\ AskedFirst(g, s) \/ AskedNext(g, s)
    <3>1. L.name \in Levels /\ Len(L.ran) < NumObjs[L.name]
      BY <1>2, <1>5 DEF SlotOK, Names
    <3>2. AskedFirst(g, s) \/ AskedNext(g, s)
      BY <1>5 DEF SlotOK, Answered, Linking, Due, Moving
    <3> QED BY <3>1, <3>2 DEF AskedFirst, AskedNext
  <2>2. /\ NumObjs[L.name] \in Nat /\ NumObjs[L.name] >= 2 /\ L.name # NoLevel
        /\ Len(L.ran) \in Nat
    BY <1>2, <2>1, LevelFacts
  <2>3. n \in Nat /\ n \in 1 .. NumObjs[L.name]
    <3>1. \A i, k \in Nat : i < k => i + 1 \in Nat /\ i + 1 \in 1 .. k
      OBVIOUS
    <3> QED BY <2>1, <2>2, <3>1, Zenon
  <2>4. /\ h = Deliver(g, L.name, n)
        /\ n = NumObjs[L.name] => g.rpc.to = s /\ g.rpc.top = L.current
    <3>1. CASE AskedFirst(g, s)
      <4>1. n = 1 /\ n # NumObjs[L.name]
        BY <2>2, <3>1 DEF AskedFirst
      <4>2. h = Deliver(g, L.name, 1)
        BY <1>5, <3>1 DEF Served, LoadDGO, AskedFirst
      <4> QED BY <4>1, <4>2
    <3>2. CASE AskedNext(g, s)
      <4>1. h = Deliver(g, L.name, n)
        BY <2>2, <3>2 DEF Served, LoadNextDGO, AskedNext
      <4> QED BY <3>2, <4>1 DEF AskedNext
    <3> QED BY <2>1, <3>1, <3>2
  <2> HIDE DEF h, n
  <2>5. /\ h.rpc.obj = <<L.name, n>>
        /\ n # NumObjs[L.name] =>
             h.rpc.result = "MORE" /\ h.iop.file = L.name /\ h.iop.given = n
        /\ n = NumObjs[L.name] => h.rpc.result = "DONE"
        /\ n = NumObjs[L.name] => AtTop(h, s, <<L.name, n>>, L.current)
    <3> DEFINE l == L.name
               k == Deliver(g, l, n)
    <3>1. l \in Levels /\ n \in Nat /\ n \in 1 .. NumObjs[l]
      BY <2>1, <2>3
    <3>2. h = k /\ (n = NumObjs[l] => g.rpc.to = s /\ g.rpc.top = L.current)
      BY <2>4
    <3> HIDE DEF l
    <3>3. /\ k.rpc.obj = <<l, n>>
          /\ n # NumObjs[l] => k.rpc.result = "MORE" /\ k.iop.file = l /\ k.iop.given = n
      BY <3>1, DeliverFacts
    <3>4. n = NumObjs[l] => k.rpc.result = "DONE"
      BY <3>1, DeliverFacts
    <3>5. n = NumObjs[l] => AtTop(k, g.rpc.to, <<l, n>>, g.rpc.top)
      BY <3>1, DeliverLast
    <3> QED BY <3>2, <3>3, <3>4, <3>5 DEF l
  <2>6. h.lev[s] = L /\ ~h.relocate /\ h.received /\ ~h.rpc.busy
    BY <1>1, <2>1 DEF SameLoad
  <2>7. Answered(h, s)
    <3>1. CASE n = NumObjs[L.name]
      BY <2>1, <2>4, <2>5, <2>6, <3>1 DEF Answered, AtTop, n
    <3>2. CASE n # NumObjs[L.name]
      <4>1. n < NumObjs[L.name]
        BY <2>2, <2>3, <3>2
      <4> QED BY <2>1, <2>5, <2>6, <3>2, <4>1 DEF Answered, n
    <3> QED BY <3>1, <3>2
  <2> QED BY <1>1, <1>5, <2>1, <2>6, <2>7 DEF SlotOK, SameLoad, LoadingStatuses, h
<1> QED BY <1>3, <1>4, <1>5

LEMMA ServedInv ==
  ASSUME NEW g, LoadInv(g), g.rpc.busy
  PROVE  LET h == Served(g) IN LoadInv(h) /\ Calm(g, h) /\ h.relocate = g.relocate
<1> DEFINE h == Served(g)
<1>1. GameOK(h) /\ SameLoad(g, h)
  BY ServedFacts DEF LoadInv
<1>2. \A s \in Slots : SlotOK(h, s)
  BY ServedSlot DEF LoadInv
<1> HIDE DEF h
<1>3. \A s \in Slots : h.lev[s] = g.lev[s]
  BY <1>1 DEF SameLoad
<1>4. LoadInv(h)
  BY <1>1, <1>2 DEF LoadInv, SameLoad, Alone
<1>5. Calm(g, h)
  BY <1>3 DEF Calm
<1> QED BY <1>1, <1>4, <1>5 DEF SameLoad, h

(* A slot may be emptied at any time: a link that was under way finishes    *)
(* into the empty slot.                                                     *)
LEMMA UnloadInv ==
  ASSUME NEW g, LoadInv(g), ~g.relocate, NEW s \in Slots
  PROVE  LET h == unload(g, s) IN
         /\ LoadInv(h) /\ ~h.relocate
         /\ \A t \in Slots : /\ h.lev[t].name = g.lev[t].name
                             /\ t # s => h.lev[t].status = g.lev[t].status
                             /\ IsUnderWay(h.lev[t]) => IsUnderWay(g.lev[t])
         /\ h.lev[s].status = "inactive"
<1> DEFINE h == unload(g, s)
<1>1. /\ GameOK(h) /\ OnlySlot(g, h, s)
      /\ g.lev[s].status = "inactive" => h = g
      /\ g.lev[s].status # "inactive" =>
           h.loadingLevel = IF g.loadingLevel = s THEN NoSlot ELSE g.loadingLevel
      /\ h.lev[s].status = "inactive"
      /\ h.lev[s].linking = g.lev[s].linking /\ h.lev[s].name = g.lev[s].name
  BY UnloadFacts DEF LoadInv
<1> HIDE DEF h
<1>2. CASE g.lev[s].status = "inactive"
  BY <1>1, <1>2 DEF h
<1>3. CASE g.lev[s].status # "inactive"
  <2>1. /\ \A t \in Slots : t # s => h.lev[t] = g.lev[t]
        /\ h.linker = g.linker /\ ~h.relocate /\ SameChannel(g, h)
    BY <1>1 DEF OnlySlot, OtherSame
  <2>2. h.loadingLevel = IF g.loadingLevel = s THEN NoSlot ELSE g.loadingLevel
    BY <1>1, <1>3
  <2>3. s # NoSlot
    BY LevelAssumption DEF Slots
  <2>4. SlotOK(g, s)
    BY DEF LoadInv
  <2>5. g.lev[s].linking => g.loadingLevel = s
    <3>1. g.lev[s].status \in Statuses
      BY SlotFacts DEF LoadInv, GameOK
    <3> QED BY <1>3, <2>4, <3>1 DEF SlotOK, MissingLoad, AskedFirst, AskedNext, Answered,
                                    Linking, Moving, Due, Statuses
  <2>6. SlotOK(h, s)
    BY <1>1, <1>3, <2>1, <2>2, <2>3, <2>4, <2>5 DEF SlotOK, LoadingStatuses
  <2>7. ASSUME NEW t \in Slots, t # s PROVE SlotOK(h, t)
    <3>1. SlotOK(g, t) /\ h.lev[t] = g.lev[t]
      BY <2>1, <2>7 DEF LoadInv
    <3>2. h.loadingLevel = t <=> g.loadingLevel = t
      BY <2>2, <2>7, LevelAssumption DEF Slots
    <3>3. g.loadingLevel = NoSlot => h.loadingLevel = NoSlot
      BY <2>2
    <3>4. /\ MissingLoad(g, t) => MissingLoad(h, t)
          /\ AskedFirst(g, t) => AskedFirst(h, t)
          /\ AskedNext(g, t) => AskedNext(h, t)
          /\ Answered(g, t) => Answered(h, t)
          /\ Moving(g, t) => Moving(h, t)
      BY <2>1, <3>1 DEF MissingLoad, AskedFirst, AskedNext, Answered, Moving, SameChannel
    <3>5. Linking(g, t) => Linking(h, t)
      BY <2>1, <3>1, <3>2 DEF Linking, Due, SameChannel
    <3> QED BY <2>1, <3>1, <3>2, <3>3, <3>4, <3>5 DEF SlotOK
  <2>8. \A t \in Slots : IsUnderWay(h.lev[t]) => IsUnderWay(g.lev[t])
    BY <1>1, <2>1 DEF IsUnderWay, LoadingStatuses
  <2>9. \A t \in Slots : IsUnderWay(h.lev[t]) => Alone(h, t)
    BY <2>8 DEF LoadInv, Alone
  <2>10. \A t \in Slots : SlotOK(h, t)
    BY <2>6, <2>7
  <2>11. \A t, u \in Slots : h.lev[t].status # "inactive" /\ h.lev[u].status # "inactive"
                             /\ h.lev[t].name = h.lev[u].name => t = u
    BY <1>1, <2>1 DEF LoadInv
  <2>12. LoadInv(h)
    BY <1>1, <2>1, <2>9, <2>10, <2>11 DEF LoadInv
  <2>13. \A t \in Slots : /\ h.lev[t].name = g.lev[t].name
                          /\ t # s => h.lev[t].status = g.lev[t].status
    BY <1>1, <2>1
  <2> QED BY <1>1, <2>1, <2>8, <2>12, <2>13 DEF h
<1> QED BY <1>2, <1>3

-----------------------------------------------------------------------------
(***************************************************************************)
(* The game never has two levels under way.  Careful says so when what is  *)
(* wanted changes; the rest of the game's steps keep it, so that a load    *)
(* begins only in an empty slot and while the other slot is not under way. *)
(***************************************************************************)
NamesOf(w) == {w[i].name : i \in Slots} \ {NoLevel}

Kept(g, w, s) == g.lev[s].status # "inactive" /\ g.lev[s].name \in NamesOf(w)

(* Careful, of any state of the game. *)
CareInv(g, w) ==
  /\ \A l, m \in NamesOf(w) : ~InSlot(g, l) /\ ~InSlot(g, m) => l = m
  /\ \A l \in NamesOf(w) : ~InSlot(g, l) =>
       \A s \in Slots : Kept(g, w, s) => ~IsUnderWay(g.lev[s])
  /\ \A s \in Slots : ~Kept(g, w, s) /\ IsUnderWay(g.lev[s]) => s = 0 \/ Kept(g, w, 0)

LEMMA AtMostOne ==
  ASSUME NEW S, IsFiniteSet(S), Cardinality(S) <= 1, NEW x \in S, NEW y \in S
  PROVE  x = y
<1> SUFFICES ASSUME x # y PROVE FALSE
  OBVIOUS
<1> DEFINE T == {x}
<1>1. IsFiniteSet(T) /\ Cardinality(T) = 1 /\ y \notin T
  BY FS_Singleton
<1>3. T \cup {y} \subseteq S
  OBVIOUS
<1> HIDE DEF T
<1>2. Cardinality(T \cup {y}) = 2
  <2>1. Cardinality(T \cup {y}) = Cardinality(T) + 1
    BY ONLY <1>1, FS_AddElement
  <2> QED BY <1>1, <2>1
<1>4. Cardinality(T \cup {y}) <= Cardinality(S)
  BY <1>3, FS_Subset
<1>5. Cardinality(S) \in Nat
  BY FS_CardinalityType
<1> QED BY <1>2, <1>4, <1>5

LEMMA CarefulCare ==
  ASSUME NEW w, Careful(w)
  PROVE  CareInv(game, w)
<1> DEFINE names == {w[i].name : i \in Slots} \ {NoLevel}
           absent == {l \in names : ~InSlot(game, l)}
           kept == {s \in Slots : game.lev[s].status # "inactive" /\ game.lev[s].name \in names}
<1>1. /\ Cardinality(absent) <= 1
      /\ \A l \in names : ~InSlot(game, l) => \A s \in kept : ~UnderWay(s)
      /\ \A s \in Slots \ kept : UnderWay(s) => s = 0 \/ 0 \in kept
  BY DEF Careful
<1>2. IsFiniteSet(absent)
  <2>1. IsFiniteSet({w[0].name}) /\ IsFiniteSet({w[0].name} \cup {w[1].name})
    BY FS_Singleton, FS_AddElement
  <2>2. absent \subseteq {w[0].name} \cup {w[1].name}
    BY DEF Slots
  <2> QED BY <2>1, <2>2, FS_Subset
<1>3. \A l, m \in absent : l = m
  BY <1>1, <1>2, AtMostOne
<1>4. \A l, m \in names : ~InSlot(game, l) /\ ~InSlot(game, m) => l = m
  BY <1>3
<1>5. names = NamesOf(w)
  BY DEF NamesOf
<1>6. \A s \in Slots : /\ UnderWay(s) <=> IsUnderWay(game.lev[s])
                       /\ s \in kept <=> Kept(game, w, s)
  BY <1>5 DEF UnderWay, IsUnderWay, Kept
<1> HIDE DEF absent, names, kept
<1>7. \A l \in names : ~InSlot(game, l) =>
        \A s \in Slots : Kept(game, w, s) => ~IsUnderWay(game.lev[s])
  BY <1>1, <1>6
<1>8. 0 \in Slots
  BY DEF Slots
<1>9. \A s \in Slots : ~Kept(game, w, s) /\ IsUnderWay(game.lev[s]) => s = 0 \/ Kept(game, w, 0)
  BY <1>1, <1>6, <1>8
<1> QED BY <1>4, <1>5, <1>7, <1>9 DEF CareInv

LEMMA CalmCare ==
  ASSUME NEW g, NEW h, NEW w, CareInv(g, w), Calm(g, h)
  PROVE  CareInv(h, w)
<1>1. \A l : InSlot(h, l) <=> InSlot(g, l)
  BY DEF InSlot, Calm
<1>2. \A s \in Slots : Kept(h, w, s) <=> Kept(g, w, s)
  BY DEF Kept, Calm
<1>3. 0 \in Slots
  BY DEF Slots
<1>4. \A s \in Slots : IsUnderWay(h.lev[s]) => IsUnderWay(g.lev[s])
  BY DEF Calm
<1> QED BY <1>1, <1>2, <1>3, <1>4 DEF CareInv

(* A level that is no longer wanted is given up. *)
LEMMA DiscardOne ==
  ASSUME NEW g, LoadInv(g), ~g.relocate, NEW w, CareInv(g, w), NEW s \in Slots,
         g.lev[s].name \notin NamesOf(w)
  PROVE  LET h == unload(g, s) IN
         /\ LoadInv(h) /\ ~h.relocate /\ CareInv(h, w)
         /\ \A t \in Slots : h.lev[t].name = g.lev[t].name
<1> DEFINE h == unload(g, s)
<1>1. /\ LoadInv(h) /\ ~h.relocate
      /\ \A t \in Slots : /\ h.lev[t].name = g.lev[t].name
                          /\ t # s => h.lev[t].status = g.lev[t].status
                          /\ IsUnderWay(h.lev[t]) => IsUnderWay(g.lev[t])
      /\ h.lev[s].status = "inactive"
  BY UnloadInv
<1> HIDE DEF h
<1>2. \A l \in NamesOf(w) : InSlot(h, l) <=> InSlot(g, l)
  BY <1>1 DEF InSlot
<1>3. \A t \in Slots : Kept(h, w, t) <=> Kept(g, w, t)
  BY <1>1 DEF Kept
<1>4. 0 \in Slots
  BY DEF Slots
<1>5. CareInv(h, w)
  BY <1>1, <1>2, <1>3, <1>4 DEF CareInv
<1> QED BY <1>1, <1>5 DEF h

LEMMA DiscardInv ==
  ASSUME NEW g, LoadInv(g), ~g.relocate, CareInv(g, want)
  PROVE  LET h == DiscardUnwanted(g) IN LoadInv(h) /\ ~h.relocate /\ CareInv(h, want)
<1> DEFINE k == IF 0 \in Unwanted(g) THEN unload(g, 0) ELSE g
           h == IF 1 \in Unwanted(g) THEN unload(k, 1) ELSE k
<1>1. \A s \in Unwanted(g) : s \in Slots /\ g.lev[s].name \notin NamesOf(want)
  BY DEF Unwanted, WantedNames, NamesOf
<1>2. /\ LoadInv(k) /\ ~k.relocate /\ CareInv(k, want)
      /\ \A t \in Slots : k.lev[t].name = g.lev[t].name
  BY <1>1, DiscardOne
<1>3. DiscardUnwanted(g) = h
  BY DEF DiscardUnwanted
<1> HIDE DEF k
<1>4. LoadInv(h) /\ ~h.relocate /\ CareInv(h, want)
  BY <1>1, <1>2, DiscardOne
<1> QED BY <1>3, <1>4

(* The slot that is taken is empty, and the other one is at rest. *)
LEMMA FreeSlot ==
  ASSUME NEW g, LoadInv(g), CareInv(g, want), Unwanted(g) = {}, Absent(g) # {},
         want \in WantTypes
  PROVE  LET s == Disposable(g)
             l == want[NextToLoad(g)].name
         IN /\ s \in Slots /\ g.lev[s].status = "inactive" /\ Alone(g, s)
            /\ l \in Levels \cup Missing /\ l \in NamesOf(want) /\ ~InSlot(g, l)
<1> DEFINE s == Disposable(g)
           l == want[NextToLoad(g)].name
<1>1. NextToLoad(g) \in Absent(g) /\ l \in Levels \cup Missing
  BY ToLoadFacts
<1>2. l \in NamesOf(want) /\ ~InSlot(g, l)
  BY <1>1 DEF Absent, NamesOf
<1> HIDE DEF l
<1>3. \A t \in Slots : g.lev[t].status # "inactive" =>
        Kept(g, want, t) /\ g.lev[t].name # l
  BY <1>2 DEF Unwanted, WantedNames, NamesOf, Kept, InSlot
<1>4. \A a, b \in NamesOf(want) : a # l /\ b # l => a = b
  <2>1. NamesOf(want) \subseteq {want[0].name, want[1].name}
    BY DEF NamesOf, Slots
  <2> QED BY <1>2, <2>1
<1>5. g.lev[0].status = "inactive" \/ g.lev[1].status = "inactive"
  <2> SUFFICES ASSUME g.lev[0].status # "inactive", g.lev[1].status # "inactive" PROVE FALSE
    OBVIOUS
  <2>1. 0 \in Slots /\ 1 \in Slots /\ 0 # 1
    BY DEF Slots
  <2>2. g.lev[0].name = g.lev[1].name
    BY <1>3, <1>4, <2>1 DEF Kept
  <2> QED BY <2>1, <2>2 DEF LoadInv
<1>6. s = IF g.lev[0].status = "inactive" THEN 0 ELSE 1
  BY <1>5 DEF Disposable, Slots
<1> HIDE DEF s
<1>7. s \in Slots /\ g.lev[s].status = "inactive"
  BY <1>5, <1>6 DEF Slots
<1>8. ASSUME NEW t \in Slots, t # s PROVE ~IsUnderWay(g.lev[t])
  <2>1. CASE g.lev[t].status # "inactive"
    BY <1>2, <1>3, <2>1 DEF CareInv
  <2>2. CASE g.lev[t].status = "inactive"
    <3>1. t = 1 /\ g.lev[0].status = "inactive"
      BY <1>6, <1>8, <2>2 DEF Slots
    <3>2. ~Kept(g, want, t) /\ ~Kept(g, want, 0) /\ t # 0
      BY <2>2, <3>1 DEF Kept
    <3> QED BY <3>2 DEF CareInv
  <2> QED BY <2>1, <2>2
<1>9. Alone(g, s)
  BY <1>8 DEF Alone
<1> QED BY <1>1, <1>2, <1>7, <1>9 DEF s, l

LEMMA GetForUseInv ==
  ASSUME NEW g, LoadInv(g), ~g.relocate, CareInv(g, want), want \in WantTypes,
         NEW s \in Slots, g.lev[s].status = "inactive", Alone(g, s),
         NEW l \in Levels \cup Missing, l \in NamesOf(want), ~InSlot(g, l)
  PROVE  LET h == level_get_for_use(g, l, s) IN
         LoadInv(h) /\ ~h.relocate /\ CareInv(h, want)
<1> DEFINE h == level_get_for_use(g, l, s)
           M == h.lev[s]
<1>1. /\ GameOK(h) /\ OtherSame(g, h, s) /\ h.loadingLevel = s
      /\ M.status = "loading" /\ M.name = l /\ M.ran = <<>> /\ ~M.linking
      /\ h.received /\ h.rpc.busy /\ h.rpc.fno = "LOAD"
      /\ h.rpc.level = l /\ h.rpc.to = s /\ h.rpc.top = M.current
  BY GetForUseFacts DEF LoadInv
<1> HIDE DEF h
<1>2. ~h.relocate /\ \A t \in Slots : t # s => h.lev[t] = g.lev[t]
  BY <1>1 DEF OtherSame
<1>3. \A t \in Slots : t # s => SlotOK(h, t) /\ ~IsUnderWay(h.lev[t])
  <2> SUFFICES ASSUME NEW t \in Slots, t # s PROVE SlotOK(h, t) /\ ~IsUnderWay(h.lev[t])
    OBVIOUS
  <2>1. SlotOK(g, t) /\ ~IsUnderWay(g.lev[t]) /\ SameBody(g.lev[t], h.lev[t])
    BY <1>2 DEF LoadInv, Alone, SameBody
  <2> QED BY <1>1, <2>1, IdleSlot
<1>4. SlotOK(h, s)
  <2>1. Len(M.ran) = 0 /\ Own(M) /\ l # NoLevel
    BY <1>1, LevelAssumption DEF Own
  <2>2. CASE l \in Missing
    <3>1. MissingLoad(h, s)
      BY <1>1, <1>2, <2>1 DEF MissingLoad
    <3> QED BY <1>1, <2>1, <2>2, <3>1 DEF SlotOK, LoadingStatuses
  <2>3. CASE l \notin Missing
    <3>1. AskedFirst(h, s)
      BY <1>1, <1>2, <2>1 DEF AskedFirst
    <3>2. Len(M.ran) < NumObjs[l]
      BY <2>1, <2>3, LevelFacts
    <3> QED BY <1>1, <2>1, <2>3, <3>1, <3>2 DEF SlotOK, LoadingStatuses
  <2> QED BY <2>2, <2>3
<1>5. \A t \in Slots : SlotOK(h, t)
  BY <1>3, <1>4
<1>6. \A t \in Slots : IsUnderWay(h.lev[t]) => Alone(h, t)
  BY <1>3 DEF Alone
<1>7. \A t \in Slots : t # s /\ h.lev[t].status # "inactive" => h.lev[t].name # l
  BY <1>2 DEF InSlot
<1>8. \A t, u \in Slots : h.lev[t].status # "inactive" /\ h.lev[u].status # "inactive"
                          /\ h.lev[t].name = h.lev[u].name => t = u
  BY <1>1, <1>2, <1>7 DEF LoadInv
<1>9. LoadInv(h)
  BY <1>1, <1>2, <1>5, <1>6, <1>8 DEF LoadInv
<1>10. ASSUME NEW m \in NamesOf(want) PROVE InSlot(h, m)
  <2>1. CASE m = l
    BY <1>1, <2>1 DEF InSlot
  <2>2. CASE m # l
    <3>1. InSlot(g, m)
      BY <2>2 DEF CareInv
    <3>2. PICK t \in Slots : g.lev[t].status # "inactive" /\ g.lev[t].name = m
      BY <3>1 DEF InSlot
    <3> QED BY <1>2, <3>2 DEF InSlot
  <2> QED BY <2>1, <2>2
<1>11. Kept(h, want, s)
  BY <1>1 DEF Kept
<1>12. CareInv(h, want)
  BY <1>3, <1>10, <1>11 DEF CareInv
<1> QED BY <1>2, <1>9, <1>12 DEF h

LEMMA DisplayInv ==
  ASSUME LoadInv(game), Display
  PROVE  LoadInv(game') /\ Calm(game, game') /\ game'.relocate = game.relocate
<1> SUFFICES ASSUME NEW g, g = game, NEW h, h = game'
             PROVE  LoadInv(h) /\ Calm(g, h) /\ h.relocate = g.relocate
  OBVIOUS
<1>1. /\ GameOK(h) /\ SameChannel(g, h) /\ h.relocate = g.relocate
      /\ h.linker = g.linker /\ h.loadingLevel = g.loadingLevel
      /\ \A s \in Slots : Redisplayed(g.lev[s], h.lev[s])
  BY DisplayFacts DEF LoadInv
<1>2. ASSUME NEW s \in Slots PROVE SlotOK(h, s)
  <2>1. SlotOK(g, s)
    BY DEF LoadInv
  <2>2. CASE h.lev[s].status = g.lev[s].status
    <3>1. /\ h.lev[s].name = g.lev[s].name /\ h.lev[s].linking = g.lev[s].linking
          /\ h.lev[s].bsp = g.lev[s].bsp /\ h.lev[s].ran = g.lev[s].ran
          /\ h.lev[s].current = g.lev[s].current
          /\ h.rpc = g.rpc /\ h.received = g.received /\ h.iop = g.iop /\ h.atTop = g.atTop
      BY <1>1 DEF SameChannel, Redisplayed, KeepsLoad
    <3>2. /\ MissingLoad(g, s) => MissingLoad(h, s)
          /\ AskedFirst(g, s) => AskedFirst(h, s)
          /\ AskedNext(g, s) => AskedNext(h, s)
      BY <1>1, <3>1 DEF MissingLoad, AskedFirst, AskedNext
    <3>3. /\ Answered(g, s) => Answered(h, s)
          /\ Moving(g, s) => Moving(h, s)
      BY <1>1, <3>1 DEF Answered, Moving
    <3>4. Own(g.lev[s]) <=> Own(h.lev[s])
      BY <3>1 DEF Own
    <3>5. Linking(g, s) => Linking(h, s)
      <4>1. h.lev[s].linking = g.lev[s].linking /\ h.linker.obj = g.linker.obj
        BY <1>1, <3>1
      <4>2. Due(g, s, g.linker.obj) => Due(h, s, g.linker.obj)
        BY <1>1, <2>2, <3>1, <3>4, Zenon DEF Due
      <4> QED BY <4>1, <4>2 DEF Linking
    <3>6. h.linker = g.linker /\ h.loadingLevel = g.loadingLevel
      BY <1>1
    <3> QED BY <2>1, <2>2, <3>1, <3>2, <3>3, <3>4, <3>5, <3>6 DEF SlotOK
  <2>3. CASE h.lev[s].status # g.lev[s].status
    <3>1. {g.lev[s].status, h.lev[s].status} \subseteq {"loaded", "active"}
      BY <1>1, <2>3 DEF Redisplayed
    <3> QED BY <1>1, <2>1, <3>1 DEF SlotOK, Own, Redisplayed, KeepsLoad, LoadingStatuses
  <2> QED BY <2>2, <2>3
<1>3. \A s \in Slots : IsUnderWay(h.lev[s]) <=> IsUnderWay(g.lev[s])
  BY <1>1 DEF IsUnderWay, Redisplayed, KeepsLoad, LoadingStatuses
<1>4. \A s \in Slots : /\ h.lev[s].name = g.lev[s].name
                       /\ h.lev[s].status = "inactive" <=> g.lev[s].status = "inactive"
                       /\ h.lev[s].status = "loading" <=> g.lev[s].status = "loading"
  BY <1>1 DEF Redisplayed, KeepsLoad
<1>5. 0 \in Slots
  BY DEF Slots
<1>6. LoadInv(h)
  BY <1>1, <1>2, <1>3, <1>4, <1>5 DEF LoadInv, Alone
<1> QED BY <1>1, <1>3, <1>4, <1>6 DEF Calm

-----------------------------------------------------------------------------
(***************************************************************************)
(* The inductive invariant.  A texture page waits to be moved only between *)
(* slot 0's turn and slot 1's, or while slot 0 is waited for.              *)
(***************************************************************************)
Inv ==
  /\ TypeInv
  /\ LoadInv(game) /\ CareInv(game, want)
  /\ game.relocate => pc \in {"slot1", "block0"}

LEMMA InitInv == Init => Inv
<1> SUFFICES ASSUME Init PROVE Inv
  OBVIOUS
<1>1. TypeInv
  BY InitType
<1>2. PICK l \in Levels :
        /\ game.lev[1] = Empty
        /\ game.lev[0] = [Empty EXCEPT !.status = "active", !.name = l, !.display = TRUE,
                            !.current = NumObjs[l], !.bsp = l, !.ran = AllObjects(l)]
        /\ game.loadingLevel = NoSlot /\ game.relocate = FALSE
        /\ want = [i \in Slots |-> IF i = 0 THEN [name |-> l, display |-> TRUE] ELSE NoWant]
        /\ GameOK(game)
  BY InitGame
<1> DEFINE L == game.lev[0]
<1>3. /\ L.status = "active" /\ L.name = l /\ L.bsp = l /\ L.ran = AllObjects(l)
      /\ ~L.linking /\ game.lev[1].status = "inactive" /\ ~game.lev[1].linking
  BY <1>2 DEF Empty
<1>4. NumObjs[l] \in Nat /\ l # NoLevel /\ NoSlot \notin Slots
  BY LevelFacts, LevelAssumption DEF Slots
<1>5. Own(L) /\ Len(L.ran) = NumObjs[l]
  BY <1>3, <1>4 DEF AllObjects, Own
<1>6. SlotOK(game, 0) /\ SlotOK(game, 1)
  <2>1. SlotOK(game, 0)
    BY <1>2, <1>3, <1>4, <1>5 DEF SlotOK, Slots, LoadingStatuses
  <2>2. SlotOK(game, 1)
    BY <1>2, <1>3, <1>4 DEF SlotOK, Slots, LoadingStatuses
  <2> QED BY <2>1, <2>2
<1>7. \A s \in Slots : ~IsUnderWay(game.lev[s])
  BY <1>3 DEF IsUnderWay, Slots, LoadingStatuses
<1>8. \A s, t \in Slots : game.lev[s].status # "inactive" /\ game.lev[t].status # "inactive"
                          => s = t
  BY <1>3 DEF Slots
<1>9. \A s \in Slots : SlotOK(game, s)
  BY <1>6 DEF Slots
<1>10. LoadInv(game)
  BY <1>2, <1>7, <1>8, <1>9 DEF LoadInv
<1>11. NamesOf(want) = {l}
  BY <1>2, <1>4 DEF NamesOf, Slots, NoWant
<1>12. InSlot(game, l)
  BY <1>3 DEF InSlot, Slots
<1>13. CareInv(game, want)
  BY <1>7, <1>11, <1>12 DEF CareInv
<1> QED BY <1>1, <1>2, <1>10, <1>13 DEF Inv

LEMMA NextInv ==
  ASSUME OneAtATime
  PROVE  Inv /\ [Next]_vars => Inv'
<1> SUFFICES ASSUME Inv, [Next]_vars PROVE Inv'
  OBVIOUS
<1>1. /\ TypeInv /\ LoadInv(game) /\ CareInv(game, want) /\ want \in WantTypes
      /\ game.relocate => pc \in {"slot1", "block0"}
  BY DEF Inv, TypeInv
<1>2. TypeInv'
  BY <1>1, NextType
<1>3. ASSUME LoadInv(game'), Calm(game, game'), want' = want,
             game'.relocate => pc' \in {"slot1", "block0"}
      PROVE  Inv'
  <2>1. CareInv(game', want')
    BY <1>1, <1>3, CalmCare
  <2> QED BY <1>2, <1>3, <2>1 DEF Inv
<1>4. ASSUME NEW w \in Wanted, WantLevels(w[1], w[2]) PROVE Inv'
  <2>1. Careful(want_levels(w[1], w[2])) /\ want' = want_levels(w[1], w[2])
        /\ game' = game /\ pc' = pc
    BY <1>4 DEF WantLevels
  <2>2. CareInv(game, want_levels(w[1], w[2]))
    BY <2>1, CarefulCare
  <2> QED BY <1>1, <1>2, <2>1, <2>2 DEF Inv
<1>5. ASSUME NEW i \in Slots, NEW d \in BOOLEAN, WantDisplay(i, d) PROVE Inv'
  <2>1. want' = [want EXCEPT ![i].display = d] /\ game' = game /\ pc' = pc
    BY <1>5 DEF WantDisplay
  <2>2. \A j \in Slots : want'[j].name = want[j].name
    BY <1>1, <2>1 DEF WantTypes
  <2>3. NamesOf(want') = NamesOf(want)
    BY <2>2 DEF NamesOf
  <2>4. CareInv(game, want')
    BY <1>1, <2>3 DEF CareInv, Kept
  <2> QED BY <1>1, <1>2, <2>1, <2>4 DEF Inv
<1>6. ASSUME NEW s \in Slots
      PROVE  /\ LoadInv(load_continue(game, s)) /\ Calm(game, load_continue(game, s))
             /\ load_continue(game, s).relocate => s = 0
  BY <1>1, LoadContinueInv
<1>7. ASSUME NEW s \in Slots, LoadContinue(s) PROVE Inv'
  <2>1. /\ game' = load_continue(game, s) /\ want' = want
        /\ pc' = IF s = 0 THEN "slot1" ELSE "update"
    BY <1>7 DEF LoadContinue
  <2> QED BY <1>3, <1>6, <2>1
<1>8. ASSUME NEW s \in Slots, WaitForLevel(s) PROVE Inv'
  <2>1. CASE game.lev[s].status \in LoadingStatuses
    <3>1. /\ game' = load_continue(game, s) /\ want' = want
          /\ pc' = pc /\ pc = IF s = 0 THEN "block0" ELSE "block1"
      BY <1>8, <2>1 DEF WaitForLevel
    <3> QED BY <1>3, <1>6, <3>1
  <2>2. CASE game.lev[s].status \notin LoadingStatuses
    <3>1. /\ game' = game /\ want' = want /\ pc = IF s = 0 THEN "block0" ELSE "block1"
      BY <1>8, <2>2 DEF WaitForLevel
    <3>2. ~game.relocate
      BY <1>1, <2>2, <3>1 DEF LoadInv, LoadingStatuses
    <3> QED BY <1>1, <1>3, <3>1, <3>2 DEF Calm
  <2> QED BY <2>1, <2>2
<1>9. CASE Update
  <2>1. pc = "update" /\ want' = want /\ ~game.relocate
    BY <1>1, <1>9 DEF Update
  <2>2. CASE game' = DiscardUnwanted(game)
    <3>1. LoadInv(game') /\ ~game'.relocate /\ CareInv(game', want)
      BY <1>1, <2>1, <2>2, DiscardInv
    <3> QED BY <1>2, <2>1, <3>1 DEF Inv
  <2>3. CASE game' = game
    BY <1>1, <1>2, <2>1, <2>3 DEF Inv
  <2>4. CASE /\ Unwanted(game) = {} /\ Absent(game) # {}
             /\ game' = level_get_for_use(game, want[NextToLoad(game)].name, Disposable(game))
    <3> DEFINE s == Disposable(game)
               l == want[NextToLoad(game)].name
    <3>1. /\ s \in Slots /\ game.lev[s].status = "inactive" /\ Alone(game, s)
          /\ l \in Levels \cup Missing /\ l \in NamesOf(want) /\ ~InSlot(game, l)
      BY <1>1, <2>4, FreeSlot
    <3>2. game' = level_get_for_use(game, l, s)
      BY <2>4
    <3> HIDE DEF s, l
    <3>3. LoadInv(game') /\ ~game'.relocate /\ CareInv(game', want)
      BY <1>1, <2>1, <3>1, <3>2, GetForUseInv
    <3> QED BY <1>2, <2>1, <3>3 DEF Inv
  <2> QED BY <1>9, <2>2, <2>3, <2>4, UpdateCases
<1>10. CASE Display
  <2>1. LoadInv(game') /\ Calm(game, game') /\ game'.relocate = game.relocate
    BY <1>1, <1>10, DisplayInv
  <2>2. want' = want /\ ~game.relocate
    BY <1>1, <1>10 DEF Display
  <2> QED BY <1>3, <2>1, <2>2
<1>11. CASE Answer
  <2>1. game.rpc.busy /\ game' = Served(game) /\ want' = want /\ pc' = pc
    BY <1>11 DEF Answer
  <2>2. LoadInv(game') /\ Calm(game, game') /\ game'.relocate = game.relocate
    BY <1>1, <2>1, ServedInv
  <2> QED BY <1>1, <1>3, <2>1, <2>2
<1>12. CASE UNCHANGED vars
  BY <1>1, <1>2, <1>12 DEF vars, Inv
<1> QED BY <1>4, <1>5, <1>7, <1>8, <1>9, <1>10, <1>11, <1>12 DEF Next

LEMMA InvProperties == Inv => LinksOwnObjects /\ LoadedWhole /\ OneLoadingLevel
<1> SUFFICES ASSUME Inv PROVE LinksOwnObjects /\ LoadedWhole /\ OneLoadingLevel
  OBVIOUS
<1>1. \A s \in Slots : SlotOK(game, s)
  BY DEF Inv, LoadInv
<1>2. LinksOwnObjects
  BY <1>1 DEF LinksOwnObjects, SlotOK, Own
<1>3. LoadedWhole
  BY <1>1 DEF LoadedWhole, SlotOK
<1>4. OneLoadingLevel
  BY <1>1 DEF OneLoadingLevel, SlotOK
<1> QED BY <1>2, <1>3, <1>4

LEMMA Invariance ==
  ASSUME OneAtATime
  PROVE  Spec => []Inv
<1>1. Init => Inv
  BY InitInv
<1>2. Inv /\ [Next]_vars => Inv'
  BY NextInv
<1> QED BY <1>1, <1>2, PTL DEF Spec

(* In a game that never has two levels under way, a slot's objects are its  *)
(* own level's, each once and in the order of the file: no answer, link or  *)
(* texture page of a load that was given up is taken for the next one's.    *)
THEOREM OwnObjects ==
  ASSUME OneAtATime
  PROVE  Spec => []LinksOwnObjects
<1>1. Inv => LinksOwnObjects
  BY InvProperties
<1> QED BY <1>1, Invariance, PTL

(* In such a game a level logs in with all its objects and its own bsp,     *)
(* although linking finds the slot of the bsp by way of loading-level.      *)
THEOREM WholeLevels ==
  ASSUME OneAtATime
  PROVE  Spec => []LoadedWhole
<1>1. Inv => LoadedWhole
  BY InvProperties
<1> QED BY <1>1, Invariance, PTL

(* In such a game at most one level loads, and loading-level points to it,  *)
(* whatever is discarded, refused or finished in between.                   *)
THEOREM LoadingLevelIsRight ==
  ASSUME OneAtATime
  PROVE  Spec => []OneLoadingLevel
<1>1. Inv => OneLoadingLevel
  BY InvProperties
<1> QED BY <1>1, Invariance, PTL

-----------------------------------------------------------------------------
(***************************************************************************)
(* LevelSlots is implemented.  What a frame does to the status of a slot   *)
(* does not depend on the channel or the linker; that it neither gives up  *)
(* a wanted level nor begins a second load is the invariant's.             *)
(***************************************************************************)
InOrder == {<<"loading", "loading-bt">>, <<"loading", "login">>, <<"loading-bt", "login">>,
            <<"login", "loaded">>}

SameStatuses(g, h) ==
  \A t \in Slots : h.lev[t].status = g.lev[t].status /\ h.lev[t].name = g.lev[t].name

(* The status of slot s stays, follows in order, or the slot is given up. *)
Moves(g, h, s) ==
  /\ \A t \in Slots : t # s => h.lev[t].status = g.lev[t].status
  /\ \A t \in Slots : h.lev[t].name = g.lev[t].name
  /\ \/ h.lev[s].status = g.lev[s].status
     \/ <<g.lev[s].status, h.lev[s].status>> \in InOrder
     \/ h.lev[s].status = "inactive"

LEMMA LoginBeginMoves ==
  ASSUME NEW g, GameOK(g), NEW s \in Slots, g.lev[s].status = "loading-bt"
  PROVE  Moves(g, login_begin(g, s), s)
<1> DEFINE h == login_begin(g, s)
<1>1. CASE g.lev[s].bsp # NoLevel
  <2>1. OnlySlot(g, h, s) /\ KeepsLoad(g.lev[s], h.lev[s]) /\ h.lev[s].status = "login"
    BY <1>1, LoginBeginFacts
  <2> HIDE DEF h
  <2>2. \A t \in Slots : t # s => h.lev[t] = g.lev[t]
    BY <2>1 DEF OnlySlot, OtherSame
  <2> QED BY <2>1, <2>2 DEF Moves, InOrder, KeepsLoad, h
<1>2. CASE g.lev[s].bsp = NoLevel
  <2> DEFINE k == unload(g, s)
  <2>1. /\ GameOK(k) /\ OnlySlot(g, k, s) /\ k.lev[s].status = "inactive"
        /\ k.lev[s].name = g.lev[s].name
    BY UnloadFacts
  <2>2. h = [k EXCEPT !.loadingLevel = NoSlot]
    BY <1>2 DEF login_begin
  <2> HIDE DEF h, k
  <2>3. h.lev = k.lev
    BY <2>1, <2>2 DEF GameOK, GameTypes
  <2>4. \A t \in Slots : t # s => k.lev[t] = g.lev[t]
    BY <2>1 DEF OnlySlot, OtherSame
  <2> QED BY <2>1, <2>3, <2>4 DEF Moves, h
<1> QED BY <1>1, <1>2

LEMMA AfterLinkMoves ==
  ASSUME NEW g, GameOK(g), NEW s \in Slots
  PROVE  Moves(g, AfterLink(g, s), s)
<1> DEFINE h == AfterLink(g, s)
<1>1. CASE g.lev[s].status = "loading" /\ ~g.relocate
  <2>1. h = call(g, "NEXT", NoLevel, s)
    BY <1>1 DEF AfterLink, dgo_load_continue
  <2>2. h.lev = g.lev
    BY <2>1, CallFacts DEF SameLoad
  <2> QED BY <2>2 DEF Moves
<1>2. CASE g.lev[s].status = "loading-bt"
  BY <1>2, LoginBeginMoves DEF AfterLink
<1>3. CASE /\ ~(g.lev[s].status = "loading" /\ ~g.relocate)
           /\ g.lev[s].status # "loading-bt"
  <2>1. h = g
    BY <1>3 DEF AfterLink
  <2> QED BY <2>1 DEF Moves
<1> QED BY <1>1, <1>2, <1>3

LEMMA MovesAfter ==
  ASSUME NEW g, NEW k, NEW h, NEW s \in Slots, SameStatuses(g, k), Moves(k, h, s)
  PROVE  Moves(g, h, s)
BY DEF SameStatuses, Moves

LEMMA SetLinkingSame ==
  ASSUME NEW g, GameOK(g), NEW s \in Slots, NEW b \in BOOLEAN
  PROVE  GameOK(SetLinking(g, s, b)) /\ SameStatuses(g, SetLinking(g, s, b))
<1> DEFINE h == SetLinking(g, s, b)
<1>1. /\ GameOK(h) /\ OnlySlot(g, h, s)
      /\ h.lev[s].status = g.lev[s].status /\ h.lev[s].name = g.lev[s].name
  BY SetLinkingFacts
<1> HIDE DEF h
<1>2. SameStatuses(g, h)
  BY <1>1 DEF SameStatuses, OnlySlot, OtherSame
<1> QED BY <1>1, <1>2 DEF h

LEMMA LinkOrLaterMoves ==
  ASSUME NEW g, GameOK(g), NEW s \in Slots, NEW o \in ObjTypes
  PROVE  Moves(g, LinkOrLater(g, s, o), s)
<1> DEFINE k == link_begin(g, s, o)
           on == TRUE
<1>1. GameOK(k) /\ SameWork(g, k)
  BY LinkBeginFacts
<1>2. LinkOrLater(g, s, o) = IF Linked(k) THEN AfterLink(k, s) ELSE SetLinking(k, s, on)
  BY DEF LinkOrLater, SetLinking
<1>3. on \in BOOLEAN
  OBVIOUS
<1> HIDE DEF k, on
<1>4. SameStatuses(g, k)
  BY <1>1 DEF SameWork, SameSlot, SameStatuses
<1>5. Moves(k, AfterLink(k, s), s)
  BY <1>1, AfterLinkMoves
<1>6. SameStatuses(k, SetLinking(k, s, on))
  BY <1>1, <1>3, SetLinkingSame
<1>7. Moves(k, SetLinking(k, s, on), s)
  BY <1>6 DEF SameStatuses, Moves
<1> QED BY <1>2, <1>4, <1>5, <1>7, MovesAfter

LEMMA LinkLastMoves ==
  ASSUME NEW g, GameOK(g), NEW s \in Slots
  PROVE  Moves(g, LinkLast(g, s), s)
<1>1. LastObject(g, s) \in ObjTypes
  <2>1. g.atTop[s] \in TopTypes
    BY DEF GameOK, GameTypes
  <2> QED BY <2>1 DEF LastObject, TopTypes, ObjTypes
<1>2. LinkLast(g, s) = LinkOrLater(g, s, LastObject(g, s))
  BY DEF LinkLast, LastObject
<1> QED BY <1>1, <1>2, LinkOrLaterMoves

LEMMA GetNextMoves ==
  ASSUME NEW g, GameOK(g), NEW s \in Slots, g.lev[s].status = "loading"
  PROVE  Moves(g, GetNext(g, s), s)
<1> DEFINE h == SetReceived(g)
           k == SetStatus(h, s, "loading-bt")
<1>1. /\ GameOK(h) /\ h.lev = g.lev /\ g.rpc.obj \in ObjTypes /\ "loading-bt" \in Statuses
  BY SetReceivedFacts DEF GameOK, GameTypes, RpcTypes, Statuses, SameLoad
<1>2. GetNext(g, s) =
        IF g.rpc.busy \/ ~g.received THEN g
        ELSE IF g.rpc.result = "ERROR" THEN h
        ELSE IF g.rpc.result = "MORE" THEN LinkOrLater(h, s, g.rpc.obj) ELSE LinkLast(k, s)
  BY GetNextCases
<1> HIDE DEF h
<1>3. Moves(g, g, s) /\ Moves(g, h, s) /\ SameStatuses(g, h)
  BY <1>1 DEF Moves, SameStatuses
<1>4. Moves(g, LinkOrLater(h, s, g.rpc.obj), s)
  <2>1. Moves(h, LinkOrLater(h, s, g.rpc.obj), s)
    BY <1>1, LinkOrLaterMoves
  <2> QED BY <1>3, <2>1, MovesAfter
<1>5. /\ GameOK(k) /\ OnlySlot(h, k, s) /\ k.lev[s].status = "loading-bt"
      /\ k.lev[s].name = h.lev[s].name
  BY <1>1, SetStatusFacts
<1> HIDE DEF k
<1>6. Moves(k, LinkLast(k, s), s)
  BY <1>5, LinkLastMoves
<1>7. \A t \in Slots : t # s => k.lev[t] = g.lev[t]
  BY <1>1, <1>5 DEF OnlySlot, OtherSame
<1>8. Moves(g, LinkLast(k, s), s)
  BY <1>1, <1>5, <1>6, <1>7 DEF Moves, InOrder
<1> QED BY <1>2, <1>3, <1>4, <1>8

LEMMA ContinueMoves ==
  ASSUME NEW g, GameOK(g), NEW s \in Slots
  PROVE  Moves(g, load_continue(g, s), s)
<1> DEFINE k == link_resume(g)
           off == FALSE
           m == SetLinking(k, s, off)
           r == SetRelocate(g)
<1>1. load_continue(g, s) =
        IF g.lev[s].linking THEN IF Linked(k) THEN AfterLink(m, s) ELSE k
        ELSE IF g.relocate THEN call(r, "NEXT", NoLevel, s)
        ELSE IF g.lev[s].status = "loading" THEN GetNext(g, s)
        ELSE IF g.lev[s].status = "loading-bt" THEN LinkLast(g, s)
        ELSE IF g.lev[s].status = "login" THEN level_update_after_load(g, s)
        ELSE g
  BY LoadContinueCases DEF dgo_load_continue
<1>2. GameOK(k) /\ SameWork(g, k) /\ off \in BOOLEAN
  BY LinkResumeFacts
<1>3. GameOK(r) /\ r.lev = g.lev
  BY SetRelocateFacts
<1> HIDE DEF k, r, off
<1>4. SameStatuses(g, k)
  BY <1>2 DEF SameWork, SameSlot, SameStatuses
<1>5. GameOK(m) /\ SameStatuses(k, m)
  BY <1>2, SetLinkingSame
<1> HIDE DEF m
<1>6. Moves(m, AfterLink(m, s), s)
  BY <1>5, AfterLinkMoves
<1>7. SameStatuses(g, m)
  BY <1>4, <1>5 DEF SameStatuses
<1>8. Moves(g, k, s) /\ Moves(g, AfterLink(m, s), s) /\ Moves(g, g, s)
  <2>1. Moves(g, k, s) /\ Moves(g, g, s)
    BY <1>4 DEF SameStatuses, Moves
  <2> QED BY <1>6, <1>7, <2>1, MovesAfter
<1>9. Moves(g, call(r, "NEXT", NoLevel, s), s)
  <2>1. SameLoad(r, call(r, "NEXT", NoLevel, s))
    BY <1>3, CallFacts
  <2>2. call(r, "NEXT", NoLevel, s).lev = g.lev
    BY <1>3, <2>1 DEF SameLoad
  <2> QED BY <2>2 DEF Moves
<1>10. CASE ~g.lev[s].linking /\ ~g.relocate /\ g.lev[s].status = "login"
  <2> DEFINE h == level_update_after_load(g, s)
  <2>1. /\ OnlySlot(g, h, s) /\ KeepsLoad(g.lev[s], h.lev[s])
        /\ h.lev[s].status \in {g.lev[s].status, "loaded"}
    BY UpdateAfterLoadFacts
  <2> HIDE DEF h
  <2>2. \A t \in Slots : t # s => h.lev[t] = g.lev[t]
    BY <2>1 DEF OnlySlot, OtherSame
  <2>3. Moves(g, h, s)
    BY <1>10, <2>1, <2>2 DEF Moves, KeepsLoad, InOrder
  <2> QED BY <1>1, <1>10, <2>3 DEF h
<1> QED BY <1>1, <1>8, <1>9, <1>10, GetNextMoves, LinkLastMoves

(* The state LevelSlots sees. *)
Occupant(L) ==
  IF L.status = "inactive" THEN [status |-> "inactive", name |-> NoLevel]
  ELSE [status |-> L.status, name |-> L.name]

View(g) == [s \in Slots |-> Occupant(g.lev[s])]

LEMMA SameView ==
  ASSUME NEW g, NEW h, SameStatuses(g, h)
  PROVE  View(h) = View(g)
BY DEF SameStatuses, View, Occupant

(* A frame of a slot: its load goes on by one status, or stays. *)
LEMMA ContinueView ==
  ASSUME NEW g, LoadInv(g), NEW s \in Slots
  PROVE  LET h == load_continue(g, s) IN
         \/ View(h) = View(g)
         \/ \E status \in {"loading-bt", "login", "loaded"} :
              /\ <<View(g)[s].status, status>> \in InOrder
              /\ View(h) = [View(g) EXCEPT ![s].status = status]
<1> DEFINE h == load_continue(g, s)
<1>1. GameOK(g)
  BY DEF LoadInv
<1>2. Moves(g, h, s) /\ Calm(g, h)
  BY <1>1, ContinueMoves, LoadContinueInv
<1> HIDE DEF h
<1>3. CASE h.lev[s].status = g.lev[s].status \/ h.lev[s].status = "inactive"
  <2>1. \A t \in Slots : Occupant(h.lev[t]) = Occupant(g.lev[t])
    BY <1>2, <1>3 DEF Moves, Calm, Occupant
  <2> QED BY <2>1 DEF View, h
<1>4. CASE <<g.lev[s].status, h.lev[s].status>> \in InOrder
  <2>1. h.lev[s].status \in {"loading-bt", "login", "loaded"} /\ g.lev[s].status # "inactive"
    BY <1>4 DEF InOrder
  <2>2. \A t \in Slots : t # s => Occupant(h.lev[t]) = Occupant(g.lev[t])
    BY <1>2 DEF Moves, Occupant
  <2>3. /\ View(g)[s] = [status |-> g.lev[s].status, name |-> g.lev[s].name]
        /\ Occupant(h.lev[s]) = [status |-> h.lev[s].status, name |-> g.lev[s].name]
    BY <1>2, <2>1 DEF Moves, View, Occupant
  <2>4. View(h) = [View(g) EXCEPT ![s] = [status |-> h.lev[s].status, name |-> g.lev[s].name]]
    BY <2>2, <2>3 DEF View
  <2>5. [View(g)[s] EXCEPT !.status = h.lev[s].status]
          = [status |-> h.lev[s].status, name |-> g.lev[s].name]
    BY <2>3
  <2>6. View(h) = [View(g) EXCEPT ![s].status = h.lev[s].status]
    BY <2>4, <2>5
  <2>7. <<View(g)[s].status, h.lev[s].status>> \in InOrder
    BY <1>4, <2>3
  <2> QED BY <2>1, <2>6, <2>7 DEF h
<1> QED BY <1>2, <1>3, <1>4 DEF Moves, h

LEMMA DiscardView ==
  ASSUME NEW g, GameOK(g)
  PROVE  View(DiscardUnwanted(g)) =
           [s \in Slots |-> IF s \in Unwanted(g) THEN [status |-> "inactive", name |-> NoLevel]
                            ELSE View(g)[s]]
<1> DEFINE k == IF 0 \in Unwanted(g) THEN unload(g, 0) ELSE g
           h == IF 1 \in Unwanted(g) THEN unload(k, 1) ELSE k
<1>1. DiscardUnwanted(g) = h /\ 0 \in Slots /\ 1 \in Slots
  BY DEF DiscardUnwanted, Slots
<1>2. /\ GameOK(k)
      /\ \A t \in Slots : IF t = 0 /\ 0 \in Unwanted(g) THEN k.lev[t].status = "inactive"
                          ELSE k.lev[t] = g.lev[t]
  BY <1>1, UnloadFacts DEF OnlySlot, OtherSame
<1> HIDE DEF k
<1>3. \A t \in Slots : IF t = 1 /\ 1 \in Unwanted(g) THEN h.lev[t].status = "inactive"
                       ELSE h.lev[t] = k.lev[t]
  BY <1>1, <1>2, UnloadFacts DEF OnlySlot, OtherSame
<1> HIDE DEF h
<1>4. \A t \in Slots : Occupant(h.lev[t]) =
        IF t \in Unwanted(g) THEN [status |-> "inactive", name |-> NoLevel]
        ELSE Occupant(g.lev[t])
  BY <1>2, <1>3 DEF Occupant, Slots
<1> QED BY <1>1, <1>4 DEF View

(* The initial states and the steps of LevelSlots, of what it sees. *)
LEMMA PromiseInit == Init => Promise!Init
<1> SUFFICES ASSUME Init PROVE Promise!Init
  OBVIOUS
<1>1. PICK l \in Levels :
        /\ game.lev[1] = Empty
        /\ game.lev[0] = [Empty EXCEPT !.status = "active", !.name = l, !.display = TRUE,
                            !.current = NumObjs[l], !.bsp = l, !.ran = AllObjects(l)]
        /\ game.loadingLevel = NoSlot /\ game.relocate = FALSE
        /\ want = [i \in Slots |-> IF i = 0 THEN [name |-> l, display |-> TRUE] ELSE NoWant]
        /\ GameOK(game)
  BY InitGame
<1>2. /\ game.lev[0].status = "active" /\ game.lev[0].name = l
      /\ game.lev[1].status = "inactive"
  BY <1>1 DEF Empty
<1>3. l # NoLevel
  BY LevelFacts
<1>4. WantedNames = {l}
  BY <1>1, <1>3 DEF WantedNames, Slots, NoWant
<1>5. View(game) = [t \in Slots |-> IF t = 0 THEN [status |-> "active", name |-> l]
                                    ELSE [status |-> "inactive", name |-> NoLevel]]
  BY <1>2 DEF View, Occupant, Slots
<1>6. 0 \in Slots /\ l \in Levels \cup Missing
  BY DEF Slots
<1> QED BY <1>4, <1>5, <1>6 DEF Promise!Init, Promise!Free, View, Occupant

LEMMA BeginStep ==
  ASSUME LoadInv(game), NEW s \in Slots, game.lev[s].status = "inactive", Alone(game, s),
         NEW l \in Levels \cup Missing, l \in WantedNames, ~InSlot(game, l), want' = want,
         game' = level_get_for_use(game, l, s)
  PROVE  Promise!Begin(s, l)
<1>1. /\ OtherSame(game, game', s)
      /\ game'.lev[s].status = "loading" /\ game'.lev[s].name = l
  BY GetForUseFacts DEF LoadInv
<1>2. \A t \in Slots : t # s => game'.lev[t] = game.lev[t]
  BY <1>1 DEF OtherSame
<1>3. /\ \A t \in Slots : t # s => Occupant(game'.lev[t]) = Occupant(game.lev[t])
      /\ Occupant(game'.lev[s]) = [status |-> "loading", name |-> l]
  BY <1>1, <1>2 DEF Occupant
<1>4. View(game') = [View(game) EXCEPT ![s] = [status |-> "loading", name |-> l]]
  BY <1>3 DEF View
<1>5. View(game)[s] = [status |-> "inactive", name |-> NoLevel]
  BY DEF View, Occupant
<1>6. \A t \in Slots : View(game)[t].status \notin LoadingStatuses
  <2>1. \A t \in Slots : View(game)[t].status = game.lev[t].status
    BY DEF View, Occupant
  <2>2. \A t \in Slots : t # s => game.lev[t].status \notin LoadingStatuses
    BY DEF Alone, IsUnderWay
  <2> QED BY <2>1, <2>2 DEF LoadingStatuses
<1>7. \A t \in Slots : View(game)[t].name # l
  <2>1. l # NoLevel
    BY LevelAssumption
  <2>2. \A t \in Slots : View(game)[t].name =
          IF game.lev[t].status = "inactive" THEN NoLevel ELSE game.lev[t].name
    BY DEF View, Occupant
  <2> QED BY <2>1, <2>2 DEF InSlot
<1>8. WantedNames' = WantedNames
  BY DEF WantedNames
<1> QED BY <1>4, <1>5, <1>6, <1>7, <1>8
        DEF Promise!Begin, Promise!Free, Promise!IsLoading, View, Occupant, LoadingStatuses

LEMMA DisplayStep ==
  ASSUME LoadInv(game), Display
  PROVE  \E S \in SUBSET Slots : Promise!Display(S)
<1> DEFINE S == {s \in Slots : game'.lev[s].status # game.lev[s].status}
           turned(x) == IF x = "active" THEN "loaded" ELSE "active"
<1>1. want' = want /\ \A s \in Slots : Redisplayed(game.lev[s], game'.lev[s])
  BY DisplayFacts DEF Display, LoadInv
<1>2. \A s \in Slots : game'.lev[s].name = game.lev[s].name
  BY <1>1 DEF Redisplayed, KeepsLoad
<1>3. \A s \in S : /\ game.lev[s].status \in {"loaded", "active"}
                   /\ game'.lev[s].status = turned(game.lev[s].status)
                   /\ game.lev[s].name \in WantedNames
  <2> SUFFICES ASSUME NEW s \in S
               PROVE  /\ game.lev[s].status \in {"loaded", "active"}
                      /\ game'.lev[s].status = turned(game.lev[s].status)
                      /\ game.lev[s].name \in WantedNames
    OBVIOUS
  <2>1. /\ {game.lev[s].status, game'.lev[s].status} \subseteq {"loaded", "active"}
        /\ \E i \in Slots : want[i].name = game.lev[s].name
    BY <1>1 DEF Redisplayed
  <2>2. SlotOK(game, s)
    BY DEF LoadInv
  <2>3. game.lev[s].name # NoLevel
    BY <2>1, <2>2 DEF SlotOK
  <2> QED BY <2>1, <2>3 DEF WantedNames
<1>4. \A s \in Slots : Occupant(game'.lev[s]) =
        IF s \in S THEN [Occupant(game.lev[s]) EXCEPT !.status = turned(game.lev[s].status)]
        ELSE Occupant(game.lev[s])
  BY <1>2, <1>3 DEF Occupant
<1>5. \A s \in S : /\ View(game)[s].status \in {"loaded", "active"}
                   /\ View(game)[s].status = game.lev[s].status
                   /\ View(game)[s].name \in WantedNames
  BY <1>3 DEF View, Occupant
<1>6. View(game') = [s \in Slots |->
        IF s \in S
          THEN [View(game)[s] EXCEPT !.status = IF View(game)[s].status = "active" THEN "loaded"
                                                ELSE "active"]
        ELSE View(game)[s]]
  BY <1>4, <1>5 DEF View
<1>7. WantedNames' = WantedNames /\ S \in SUBSET Slots
  BY <1>1 DEF WantedNames
<1>8. PICK T \in SUBSET Slots : T = S
  BY <1>7
<1> HIDE DEF S
<1>9. Promise!Display(T)
  BY <1>5, <1>6, <1>7, <1>8 DEF Promise!Display, View, Occupant
<1> QED BY <1>9

LEMMA PromiseStep ==
  ASSUME OneAtATime
  PROVE  Inv /\ [Next]_vars => [Promise!Next]_(Promise!svars)
<1> SUFFICES ASSUME Inv, [Next]_vars
             PROVE  Promise!Next \/ (View(game') = View(game) /\ WantedNames' = WantedNames)
  BY DEF Promise!svars, View, Occupant
<1>1. /\ TypeInv /\ LoadInv(game) /\ CareInv(game, want) /\ want \in WantTypes /\ GameOK(game)
      /\ WantedNames = NamesOf(want)
  BY DEF Inv, TypeInv, LoadInv, WantedNames, NamesOf
<1>2. want' = want => WantedNames' = WantedNames
  BY DEF WantedNames
<1>3. ASSUME game' = game PROVE Promise!Next
  <2>1. want' \in WantTypes
    BY <1>1, NextType DEF TypeInv
  <2>2. WantedNames' \in SUBSET (Levels \cup Missing)
    BY <2>1 DEF WantedNames, WantTypes, Names
  <2> QED BY <1>3, <2>2 DEF Promise!Next, Promise!Want
<1>4. ASSUME NEW s \in Slots, game' = load_continue(game, s), want' = want
      PROVE  Promise!Next \/ (View(game') = View(game) /\ WantedNames' = WantedNames)
  <2>1. \/ View(game') = View(game)
        \/ \E status \in {"loading-bt", "login", "loaded"} :
             /\ <<View(game)[s].status, status>> \in InOrder
             /\ View(game') = [View(game) EXCEPT ![s].status = status]
    BY <1>1, <1>4, ContinueView
  <2>2. ASSUME NEW status \in {"loading-bt", "login", "loaded"},
               <<View(game)[s].status, status>> \in InOrder,
               View(game') = [View(game) EXCEPT ![s].status = status]
        PROVE  Promise!Advance(s, status)
    BY <1>2, <1>4, <2>2 DEF Promise!Advance, Promise!InOrder, InOrder, View, Occupant
  <2> QED BY <1>2, <1>4, <2>1, <2>2 DEF Promise!Next
<1>5. ASSUME NEW w \in Wanted, WantLevels(w[1], w[2]) PROVE Promise!Next
  BY <1>3, <1>5 DEF WantLevels
<1>6. ASSUME NEW i \in Slots, NEW d \in BOOLEAN, WantDisplay(i, d) PROVE Promise!Next
  BY <1>3, <1>6 DEF WantDisplay
<1>7. ASSUME NEW s \in Slots, LoadContinue(s) \/ WaitForLevel(s)
      PROVE  Promise!Next \/ (View(game') = View(game) /\ WantedNames' = WantedNames)
  <2>1. want' = want /\ (game' = load_continue(game, s) \/ game' = game)
    BY <1>7 DEF LoadContinue, WaitForLevel
  <2> QED BY <1>3, <1>4, <2>1
<1>8. CASE Update
  <2>1. want' = want
    BY <1>8 DEF Update
  <2>2. CASE game' = DiscardUnwanted(game)
    <3>1. View(game') =
            [s \in Slots |-> IF s \in Unwanted(game)
                               THEN [status |-> "inactive", name |-> NoLevel]
                             ELSE View(game)[s]]
      BY <1>1, <2>2, DiscardView
    <3>2. PICK S \in SUBSET Slots : S = Unwanted(game)
      BY DEF Unwanted
    <3>3. \A s \in S : View(game)[s].name \notin WantedNames
      BY <3>2 DEF Unwanted, View, Occupant
    <3>4. Promise!Discard(S)
      BY <1>2, <2>1, <3>1, <3>2, <3>3 DEF Promise!Discard, Promise!Free, View, Occupant
    <3> QED BY <3>4 DEF Promise!Next
  <2>3. CASE game' = game
    BY <1>3, <2>3
  <2>4. CASE /\ Unwanted(game) = {} /\ Absent(game) # {}
             /\ game' = level_get_for_use(game, want[NextToLoad(game)].name, Disposable(game))
    <3>1. PICK s \in Slots, l \in Levels \cup Missing :
            /\ game.lev[s].status = "inactive" /\ Alone(game, s)
            /\ l \in NamesOf(want) /\ ~InSlot(game, l)
            /\ s = Disposable(game) /\ l = want[NextToLoad(game)].name
      BY <1>1, <2>4, FreeSlot
    <3>2. Promise!Begin(s, l)
      BY <1>1, <2>1, <2>4, <3>1, BeginStep
    <3> QED BY <3>2 DEF Promise!Next
  <2> QED BY <1>8, <2>2, <2>3, <2>4, UpdateCases
<1>9. CASE Display
  <2>1. \E S \in SUBSET Slots : Promise!Display(S)
    BY <1>1, <1>9, DisplayStep
  <2> QED BY <2>1 DEF Promise!Next
<1>10. CASE Answer
  <2>1. SameLoad(game, game') /\ want' = want
    BY <1>1, <1>10, ServedFacts DEF Answer
  <2>2. View(game') = View(game)
    BY <2>1 DEF SameLoad, View
  <2> QED BY <1>2, <2>1, <2>2
<1>11. CASE UNCHANGED vars
  BY <1>3, <1>11 DEF vars
<1> QED BY <1>5, <1>6, <1>7, <1>8, <1>9, <1>10, <1>11 DEF Next

(* In such a game the slots keep what the comments above level-status and   *)
(* level-status-set! say: one load at a time, in a free slot, its statuses  *)
(* in order, and no wanted level is ever given up or taken for another.     *)
THEOREM StatusesInOrder ==
  ASSUME OneAtATime
  PROVE  Spec => ImplementsStatuses
<1>1. Init => Promise!Init
  BY PromiseInit
<1>2. Inv /\ [Next]_vars => [Promise!Next]_(Promise!svars)
  BY PromiseStep
<1> QED BY <1>1, <1>2, Invariance, PTL DEF Spec, ImplementsStatuses, Promise!Spec

=============================================================================
