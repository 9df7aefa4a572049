---------------------------- MODULE DownloadsProofs ----------------------------
(***************************************************************************)
(* Proofs about Downloads, for every number of requests, torrents and      *)
(* files and every Allocation: its type, that no path through an admission *)
(* leaks room of the Allocation, that no torrent is deleted under a stream *)
(* the removal could see, that the last removal takes the torrent, and     *)
(* that concurrent admissions of one-file torrents fit the Allocation.     *)
(***************************************************************************)
EXTENDS DownloadsHistory, FiniteSetTheorems, FunctionTheorems, TLAPS

(* The pairs that Total counts.                                            *)
Block(f, x) == {x} \X (1 .. f[x])

(* One block has as many pairs as the function's value.                    *)
LEMMA BlockSize ==
  ASSUME NEW f, NEW x, f[x] \in Nat
  PROVE  IsFiniteSet(Block(f, x)) /\ Cardinality(Block(f, x)) = f[x]
<1>1. IsFiniteSet(1 .. f[x]) /\ Cardinality(1 .. f[x]) = f[x]
  BY FS_Interval, SMT
<1>2. IsFiniteSet({x}) /\ Cardinality({x}) = 1
  BY FS_Singleton
<1>3. /\ IsFiniteSet({x} \X (1 .. f[x]))
      /\ Cardinality({x} \X (1 .. f[x])) = Cardinality({x}) * Cardinality(1 .. f[x])
  BY <1>1, <1>2, FS_Product
<1> QED
  BY <1>1, <1>2, <1>3, SMT DEF Block

(* Total counts a finite set.                                              *)
LEMMA TotalFinite ==
  ASSUME NEW S, IsFiniteSet(S), NEW f, \A x \in S : f[x] \in Nat
  PROVE  IsFiniteSet(UNION {Block(f, x) : x \in S}) /\ Total(f, S) \in Nat
<1> DEFINE B == {Block(f, x) : x \in S}
           g == [x \in S |-> Block(f, x)]
<1>1. g \in Surjection(S, B)
  BY Zenon DEF Surjection
<1>2. IsFiniteSet(B)
  <2> HIDE DEF g, B
  <2> QED BY <1>1, FS_Surjection
<1>3. \A b \in B : IsFiniteSet(b)
  BY BlockSize
<1>4. IsFiniteSet(UNION B)
  <2> HIDE DEF B
  <2> QED BY <1>2, <1>3, FS_UNION
<1>5. Total(f, S) = Cardinality(UNION B)
  BY DEF Total, Block
<1> QED
  BY <1>4, <1>5, FS_CardinalityType

(* One element of the domain taken apart.                                  *)
LEMMA TotalSplit ==
  ASSUME NEW S, IsFiniteSet(S), NEW f, \A x \in S : f[x] \in Nat, NEW p \in S
  PROVE  /\ Total(f, S) = Total(f, S \ {p}) + f[p]
         /\ Total(f, S \ {p}) \in Nat
<1> DEFINE R == UNION {Block(f, x) : x \in S \ {p}}
<1>1. IsFiniteSet(S \ {p})
  BY FS_RemoveElement
<1>2. IsFiniteSet(R) /\ Total(f, S \ {p}) \in Nat
  BY <1>1, TotalFinite
<1>3. IsFiniteSet(Block(f, p)) /\ Cardinality(Block(f, p)) = f[p]
  BY BlockSize
<1>4. R \cap Block(f, p) = {}
  BY DEF Block
<1>5. UNION {Block(f, x) : x \in S} = R \cup Block(f, p)
  OBVIOUS
<1>6. Cardinality(R \cup Block(f, p)) = Cardinality(R) + f[p]
  <2> HIDE DEF R
  <2>1. Cardinality(R \cap Block(f, p)) = 0
    BY <1>4, FS_EmptySet
  <2>2. Cardinality(R \cup Block(f, p))
          = Cardinality(R) + Cardinality(Block(f, p)) - Cardinality(R \cap Block(f, p))
    BY <1>2, <1>3, FS_Union
  <2>3. Cardinality(R) \in Nat
    BY <1>2, FS_CardinalityType
  <2> QED BY <2>1, <2>2, <2>3, <1>3, SMT
<1>7. Total(f, S \ {p}) = Cardinality(R) /\ Total(f, S) = Cardinality(R \cup Block(f, p))
  <2>1. Total(f, S) = Cardinality(UNION {Block(f, x) : x \in S})
    BY Zenon DEF Total, Block
  <2> QED BY <1>5, <2>1, Zenon DEF Total, Block
<1> QED
  BY <1>2, <1>6, <1>7, Zenon

(* Functions that agree on S have the same Total.                          *)
LEMMA TotalSame ==
  ASSUME NEW S, NEW f, NEW g, \A x \in S : f[x] = g[x]
  PROVE  Total(f, S) = Total(g, S)
<1>1. {{x} \X (1 .. f[x]) : x \in S} = {{x} \X (1 .. g[x]) : x \in S}
  OBVIOUS
<1> QED BY <1>1, Zenon DEF Total

(* Changing one value changes the Total by the difference.                 *)
LEMMA TotalUpdate ==
  ASSUME NEW S, IsFiniteSet(S), NEW p \in S, NEW f \in [S -> Nat],
         NEW g \in [S -> Nat], \A x \in S \ {p} : g[x] = f[x]
  PROVE  Total(g, S) = Total(f, S) - f[p] + g[p] /\ f[p] <= Total(f, S)
<1>1. \A x \in S : f[x] \in Nat /\ g[x] \in Nat
  OBVIOUS
<1>2. Total(g, S \ {p}) = Total(f, S \ {p})
  BY TotalSame
<1>3. Total(f, S) = Total(f, S \ {p}) + f[p] /\ Total(f, S \ {p}) \in Nat
  BY <1>1, TotalSplit
<1>4. Total(g, S) = Total(g, S \ {p}) + g[p]
  BY <1>1, TotalSplit
<1> QED
  BY <1>1, <1>2, <1>3, <1>4, SMT

(* Nothing adds up to nothing.                                             *)
LEMMA TotalZero ==
  ASSUME NEW S
  PROVE  Total([x \in S |-> 0], S) = 0
<1>1. UNION {{x} \X (1 .. [y \in S |-> 0][x]) : x \in S} = {}
  OBVIOUS
<1> QED BY <1>1, FS_EmptySet DEF Total

--------------------------------------------------------------------------------

(* Who holds admissionMu claims nothing, and only its holder, or a         *)
(* retention pass, decides about room.                                     *)
ClaimsGuarded ==
  \A p \in Requests :
     /\ admitting = p => held[p] = 0
     /\ req[p].at \in {"survey", "weigh"} /\ req[p].op # "retention" => admitting = p

(* A retention pass has no torrent of its own and only surveys and evicts; *)
(* every other request has one.                                            *)
Routed ==
  \A p \in Requests :
     /\ req[p].at # "idle" /\ req[p].op # "retention" => req[p].route \in Routes
     /\ req[p].op = "retention" =>
          req[p].at \in {"survey", "weigh", "evict", "forgetList", "forget"}

Inv == TypeOK /\ ReservedIsHeld /\ ClaimsGuarded /\ Routed

(* The idle request is a request.                                          *)
LEMMA IdleType == Idle \in Request
BY DEF Idle, Request, OpNames, Calls

(* The bytes an admission asks for are a number.                           *)
LEMMA ActualType ==
  ASSUME NEW r \in Routes
  PROVE  Actual(r) \in Nat
<1>1. IsFiniteSet(FilesOf(r)) /\ FilesOf(r) \subseteq Files
  BY NamesAssumption, FS_Subset DEF FilesOf
<1>2. \A x \in FilesOf(r) : Size[x] \in Nat
  BY <1>1, CountsAssumption
<1> QED
  BY <1>1, <1>2, TotalFinite DEF Actual

(* A request that returns gives its claim back and leaves the rest alone.  *)
LEMMA ReturnKeeps ==
  ASSUME NEW p \in Requests, Inv, Return(p)
  PROVE  /\ reserved' \in Nat
         /\ held' \in [Requests -> Nat]
         /\ admitting' \in Requests \cup {None}
         /\ req' \in [Requests -> Request]
         /\ ReservedIsHeld'
         /\ ClaimsGuarded'
         /\ Routed'
<1>1. held \in [Requests -> Nat] /\ reserved \in Nat /\ held[p] \in Nat
  BY DEF Inv, TypeOK
<1>2. /\ reserved' = reserved - held[p]
      /\ held' \in [Requests -> Nat] /\ held'[p] = 0
      /\ \A q \in Requests \ {p} : held'[q] = held[q]
  BY <1>1 DEF Return
<1>3. IsFiniteSet(Requests)
  BY NamesAssumption
<1>4. /\ Total(held', Requests) = Total(held, Requests) - held[p] + held'[p]
      /\ held[p] <= Total(held, Requests)
  BY <1>1, <1>2, <1>3, TotalUpdate
<1>5. reserved = Total(held, Requests)
  BY DEF Inv, ReservedIsHeld
<1>6. reserved' \in Nat /\ reserved' = Total(held', Requests)
  BY <1>1, <1>2, <1>4, <1>5, SMT
<1>8. admitting' \in Requests \cup {None}
  BY DEF Return, Inv, TypeOK
<1>9. req' \in [Requests -> Request]
  BY IdleType DEF Return, Inv, TypeOK
<1>10. ClaimsGuarded'
  BY NamesAssumption DEF ClaimsGuarded, Return, Idle, Inv, TypeOK
<1>11. Routed'
  BY DEF Routed, Return, Idle, Inv, TypeOK
<1> QED
  BY <1>2, <1>6, <1>8, <1>9, <1>10, <1>11 DEF ReservedIsHeld

(* A step that leaves the claims alone and moves one request keeps what is *)
(* known of the claims, if the request keeps its operation and its torrent *)
(* and does not start to decide about room.                                *)
LEMMA MoveKeeps ==
  ASSUME NEW p \in Requests, Inv, UNCHANGED claims,
         \A q \in Requests \ {p} : req'[q] = req[q],
         req'[p].at \in {"survey", "weigh"} /\ req'[p].op # "retention" => admitting = p,
         req'[p].at # "idle" /\ req'[p].op # "retention" => req'[p].route \in Routes,
         req'[p].op = "retention" =>
           req'[p].at \in {"survey", "weigh", "evict", "forgetList", "forget"}
  PROVE  /\ reserved' \in Nat
         /\ held' \in [Requests -> Nat]
         /\ admitting' \in Requests \cup {None}
         /\ ReservedIsHeld'
         /\ ClaimsGuarded'
         /\ Routed'
<1>1. reserved' = reserved /\ held' = held /\ admitting' = admitting
  BY DEF claims
<1> QED
  BY <1>1 DEF Inv, TypeOK, ReservedIsHeld, ClaimsGuarded, Routed

--------------------------------------------------------------------------------

(* Editing the fields of a request leaves a request, one part per set of   *)
(* fields that some call assigns.                                          *)
LEMMA EditType ==
  ASSUME NEW r \in Request, NEW a \in Calls, NEW S \in SUBSET Files,
         NEW F \in SUBSET Files, NEW v \in Routes \cup {None}, NEW n \in Nat,
         NEW b \in BOOLEAN
  PROVE  /\ [r EXCEPT !.at = a] \in Request
         /\ [r EXCEPT !.at = a, !.keyed = b] \in Request
         /\ [r EXCEPT !.at = a, !.hashed = b] \in Request
         /\ [r EXCEPT !.at = a, !.need = n] \in Request
         /\ [r EXCEPT !.at = a, !.flags = F] \in Request
         /\ [r EXCEPT !.at = a, !.seen = S] \in Request
         /\ [r EXCEPT !.at = a, !.seen = S, !.flags = F] \in Request
         /\ [r EXCEPT !.at = a, !.seen = S, !.victim = v] \in Request
         /\ [r EXCEPT !.at = a, !.victim = v, !.seen = S, !.flags = F] \in Request
         /\ [r EXCEPT !.seen = S, !.at = a] \in Request
         /\ [r EXCEPT !.seen = S, !.flags = F, !.at = a] \in Request
BY DEF Request

(* The same for a saved row ...                                            *)
LEMMA EditSavedType ==
  ASSUME NEW r \in Request, NEW a \in Calls, NEW S \in SUBSET Files,
         NEW F \in SUBSET Files, NEW b \in BOOLEAN
  PROVE  [r EXCEPT !.seen = S, !.flags = F, !.at = a, !.hashed = b] \in Request
BY DEF Request

(* ... and for an admission.                                               *)
LEMMA EditAdmittedType ==
  ASSUME NEW r \in Request, NEW a \in Calls, NEW b \in BOOLEAN
  PROVE  [r EXCEPT !.at = a, !.again = b, !.seen = {}, !.flags = {}, !.need = 0] \in Request
BY DEF Request

(* A request that is replaced by a request.                                *)
LEMMA ReplaceType ==
  ASSUME NEW p \in Requests, Inv, NEW x \in Request, req' = [req EXCEPT ![p] = x]
  PROVE  req' \in [Requests -> Request]
BY DEF Inv, TypeOK

(* What the fields of a request are.                                       *)
LEMMA FieldTypes ==
  ASSUME NEW p \in Requests, Inv
  PROVE  /\ req[p] \in Request
         /\ req[p].op \in OpNames /\ req[p].at \in Calls
         /\ req[p].want \subseteq Files /\ req[p].route \in Routes \cup {None}
         /\ req[p].seen \subseteq Files /\ req[p].flags \subseteq Files
         /\ req[p].victim \in Routes \cup {None} /\ req[p].need \in Nat
         /\ req[p].hashed \in BOOLEAN /\ req[p].keyed \in BOOLEAN
         /\ req[p].again \in BOOLEAN
<1>1. req[p] \in Request
  BY DEF Inv, TypeOK
<1> QED BY <1>1 DEF Request

(* The requests stay requests through every call that leaves its claim     *)
(* alone, and through the one that makes it.                               *)
LEMMA RequestsTyped ==
  ASSUME NEW p \in Requests, Inv,
         \/ Enter(p) \/ Find(p) \/ List(p) \/ Reuse(p) \/ ReuseSave(p)
         \/ ManagedLocal(p) \/ ManagedStatus(p) \/ managedTorrentIndices(p)
         \/ SelectFiles(p) \/ SaveRow(p) \/ EnterAdmission(p) \/ Survey(p) \/ Admit(p)
         \/ ChooseVictim(p) \/ EngineAdd(p) \/ EngineRemove(p) \/ ForgetList(p)
         \/ ForgetRow(p) \/ DeleteRow(p) \/ Remaining(p) \/ TouchList(p) \/ Touch(p)
         \/ Lease(p) \/ Persist(p)
  PROVE  req' \in [Requests -> Request]
<1>0. /\ rows \subseteq Files /\ flagged \subseteq rows /\ req \in [Requests -> Request]
      /\ req[p] \in Request /\ req[p].want \subseteq Files /\ req[p].seen \subseteq Files
      /\ req[p].flags \subseteq Files /\ req[p].at \in Calls /\ req[p].hashed \in BOOLEAN
  BY FieldTypes DEF Inv, TypeOK
<1>a. /\ AfterSave(p) \in Calls /\ AfterForget(p) \in Calls
      /\ (IF GrowsTo(p) THEN "admit" ELSE "add") \in Calls /\ GrowsTo(p) \in BOOLEAN
      /\ {"survey", "forget", "finish", "touch"} \subseteq Calls
  BY DEF AfterSave, AfterForget, GrowsTo, Calls
<1>1. CASE Enter(p)
  <2>2. req' = [req EXCEPT ![p] = [req[p] EXCEPT
                !.at = "find", !.keyed = TRUE]]
    BY <1>1, <1>0 DEF Enter
  <2>3. "find" \in Calls
    BY <1>0, <1>a DEF Calls
  <2> QED BY <1>0, <2>2, <2>3, EditType, ReplaceType
<1>2. CASE Find(p)
  <2>2. req' = [req EXCEPT ![p] = [req[p] EXCEPT
                !.at = IF req[p].want \subseteq rows THEN "managed" ELSE "list",
                !.flags = flagged \cap req[p].want]]
    BY <1>2, <1>0 DEF Find
  <2>3. /\ (IF req[p].want \subseteq rows THEN "managed" ELSE "list") \in Calls
        /\ flagged \cap req[p].want \in SUBSET Files
    BY <1>0, <1>a DEF Calls
  <2> QED BY <1>0, <2>2, <2>3, EditType, ReplaceType
<1>3. CASE List(p)
  <2>1. PICK a \in Calls : Goto(p, a)
    BY <1>3, <1>0, NamesAssumption DEF List, Calls
  <2>2. req' = [req EXCEPT ![p] = [req[p] EXCEPT
                !.at = a]]
    BY <2>1, <1>0 DEF Goto
  <2> QED BY <1>0, <2>2, EditType, ReplaceType
<1>4. CASE Reuse(p)
  <2>2. req' = [req EXCEPT ![p] = [req[p] EXCEPT
                !.at = "reuseSave"]]
    BY <1>4, <1>0 DEF Reuse, Goto
  <2>3. "reuseSave" \in Calls
    BY <1>0, <1>a DEF Calls
  <2> QED BY <1>0, <2>2, <2>3, EditType, ReplaceType
<1>5. CASE ReuseSave(p)
  <2>2. req' = [req EXCEPT ![p] = [req[p] EXCEPT
                !.at = "managed", !.flags = {}]]
    BY <1>5, <1>0 DEF ReuseSave
  <2>3. "managed" \in Calls
    BY <1>0, <1>a DEF Calls
  <2> QED BY <1>0, <2>2, <2>3, EditType, ReplaceType
<1>6. CASE ManagedLocal(p)
  <2>2. req' = [req EXCEPT ![p] = [req[p] EXCEPT
                !.at = AfterSave(p), !.flags = {}]]
    BY <1>6, <1>0 DEF ManagedLocal
  <2>3. AfterSave(p) \in Calls
    BY <1>0, <1>a DEF Calls
  <2> QED BY <1>0, <2>2, <2>3, EditType, ReplaceType
<1>7. CASE ManagedStatus(p)
  <2>2. req' = [req EXCEPT ![p] = [req[p] EXCEPT
                !.at = "indices", !.hashed = TRUE]]
    BY <1>7, <1>0 DEF ManagedStatus
  <2>3. "indices" \in Calls
    BY <1>0, <1>a DEF Calls
  <2> QED BY <1>0, <2>2, <2>3, EditType, ReplaceType
<1>8. CASE managedTorrentIndices(p)
  <2>1. PICK S \in SUBSET Files : req' = [req EXCEPT ![p].at = "select", ![p].seen = S]
    BY <1>8, <1>0, NamesAssumption DEF managedTorrentIndices, FilesOf, Calls
  <2>2. req' = [req EXCEPT ![p] = [req[p] EXCEPT
                !.at = "select", !.seen = S]]
    BY <2>1, <1>0
  <2>3. "select" \in Calls
    BY <1>0, <1>a DEF Calls
  <2> QED BY <1>0, <2>2, <2>3, EditType, ReplaceType
<1>9. CASE SelectFiles(p)
  <2>2. req' = [req EXCEPT ![p] = [req[p] EXCEPT
                !.at = "save", !.seen = req[p].want]]
    BY <1>9, <1>0 DEF SelectFiles
  <2>3. "save" \in Calls
    BY <1>0, <1>a DEF Calls
  <2> QED BY <1>0, <2>2, <2>3, EditType, ReplaceType
<1>10. CASE EngineAdd(p)
  <2>2. req' = [req EXCEPT ![p] = [req[p] EXCEPT
                !.at = "indices"]]
    BY <1>10, <1>0 DEF EngineAdd, Goto
  <2>3. "indices" \in Calls
    BY <1>0, <1>a DEF Calls
  <2> QED BY <1>0, <2>2, <2>3, EditType, ReplaceType
<1>11. CASE Survey(p)
  <2>2. req' = [req EXCEPT ![p] = [req[p] EXCEPT
                !.at = "weigh", !.seen = rows, !.flags = flagged]]
    BY <1>11, <1>0 DEF Survey
  <2>3. "weigh" \in Calls /\ rows \subseteq Files /\ flagged \subseteq Files
    BY <1>0, <1>a DEF Calls
  <2> QED BY <1>0, <2>2, <2>3, EditType, ReplaceType
<1>12. CASE Admit(p)
  <2>2. req' = [req EXCEPT ![p] = [req[p] EXCEPT
                !.at = IF GrowsTo(p) THEN "admit" ELSE "add", !.again = GrowsTo(p),
                !.seen = {}, !.flags = {}, !.need = 0]]
    BY <1>12, <1>0 DEF Admit, Admitted
  <2>3. /\ (IF GrowsTo(p) THEN "admit" ELSE "add") \in Calls
        /\ GrowsTo(p) \in BOOLEAN
    BY <1>0, <1>a DEF Calls
  <2> QED BY <1>0, <2>2, <2>3, EditAdmittedType, ReplaceType
<1>13. CASE ChooseVictim(p)
  <2>1. PICK r \in Routes : req' = [req EXCEPT ![p].at = "evict", ![p].victim = r,
                                              ![p].seen = {}, ![p].flags = {}]
    BY <1>13, <1>0, NamesAssumption DEF ChooseVictim, Evictable, RoutesOf, Surveyed, Calls
  <2>2. req' = [req EXCEPT ![p] = [req[p] EXCEPT
                !.at = "evict", !.victim = r, !.seen = {}, !.flags = {}]]
    BY <2>1, <1>0
  <2>3. "evict" \in Calls
    BY <1>0, <1>a DEF Calls
  <2> QED BY <1>0, <2>2, <2>3, EditType, ReplaceType
<1>14. CASE EngineRemove(p)
  <2>2. req' = [req EXCEPT ![p] = [req[p] EXCEPT
                !.at = "forgetList"]]
    BY <1>14, <1>0 DEF EngineRemove, Goto
  <2>3. "forgetList" \in Calls
    BY <1>0, <1>a DEF Calls
  <2> QED BY <1>0, <2>2, <2>3, EditType, ReplaceType
<1>15. CASE ForgetList(p)
  <2> DEFINE S == rows \cap FilesOf(Doomed(p))
             a == IF S = {} THEN AfterForget(p) ELSE "forget"
  <2>1. S \in SUBSET Files /\ a \in Calls
    BY <1>0, <1>a
  <2>2. req' = [req EXCEPT ![p] = [req[p] EXCEPT !.at = a, !.seen = S, !.victim = None]]
    BY <1>15, <1>0 DEF ForgetList
  <2> QED
    <3> HIDE DEF S, a
    <3> QED BY <1>0, <2>1, <2>2, EditType, ReplaceType
<1>16. CASE DeleteRow(p)
  <2>2. req' = [req EXCEPT ![p] = [req[p] EXCEPT
                !.at = "remaining"]]
    BY <1>16, <1>0 DEF DeleteRow, Goto
  <2>3. "remaining" \in Calls
    BY <1>0, <1>a DEF Calls
  <2> QED BY <1>0, <2>2, <2>3, EditType, ReplaceType
<1>17. CASE Remaining(p)
  <2>2. req' = [req EXCEPT ![p] = [req[p] EXCEPT
                !.at = IF rows \cap FilesOf(req[p].route) = {} THEN "evict" ELSE "finish"]]
    BY <1>17, <1>0 DEF Remaining, Goto
  <2>3. (IF rows \cap FilesOf(req[p].route) = {} THEN "evict" ELSE "finish") \in Calls
    BY <1>0, <1>a DEF Calls
  <2> QED BY <1>0, <2>2, <2>3, EditType, ReplaceType
<1>18. CASE Lease(p)
  <2>2. req' = [req EXCEPT ![p] = [req[p] EXCEPT
                !.at = "persist"]]
    BY <1>18, <1>0 DEF Lease, Goto
  <2>3. "persist" \in Calls
    BY <1>0, <1>a DEF Calls
  <2> QED BY <1>0, <2>2, <2>3, EditType, ReplaceType
<1>19. CASE Persist(p)
  <2>2. req' = [req EXCEPT ![p] = [req[p] EXCEPT
                !.at = "playing"]]
    BY <1>19, <1>0 DEF Persist, Goto
  <2>3. "playing" \in Calls
    BY <1>0, <1>a DEF Calls
  <2> QED BY <1>0, <2>2, <2>3, EditType, ReplaceType
<1>20. CASE SaveRow(p)
  <2>1. PICK f \in req[p].seen :
          req' = [req EXCEPT ![p].seen = @ \ {f}, ![p].flags = @ \ {f},
                             ![p].at = IF req[p].seen = {f} THEN AfterSave(p) ELSE @,
                             ![p].hashed = IF req[p].seen = {f} THEN FALSE ELSE @]
    BY <1>20 DEF SaveRow
  <2> DEFINE S == req[p].seen \ {f}
             F == req[p].flags \ {f}
             a == IF req[p].seen = {f} THEN AfterSave(p) ELSE req[p].at
             h == IF req[p].seen = {f} THEN FALSE ELSE req[p].hashed
  <2>2. S \in SUBSET Files /\ F \in SUBSET Files /\ a \in Calls /\ h \in BOOLEAN
    BY <1>0, <1>a
  <2>3. req' = [req EXCEPT ![p] = [req[p] EXCEPT !.seen = S, !.flags = F, !.at = a, !.hashed = h]]
    BY <1>0, <2>1
  <2> QED
    <3> HIDE DEF S, F, a, h
    <3> QED BY <1>0, <2>2, <2>3, EditSavedType, ReplaceType
<1>21. CASE Touch(p)
  <2>1. PICK f \in req[p].seen :
          req' = [req EXCEPT ![p].seen = @ \ {f}, ![p].flags = @ \ {f},
                             ![p].at = IF req[p].seen = {f} THEN "finish" ELSE @]
    BY <1>21 DEF Touch
  <2> DEFINE S == req[p].seen \ {f}
             F == req[p].flags \ {f}
             a == IF req[p].seen = {f} THEN "finish" ELSE req[p].at
  <2>2. S \in SUBSET Files /\ F \in SUBSET Files /\ a \in Calls
    BY <1>0, <1>a
  <2>3. req' = [req EXCEPT ![p] = [req[p] EXCEPT !.seen = S, !.flags = F, !.at = a]]
    BY <1>0, <2>1
  <2> QED
    <3> HIDE DEF S, F, a
    <3> QED BY <1>0, <2>2, <2>3, EditType, ReplaceType
<1>22. CASE ForgetRow(p)
  <2>1. PICK f \in req[p].seen :
          req' = [req EXCEPT ![p].seen = @ \ {f},
                             ![p].at = IF req[p].seen = {f} THEN AfterForget(p) ELSE @]
    BY <1>22 DEF ForgetRow
  <2> DEFINE S == req[p].seen \ {f}
             a == IF req[p].seen = {f} THEN AfterForget(p) ELSE req[p].at
  <2>2. S \in SUBSET Files /\ a \in Calls
    BY <1>0, <1>a
  <2>3. req' = [req EXCEPT ![p] = [req[p] EXCEPT !.seen = S, !.at = a]]
    BY <1>0, <2>1
  <2> QED
    <3> HIDE DEF S, a
    <3> QED BY <1>0, <2>2, <2>3, EditType, ReplaceType
<1>23. CASE TouchList(p)
  <2> DEFINE S == rows \cap FilesOf(req[p].route)
             a == IF S = {} THEN "finish" ELSE "touch"
             F == flagged \cap S
  <2>1. S \in SUBSET Files /\ F \in SUBSET Files /\ a \in Calls
    BY <1>0, <1>a
  <2>2. req' = [req EXCEPT ![p] = [req[p] EXCEPT !.at = a, !.seen = S, !.flags = F]]
    BY <1>23, <1>0 DEF TouchList
  <2> QED
    <3> HIDE DEF S, a, F
    <3> QED BY <1>0, <2>1, <2>2, EditType, ReplaceType
<1>24. CASE EnterAdmission(p)
  <2>1. CASE req' = Admitted(p)
    <3>1. req' = [req EXCEPT ![p] = [req[p] EXCEPT
                  !.at = IF GrowsTo(p) THEN "admit" ELSE "add", !.again = GrowsTo(p),
                  !.seen = {}, !.flags = {}, !.need = 0]]
      BY <2>1, <1>0 DEF Admitted
    <3> QED BY <1>0, <1>a, <3>1, EditAdmittedType, ReplaceType
  <2>2. CASE req' # Admitted(p)
    <3>1. PICK n \in {Actual(req[p].route), Declared[req[p].route]} :
            req' = [req EXCEPT ![p].at = "survey", ![p].need = n]
      BY <1>24, <2>2 DEF EnterAdmission
    <3>2. req' = [req EXCEPT ![p] = [req[p] EXCEPT !.at = "survey", !.need = n]]
      BY <3>1, <1>0
    <3>3. n \in Nat
      BY <3>1, <1>24, ActualType, CountsAssumption DEF EnterAdmission, Inv, Routed
    <3> QED BY <1>0, <1>a, <3>2, <3>3, EditType, ReplaceType
  <2> QED BY <2>1, <2>2
<1> QED BY <1>1, <1>2, <1>3, <1>4, <1>5, <1>6, <1>7, <1>8, <1>9, <1>10, <1>11, <1>12, <1>13, <1>14, <1>15, <1>16, <1>17, <1>18, <1>19, <1>20, <1>21, <1>22, <1>23, <1>24

(* What is typed besides the requests and the claims.                      *)
RestOK == /\ rows \subseteq Files
          /\ flagged \subseteq rows
          /\ torrents \subseteq Routes
          /\ selected \in [Routes -> SUBSET Files]
          /\ complete \subseteq Files
          /\ leases \in [Files -> Nat]

(* The calls that leave the claims alone keep the table, the engine and    *)
(* the counts what they are.                                               *)
LEMMA RestKept ==
  ASSUME NEW p \in Requests, Inv,
         \/ Enter(p) \/ Find(p) \/ List(p) \/ Reuse(p) \/ ReuseSave(p)
         \/ ManagedLocal(p) \/ ManagedStatus(p) \/ managedTorrentIndices(p)
         \/ SelectFiles(p) \/ SaveRow(p) \/ Survey(p) \/ ChooseVictim(p)
         \/ EngineAdd(p) \/ EngineRemove(p) \/ ForgetList(p) \/ ForgetRow(p)
         \/ DeleteRow(p) \/ Remaining(p) \/ TouchList(p) \/ Touch(p)
         \/ Lease(p) \/ Persist(p)
  PROVE  RestOK'
<1>0. /\ RestOK /\ req[p].want \subseteq Files /\ req[p].seen \subseteq Files
      /\ req[p].at # "idle" /\ req[p].op # "retention" => req[p].route \in Routes
      /\ req[p].op = "retention" =>
           req[p].at \in {"survey", "weigh", "evict", "forgetList", "forget"}
  BY FieldTypes DEF Inv, TypeOK, RestOK, Routed
<1>1. CASE \/ Enter(p) \/ Find(p) \/ List(p) \/ Reuse(p) \/ ManagedLocal(p)
           \/ ManagedStatus(p) \/ managedTorrentIndices(p) \/ Survey(p)
           \/ ChooseVictim(p) \/ ForgetList(p) \/ Remaining(p) \/ TouchList(p)
  BY <1>0, <1>1 DEF RestOK, table, engine, Enter, Find, List, Reuse, ManagedLocal, ManagedStatus,
     managedTorrentIndices, Survey, ChooseVictim, ForgetList, Remaining, TouchList
<1>2. CASE ReuseSave(p)
  BY <1>0, <1>2 DEF RestOK, table, engine, ReuseSave, SaveDownload
<1>3. CASE SelectFiles(p)
  BY <1>0, <1>3 DEF RestOK, table, engine, SelectFiles, PrepareFiles
<1>4. CASE SaveRow(p)
  BY <1>0, <1>4 DEF RestOK, table, engine, SaveRow, SaveDownload, AfterSave
<1>5. CASE EngineAdd(p)
  BY <1>0, <1>5 DEF RestOK, table, engine, EngineAdd, Add, Goto
<1>6. CASE EngineRemove(p)
  BY <1>0, <1>6 DEF RestOK, table, engine, EngineRemove, Remove, Goto
<1>7. CASE ForgetRow(p)
  BY <1>0, <1>7 DEF RestOK, table, engine, ForgetRow, DeleteDownload, AfterForget
<1>8. CASE DeleteRow(p)
  BY <1>0, <1>8 DEF RestOK, table, engine, DeleteRow, DeleteDownload, Goto
<1>9. CASE Touch(p)
  BY <1>0, <1>9 DEF RestOK, table, engine, Touch, SaveDownload
<1>10. CASE Lease(p)
  BY <1>0, <1>10 DEF RestOK, table, engine, Lease, Goto
<1>11. CASE Persist(p)
  BY <1>0, <1>11 DEF RestOK, table, engine, Persist, Goto
<1> QED BY <1>1, <1>2, <1>3, <1>4, <1>5, <1>6, <1>7, <1>8, <1>9, <1>10, <1>11

(* The same calls keep what is known of the claims.                        *)
LEMMA GuardKept ==
  ASSUME NEW p \in Requests, Inv,
         \/ Enter(p) \/ Find(p) \/ List(p) \/ Reuse(p) \/ ReuseSave(p)
         \/ ManagedLocal(p) \/ ManagedStatus(p) \/ managedTorrentIndices(p)
         \/ SelectFiles(p) \/ SaveRow(p) \/ Survey(p) \/ ChooseVictim(p)
         \/ EngineAdd(p) \/ EngineRemove(p) \/ ForgetList(p) \/ ForgetRow(p)
         \/ DeleteRow(p) \/ Remaining(p) \/ TouchList(p) \/ Touch(p)
         \/ Lease(p) \/ Persist(p)
  PROVE  /\ UNCHANGED claims
         /\ \A q \in Requests \ {p} : req'[q] = req[q]
         /\ req'[p].at \in {"survey", "weigh"} /\ req'[p].op # "retention" => admitting = p
         /\ req'[p].at # "idle" /\ req'[p].op # "retention" => req'[p].route \in Routes
         /\ req'[p].op = "retention" =>
              req'[p].at \in {"survey", "weigh", "evict", "forgetList", "forget"}
<1>0. /\ req \in [Requests -> Request] /\ req[p] \in Request
      /\ req[p].at # "idle" /\ req[p].op # "retention" => req[p].route \in Routes
      /\ req[p].op = "retention" =>
           req[p].at \in {"survey", "weigh", "evict", "forgetList", "forget"}
      /\ req[p].at \in {"survey", "weigh"} /\ req[p].op # "retention" => admitting = p
  BY FieldTypes DEF Inv, TypeOK, Routed, ClaimsGuarded
<1>1. CASE Enter(p)
  BY <1>0, <1>1 DEF Request, Enter
<1>2. CASE Find(p)
  BY <1>0, <1>2 DEF Request, Find
<1>3. CASE List(p)
  BY <1>0, <1>3 DEF Request, List, Goto
<1>4. CASE Reuse(p)
  BY <1>0, <1>4 DEF Request, Reuse, Goto
<1>5. CASE ReuseSave(p)
  BY <1>0, <1>5 DEF Request, ReuseSave
<1>6. CASE ManagedLocal(p)
  BY <1>0, <1>6 DEF Request, ManagedLocal, AfterSave
<1>7. CASE ManagedStatus(p)
  BY <1>0, <1>7 DEF Request, ManagedStatus
<1>8. CASE managedTorrentIndices(p)
  <2>1. PICK S :
          req' = [req EXCEPT ![p].at = "select", ![p].seen = S]
    BY <1>8 DEF managedTorrentIndices
  <2>2. UNCHANGED claims
    BY <1>8 DEF managedTorrentIndices
  <2>3. /\ req'[p].op = req[p].op /\ req'[p].route = req[p].route
        /\ req'[p].at = "select"
        /\ \A q \in Requests \ {p} : req'[q] = req[q]
    BY <1>0, <2>1 DEF Request
  <2>4. req[p].at = "indices"
    BY <1>8 DEF managedTorrentIndices
  <2> QED BY <1>0, <2>2, <2>3, <2>4
<1>9. CASE SelectFiles(p)
  BY <1>0, <1>9 DEF Request, SelectFiles
<1>10. CASE SaveRow(p)
  <2>1. PICK f :
          req' = [req EXCEPT ![p].seen = @ \ {f}, ![p].flags = @ \ {f},
                             ![p].at = IF req[p].seen = {f} THEN AfterSave(p) ELSE @,
                             ![p].hashed = IF req[p].seen = {f} THEN FALSE ELSE @]
    BY <1>10 DEF SaveRow
  <2>2. UNCHANGED claims
    BY <1>10 DEF SaveRow
  <2>3. /\ req'[p].op = req[p].op /\ req'[p].route = req[p].route
        /\ req'[p].at = IF req[p].seen = {f} THEN AfterSave(p) ELSE req[p].at
        /\ \A q \in Requests \ {p} : req'[q] = req[q]
    BY <1>0, <2>1 DEF Request
  <2>4. req[p].at = "save"
    BY <1>10 DEF SaveRow
  <2> QED BY <1>0, <2>2, <2>3, <2>4 DEF AfterSave
<1>11. CASE Survey(p)
  BY <1>0, <1>11 DEF Request, Survey
<1>12. CASE ChooseVictim(p)
  <2>1. PICK r :
          req' = [req EXCEPT ![p].at = "evict", ![p].victim = r,
                             ![p].seen = {}, ![p].flags = {}]
    BY <1>12 DEF ChooseVictim
  <2>2. UNCHANGED claims
    BY <1>12 DEF ChooseVictim
  <2>3. /\ req'[p].op = req[p].op /\ req'[p].route = req[p].route
        /\ req'[p].at = "evict"
        /\ \A q \in Requests \ {p} : req'[q] = req[q]
    BY <1>0, <2>1 DEF Request
  <2>4. req[p].at = "weigh"
    BY <1>12 DEF ChooseVictim
  <2> QED BY <1>0, <2>2, <2>3, <2>4
<1>13. CASE EngineAdd(p)
  BY <1>0, <1>13 DEF Request, EngineAdd, Goto
<1>14. CASE EngineRemove(p)
  BY <1>0, <1>14 DEF Request, EngineRemove, Goto
<1>15. CASE ForgetList(p)
  BY <1>0, <1>15 DEF Request, ForgetList, AfterForget
<1>16. CASE ForgetRow(p)
  <2>1. PICK f :
          req' = [req EXCEPT ![p].seen = @ \ {f},
                             ![p].at = IF req[p].seen = {f} THEN AfterForget(p) ELSE @]
    BY <1>16 DEF ForgetRow
  <2>2. UNCHANGED claims
    BY <1>16 DEF ForgetRow
  <2>3. /\ req'[p].op = req[p].op /\ req'[p].route = req[p].route
        /\ req'[p].at = IF req[p].seen = {f} THEN AfterForget(p) ELSE req[p].at
        /\ \A q \in Requests \ {p} : req'[q] = req[q]
    BY <1>0, <2>1 DEF Request
  <2>4. req[p].at = "forget"
    BY <1>16 DEF ForgetRow
  <2> QED BY <1>0, <2>2, <2>3, <2>4 DEF AfterForget
<1>17. CASE DeleteRow(p)
  BY <1>0, <1>17 DEF Request, DeleteRow, Goto
<1>18. CASE Remaining(p)
  BY <1>0, <1>18 DEF Request, Remaining, Goto
<1>19. CASE TouchList(p)
  BY <1>0, <1>19 DEF Request, TouchList
<1>20. CASE Touch(p)
  <2>1. PICK f :
          req' = [req EXCEPT ![p].seen = @ \ {f}, ![p].flags = @ \ {f},
                             ![p].at = IF req[p].seen = {f} THEN "finish" ELSE @]
    BY <1>20 DEF Touch
  <2>2. UNCHANGED claims
    BY <1>20 DEF Touch
  <2>3. /\ req'[p].op = req[p].op /\ req'[p].route = req[p].route
        /\ req'[p].at = IF req[p].seen = {f} THEN "finish" ELSE req[p].at
        /\ \A q \in Requests \ {p} : req'[q] = req[q]
    BY <1>0, <2>1 DEF Request
  <2>4. req[p].at = "touch"
    BY <1>20 DEF Touch
  <2> QED BY <1>0, <2>2, <2>3, <2>4
<1>21. CASE Lease(p)
  BY <1>0, <1>21 DEF Request, Lease, Goto
<1>22. CASE Persist(p)
  BY <1>0, <1>22 DEF Request, Persist, Goto
<1> QED BY <1>1, <1>2, <1>3, <1>4, <1>5, <1>6, <1>7, <1>8, <1>9, <1>10, <1>11, <1>12, <1>13, <1>14, <1>15, <1>16, <1>17, <1>18, <1>19, <1>20, <1>21, <1>22

--------------------------------------------------------------------------------

(* Starting a request keeps the invariant.                                 *)
LEMMA BeginKeeps ==
  ASSUME NEW p \in Requests, Inv, NEW op \in OpNames \ {"retention"},
         NEW call \in Calls \ {"survey", "weigh"}, NEW want \in SUBSET Files, want # {},
         Begin(p, op, call, want)
  PROVE  Inv'
<1> DEFINE f0 == CHOOSE f \in want : TRUE
           F == IF op = "stream" THEN flagged \cap want ELSE {}
           x == [Idle EXCEPT !.op = op, !.at = call, !.want = want, !.route = RouteOf[f0],
                             !.flags = F, !.keyed = op \in {"prepare", "season"}]
<1>1. f0 \in Files
  OBVIOUS
<1>2. RouteOf[f0] \in Routes /\ F \subseteq Files /\ (op \in {"prepare", "season"}) \in BOOLEAN
  BY <1>1, NamesAssumption DEF Inv, TypeOK
<1>3. req' = [req EXCEPT ![p] = x]
  BY DEF Begin
<1>4. /\ x \in Request /\ x.op = op /\ x.at = call /\ x.route = RouteOf[f0]
  <2> HIDE DEF f0, F
  <2> QED BY <1>2 DEF Request, Idle, OpNames
<1>5. req' \in [Requests -> Request] /\ req'[p] = x /\ \A q \in Requests \ {p} : req'[q] = req[q]
  <2> HIDE DEF x
  <2> QED BY <1>3, <1>4 DEF Inv, TypeOK
<1>6. RestOK' /\ UNCHANGED claims
  BY DEF Begin, Inv, TypeOK, RestOK, table, engine, claims
<1>7. /\ reserved' \in Nat /\ held' \in [Requests -> Nat]
      /\ admitting' \in Requests \cup {None}
      /\ ReservedIsHeld' /\ ClaimsGuarded' /\ Routed'
  <2> HIDE DEF x, f0
  <2> QED BY <1>2, <1>4, <1>5, <1>6, MoveKeeps
<1> QED
  BY <1>5, <1>6, <1>7 DEF Inv, TypeOK, RestOK

(* So does every way to start one.                                         *)
LEMMA StartKeeps ==
  ASSUME NEW p \in Requests, Inv, Start(p)
  PROVE  Inv'
<1> USE DEF OpNames, Calls
<1>1. ASSUME NEW f \in Files, Prepare(p, f) PROVE Inv'
  BY <1>1, BeginKeeps DEF Prepare
<1>2. ASSUME NEW f \in Files, Acquire(p, f) PROVE Inv'
  BY <1>2, BeginKeeps DEF Acquire
<1>3. ASSUME NEW f \in Files, ManageRemove(p, f) PROVE Inv'
  BY <1>3, BeginKeeps DEF ManageRemove
<1>4. ASSUME NEW f \in Files, ManageRemoveFile(p, f) PROVE Inv'
  BY <1>4, BeginKeeps DEF ManageRemoveFile
<1>5. ASSUME NEW f \in Files, ManagePause(p, f) PROVE Inv'
  BY <1>5, BeginKeeps DEF ManagePause
<1>6. ASSUME NEW f \in Files, ManageRetry(p, f) PROVE Inv'
  <2>1. PICK call \in {"touchList", "forgetList"} : Begin(p, "retry", call, {f})
    BY <1>6 DEF ManageRetry
  <2> QED BY <2>1, BeginKeeps
<1>7. ASSUME NEW r \in Routes, PrepareSeason(p, r) PROVE Inv'
  <2>1. FilesOf(r) \in SUBSET Files /\ FilesOf(r) # {}
    BY <1>7, FS_EmptySet DEF PrepareSeason, FilesOf
  <2>2. Begin(p, "season", "list", FilesOf(r))
    BY <1>7 DEF PrepareSeason
  <2> QED BY <2>1, <2>2, BeginKeeps
<1>8. CASE RunRetention(p)
  <2> DEFINE x == [Idle EXCEPT !.op = "retention", !.at = "survey"]
  <2>1. x \in Request /\ x.op = "retention" /\ x.at = "survey"
    BY DEF Idle, Request
  <2>2. /\ req' \in [Requests -> Request] /\ req'[p] = x
        /\ \A q \in Requests \ {p} : req'[q] = req[q]
    <3>1. req' = [req EXCEPT ![p] = x]
      BY <1>8 DEF RunRetention
    <3> HIDE DEF x
    <3> QED BY <2>1, <3>1 DEF Inv, TypeOK
  <2>3. RestOK' /\ UNCHANGED claims
    BY <1>8 DEF RunRetention, Inv, TypeOK, RestOK, table, engine, claims
  <2>4. /\ reserved' \in Nat /\ held' \in [Requests -> Nat]
        /\ admitting' \in Requests \cup {None}
        /\ ReservedIsHeld' /\ ClaimsGuarded' /\ Routed'
    <3> HIDE DEF x
    <3> QED BY <2>1, <2>2, <2>3, MoveKeeps
  <2> QED BY <2>2, <2>3, <2>4 DEF Inv, TypeOK, RestOK
<1> QED
  BY <1>1, <1>2, <1>3, <1>4, <1>5, <1>6, <1>7, <1>8 DEF Start

(* A request that drops its lease and returns.                             *)
LEMMA DropKeeps ==
  ASSUME NEW p \in Requests, Inv, Drop(p), UNCHANGED <<rows, engine>>,
         flagged' = {f \in flagged : f \in req[p].want => leases'[f] > 0}
  PROVE  RestOK'
<1>1. leases' \in [Files -> Nat]
  BY DEF Drop, Inv, TypeOK
<1> QED BY <1>1 DEF Inv, TypeOK, RestOK, engine

(* An admission drops its claim when it enters ...                         *)
LEMMA EnterAdmissionKeeps ==
  ASSUME NEW p \in Requests, Inv, EnterAdmission(p)
  PROVE  Inv'
<1>1. held \in [Requests -> Nat] /\ reserved \in Nat /\ held[p] \in Nat
  BY DEF Inv, TypeOK
<1>2. /\ reserved' = reserved - held[p]
      /\ held' \in [Requests -> Nat] /\ held'[p] = 0
      /\ \A q \in Requests \ {p} : held'[q] = held[q]
  BY <1>1 DEF EnterAdmission
<1>3. /\ Total(held', Requests) = Total(held, Requests) - held[p] + held'[p]
      /\ held[p] <= Total(held, Requests)
  BY <1>1, <1>2, NamesAssumption, TotalUpdate
<1>4. reserved' \in Nat /\ ReservedIsHeld'
  <2>1. reserved = Total(held, Requests)
    BY DEF Inv, ReservedIsHeld
  <2>2. reserved' \in Nat /\ reserved' = Total(held', Requests)
    BY <1>1, <1>2, <1>3, <2>1, SMT
  <2> QED BY <2>2 DEF ReservedIsHeld
<1>5. req' \in [Requests -> Request] /\ req[p] \in Request /\ req \in [Requests -> Request]
  BY RequestsTyped, FieldTypes DEF Inv, TypeOK
<1>6. /\ \A q \in Requests \ {p} : req'[q] = req[q]
      /\ req'[p].op = req[p].op /\ req'[p].route = req[p].route
      /\ \/ req'[p].at = "survey" /\ admitting' = p
         \/ req'[p].at \in {"admit", "add"} /\ admitting' = None
  <2>1. CASE req' = Admitted(p) /\ admitting' = None
    BY <1>5, <2>1 DEF Admitted, Request
  <2>2. CASE admitting' = p /\ \E n : req' = [req EXCEPT ![p].at = "survey", ![p].need = n]
    <3>1. PICK n : req' = [req EXCEPT ![p].at = "survey", ![p].need = n]
      BY <2>2
    <3>2. /\ \A q \in Requests \ {p} : req'[q] = req[q]
          /\ req'[p] = [req[p] EXCEPT !.at = "survey", !.need = n]
      BY <1>5, <3>1
    <3>3. /\ req'[p].op = req[p].op /\ req'[p].route = req[p].route
          /\ req'[p].at = "survey"
      BY <1>5, <3>2 DEF Request
    <3> QED BY <2>2, <3>2, <3>3
  <2> QED BY <2>1, <2>2 DEF EnterAdmission
<1>7. admitting = None /\ req[p].at = "admit" /\ None \notin Requests
  BY NamesAssumption DEF EnterAdmission
<1>8. ClaimsGuarded'
  BY <1>2, <1>6, <1>7 DEF ClaimsGuarded, Inv
<1>9. Routed'
  BY <1>6, <1>7 DEF Routed, Inv
<1>10. admitting' \in Requests \cup {None}
  BY <1>6
<1>11. RestOK'
  BY DEF EnterAdmission, Inv, TypeOK, RestOK, table, engine
<1> QED
  BY <1>2, <1>4, <1>5, <1>8, <1>9, <1>10, <1>11 DEF Inv, TypeOK, RestOK

(* ... and claims what it needs when it fits.                              *)
LEMMA AdmitKeeps ==
  ASSUME NEW p \in Requests, Inv, Admit(p)
  PROVE  Inv'
<1>1. /\ held \in [Requests -> Nat] /\ reserved \in Nat /\ req[p].need \in Nat
      /\ req[p] \in Request /\ req \in [Requests -> Request]
  BY FieldTypes DEF Inv, TypeOK
<1>2. admitting = p /\ held[p] = 0 /\ req[p].at = "weigh" /\ req[p].op # "retention"
  BY DEF Admit, Inv, ClaimsGuarded
<1>3. /\ reserved' = reserved + req[p].need
      /\ held' \in [Requests -> Nat] /\ held'[p] = req[p].need
      /\ \A q \in Requests \ {p} : held'[q] = held[q]
  BY <1>1 DEF Admit
<1>4. Total(held', Requests) = Total(held, Requests) - held[p] + held'[p]
  BY <1>1, <1>3, NamesAssumption, TotalUpdate
<1>5. reserved' \in Nat /\ ReservedIsHeld'
  <2>1. reserved = Total(held, Requests)
    BY DEF Inv, ReservedIsHeld
  <2>2. reserved' \in Nat /\ reserved' = Total(held', Requests)
    BY <1>1, <1>2, <1>3, <1>4, <2>1, SMT
  <2> QED BY <2>2 DEF ReservedIsHeld
<1>6. req' \in [Requests -> Request]
  BY RequestsTyped
<1>7. /\ \A q \in Requests \ {p} : req'[q] = req[q]
      /\ req'[p].op = req[p].op /\ req'[p].route = req[p].route
      /\ req'[p].at \in {"admit", "add"} /\ admitting' = None
  BY <1>1 DEF Admit, Admitted, Request
<1>8. ClaimsGuarded'
  BY <1>2, <1>7, NamesAssumption DEF ClaimsGuarded, Inv
<1>9. Routed'
  BY <1>2, <1>7 DEF Routed, Inv
<1>10. RestOK'
  BY DEF Admit, Inv, TypeOK, RestOK, table, engine
<1> QED
  BY <1>3, <1>5, <1>6, <1>7, <1>8, <1>9, <1>10 DEF Inv, TypeOK, RestOK

(* Every step keeps the invariant.                                         *)
LEMMA NextKeeps ==
  ASSUME Inv, [Next]_vars
  PROVE  Inv'
<1>1. ASSUME NEW p \in Requests, Proceed(p) PROVE Inv'
  <2>1. CASE \/ Enter(p) \/ Find(p) \/ List(p) \/ Reuse(p) \/ ReuseSave(p)
             \/ ManagedLocal(p) \/ ManagedStatus(p) \/ managedTorrentIndices(p)
             \/ SelectFiles(p) \/ SaveRow(p) \/ Survey(p) \/ ChooseVictim(p) \/ EngineAdd(p)
             \/ EngineRemove(p) \/ ForgetList(p) \/ ForgetRow(p) \/ DeleteRow(p)
             \/ Remaining(p) \/ TouchList(p) \/ Touch(p) \/ Lease(p) \/ Persist(p)
    <3>1. RestOK'
      BY <2>1, RestKept, Zenon
    <3>2. req' \in [Requests -> Request]
      BY <2>1, RequestsTyped, Zenon
    <3>3. /\ UNCHANGED claims
          /\ \A q \in Requests \ {p} : req'[q] = req[q]
          /\ req'[p].at \in {"survey", "weigh"} /\ req'[p].op # "retention" => admitting = p
          /\ req'[p].at # "idle" /\ req'[p].op # "retention" => req'[p].route \in Routes
          /\ req'[p].op = "retention" =>
               req'[p].at \in {"survey", "weigh", "evict", "forgetList", "forget"}
      BY <2>1, GuardKept, Zenon
    <3>4. /\ reserved' \in Nat /\ held' \in [Requests -> Nat]
          /\ admitting' \in Requests \cup {None}
          /\ ReservedIsHeld' /\ ClaimsGuarded' /\ Routed'
      BY <3>3, MoveKeeps
    <3> QED BY <3>1, <3>2, <3>4 DEF Inv, TypeOK, RestOK
  <2>2. CASE EnterAdmission(p)
    BY <2>2, EnterAdmissionKeeps
  <2>3. CASE Admit(p)
    BY <2>3, AdmitKeeps
  <2>4. CASE Finish(p) \/ EndWeigh(p) \/ RowGone(p) \/ TorrentGone(p)
    <3>1. Return(p) /\ UNCHANGED <<table, engine, leases>>
      BY <2>4 DEF Finish, EndWeigh, RowGone, TorrentGone
    <3> QED BY <3>1, ReturnKeeps DEF Inv, TypeOK, table, engine
  <2>5. CASE PersistFails(p)
    <3>1. RestOK' /\ Return(p)
      BY <2>5, DropKeeps DEF PersistFails
    <3> QED BY <3>1, ReturnKeeps DEF Inv, TypeOK, RestOK
  <2> QED
    BY <1>1, <2>1, <2>2, <2>3, <2>4, <2>5 DEF Proceed
<1>2. ASSUME NEW p \in Requests, Start(p) PROVE Inv'
  BY <1>2, StartKeeps
<1>3. ASSUME NEW p \in Requests, Release(p) PROVE Inv'
  <2>1. RestOK' /\ Return(p)
    BY <1>3, DropKeeps DEF Release
  <2> QED BY <2>1, ReturnKeeps DEF Inv, TypeOK, RestOK
<1>4. ASSUME NEW p \in Requests, Fail(p) PROVE Inv'
  <2>1. Return(p) /\ UNCHANGED <<table, engine, leases>>
    BY <1>4 DEF Fail
  <2> QED BY <2>1, ReturnKeeps DEF Inv, TypeOK, table, engine
<1>5. ASSUME NEW f \in Files, Complete(f) PROVE Inv'
  <2>1. complete' \subseteq Files /\ UNCHANGED <<table, torrents, selected, leases, claims, req>>
    BY <1>5 DEF Complete, Inv, TypeOK
  <2> QED
    BY <2>1 DEF Inv, TypeOK, ReservedIsHeld, ClaimsGuarded, Routed, table, claims
<1>6. CASE Restart
  <2>1. held' = [p \in Requests |-> 0] /\ reserved' = 0
    BY <1>6 DEF Restart
  <2>2. ReservedIsHeld'
    BY <2>1, TotalZero DEF ReservedIsHeld
  <2>3. TypeOK'
    BY <1>6, IdleType DEF Restart, Inv, TypeOK, engine
  <2>4. ClaimsGuarded' /\ Routed'
    BY <1>6, NamesAssumption DEF Restart, ClaimsGuarded, Routed, Idle
  <2> QED BY <2>2, <2>3, <2>4 DEF Inv
<1>7. CASE UNCHANGED vars
  BY <1>7 DEF vars, Inv, TypeOK, ReservedIsHeld, ClaimsGuarded, Routed
<1> QED
  BY <1>1, <1>2, <1>3, <1>4, <1>5, <1>6, <1>7 DEF Next

(* The invariant holds when the process starts.                            *)
LEMMA InitHolds == Init => Inv
<1> SUFFICES ASSUME Init PROVE Inv
  OBVIOUS
<1>1. TypeOK
  BY IdleType DEF Init, TypeOK
<1>2. ReservedIsHeld
  BY TotalZero DEF Init, ReservedIsHeld
<1>3. ClaimsGuarded /\ Routed
  BY NamesAssumption DEF Init, ClaimsGuarded, Routed, Idle
<1> QED BY <1>1, <1>2, <1>3 DEF Inv

(* No path through Prepare, PrepareSeason, Manage(retry) or an eviction    *)
(* leaks or loses room of the Allocation: s.reservedBytes is at all times  *)
(* the sum of the claims that requests hold, whatever fails in between and *)
(* however many requests run.  Read with the type of reserved, the counter *)
(* never goes negative.                                                    *)
THEOREM ReservationTheorem == Spec => []DownloadsSafe
<1>1. Init => Inv
  BY InitHolds
<1>2. Inv /\ [Next]_vars => Inv'
  BY NextKeeps
<1>3. Inv => DownloadsSafe
  BY DEF Inv, DownloadsSafe
<1> QED
  BY <1>1, <1>2, <1>3, PTL DEF Spec

(* Only the request that holds admissionMu, or a retention pass, decides   *)
(* about room, so two admissions never weigh the same free bytes.          *)
THEOREM AdmissionTheorem == Spec => []ClaimsGuarded
<1>1. Init => Inv
  BY InitHolds
<1>2. Inv /\ [Next]_vars => Inv'
  BY NextKeeps
<1>3. Inv => ClaimsGuarded
  BY DEF Inv
<1> QED
  BY <1>1, <1>2, <1>3, PTL DEF Spec

--------------------------------------------------------------------------------

(* Where a call that does not return leads, what it makes of the files the *)
(* request has seen and of its victim, and which calls lead to a decision  *)
(* or to a removal.                                                        *)
Hop(p, from, to) == req[p].at = from /\ req'[p].at \in to

Leads(p) ==
  \/ Hop(p, "enter", {"find"}) \/ Hop(p, "find", {"managed", "list"})
  \/ Hop(p, "list", {"admit", "indices", "reuse"})
  \/ Hop(p, "reuse", {"reuseSave"}) \/ Hop(p, "reuseSave", {"managed"})
  \/ Hop(p, "managed", {"lease", "finish", "indices"})
  \/ Hop(p, "indices", {"select"})
  \/ Hop(p, "select", {"save"}) /\ req'[p].seen = req[p].want
  \/ /\ Hop(p, "save", {"save", "lease", "finish"}) /\ req'[p].seen \subseteq req[p].seen
     /\ \E f \in req[p].seen : f \in rows'
  \/ Hop(p, "admit", {"survey", "admit", "add"})
  \/ Hop(p, "survey", {"weigh"}) /\ Survey(p) /\ req'[p].seen = rows
  \/ Hop(p, "weigh", {"admit", "add"}) /\ req[p].op # "retention" /\ admitting' = None
  \/ Hop(p, "add", {"indices"})
  \/ Hop(p, "evict", {"forgetList"}) /\ Doomed(p) \notin torrents'
  \/ Hop(p, "forget", {"forget", AfterForget(p)})
  \/ Hop(p, "deleteRow", {"remaining"})
  \/ Hop(p, "remaining", {"finish"}) /\ rows' \cap FilesOf(req[p].route) # {}
  \/ Hop(p, "remaining", {"evict"}) /\ Remaining(p)
  \/ Hop(p, "touchList", {"touch", "finish"}) \/ Hop(p, "touch", {"touch", "finish"})
  \/ Hop(p, "lease", {"persist"}) \/ Hop(p, "persist", {"playing"})

Moves(p) ==
  /\ \A q \in Requests \ {p} : req'[q] = req[q]
  /\ req'[p].op = req[p].op /\ req'[p].want = req[p].want /\ req'[p].route = req[p].route
  /\ \/ Leads(p) /\ req'[p].victim = req[p].victim
     \/ /\ Hop(p, "weigh", {"evict"}) /\ ChooseVictim(p)
        /\ req'[p].victim \in Evictable(p, {})
     \/ /\ Hop(p, "forgetList", {"forget", AfterForget(p)})
        /\ req'[p].victim = None

(* The calls of a request that do not return.                              *)
Calling(p) ==
  \/ Enter(p) \/ Find(p) \/ List(p) \/ Reuse(p) \/ ReuseSave(p)
  \/ ManagedLocal(p) \/ ManagedStatus(p) \/ managedTorrentIndices(p)
  \/ SelectFiles(p) \/ SaveRow(p) \/ EnterAdmission(p) \/ Survey(p) \/ Admit(p)
  \/ ChooseVictim(p) \/ EngineAdd(p) \/ EngineRemove(p) \/ ForgetList(p)
  \/ ForgetRow(p) \/ DeleteRow(p) \/ Remaining(p) \/ TouchList(p) \/ Touch(p)
  \/ Lease(p) \/ Persist(p)

(* Every call leads where the table says.                                  *)
LEMMA CallsMove ==
  ASSUME NEW p \in Requests, Inv, Calling(p)
  PROVE  Moves(p)
<1>0. req \in [Requests -> Request] /\ req[p] \in Request
  BY FieldTypes DEF Inv, TypeOK
<1>1. ASSUME NEW x \in Request, req' = [req EXCEPT ![p] = x]
      PROVE  req'[p] = x /\ \A q \in Requests \ {p} : req'[q] = req[q]
  BY <1>0, <1>1
<1> DEFINE Same == /\ \A q \in Requests \ {p} : req'[q] = req[q]
                   /\ req'[p].op = req[p].op /\ req'[p].want = req[p].want
                   /\ req'[p].route = req[p].route /\ req'[p].victim = req[p].victim
<1>2. ASSUME NEW a, Goto(p, a) PROVE Same /\ req'[p].at = a
  BY <1>0, <1>2 DEF Goto, Request
<1>3. CASE Enter(p)
  BY <1>0, <1>3 DEF Moves, Leads, Hop, Request, Enter
<1>4. CASE Find(p)
  <2>1. Same /\ Hop(p, "find", {"managed", "list"})
    BY <1>0, <1>4 DEF Hop, Request, Find
  <2> QED BY <2>1, Zenon DEF Moves, Leads
<1>5. CASE List(p)
  <2>1. Same /\ Hop(p, "list", {"admit", "indices", "reuse"})
    <3>1. PICK a \in {"admit", "indices", "reuse"} : Goto(p, a) /\ req[p].at = "list"
      BY <1>5 DEF List
    <3> QED BY <3>1, <1>2 DEF Hop
  <2> QED BY <2>1, Zenon DEF Moves, Leads
<1>6. CASE Reuse(p)
  <2>1. Same /\ Hop(p, "reuse", {"reuseSave"})
    BY <1>6, <1>2 DEF Hop, Reuse
  <2> QED BY <2>1, Zenon DEF Moves, Leads
<1>7. CASE ReuseSave(p)
  <2>1. Same /\ Hop(p, "reuseSave", {"managed"})
    BY <1>0, <1>7 DEF Hop, Request, ReuseSave
  <2> QED BY <2>1, Zenon DEF Moves, Leads
<1>8. CASE ManagedLocal(p)
  <2>1. Same /\ Hop(p, "managed", {"lease", "finish", "indices"})
    BY <1>0, <1>8 DEF Hop, Request, ManagedLocal, AfterSave
  <2> QED BY <2>1, Zenon DEF Moves, Leads
<1>9. CASE ManagedStatus(p)
  <2>1. Same /\ Hop(p, "managed", {"lease", "finish", "indices"})
    BY <1>0, <1>9 DEF Hop, Request, ManagedStatus
  <2> QED BY <2>1, Zenon DEF Moves, Leads
<1>10. CASE managedTorrentIndices(p)
  <2>1. PICK S : req' = [req EXCEPT ![p].at = "select", ![p].seen = S]
    BY <1>10 DEF managedTorrentIndices
  <2>2. Same /\ req'[p].at = "select"
    BY <1>0, <2>1 DEF Request
  <2>3. Hop(p, "indices", {"select"})
    BY <1>10, <2>2 DEF Hop, managedTorrentIndices
  <2> QED BY <2>2, <2>3, Zenon DEF Moves, Leads
<1>11. CASE SelectFiles(p)
  <2>1. Same /\ Hop(p, "select", {"save"}) /\ req'[p].seen = req[p].want
    BY <1>0, <1>11 DEF Hop, Request, SelectFiles
  <2> QED BY <2>1, Zenon DEF Moves, Leads
<1>12. CASE SaveRow(p)
  <2>1. PICK f \in req[p].seen :
          /\ f \in rows'
          /\ req' = [req EXCEPT ![p].seen = @ \ {f}, ![p].flags = @ \ {f},
                             ![p].at = IF req[p].seen = {f} THEN AfterSave(p) ELSE @,
                             ![p].hashed = IF req[p].seen = {f} THEN FALSE ELSE @]
    BY <1>12 DEF SaveRow, SaveDownload
  <2>2. /\ Same /\ req'[p].seen = req[p].seen \ {f}
        /\ req'[p].at = IF req[p].seen = {f} THEN AfterSave(p) ELSE req[p].at
    BY <1>0, <2>1 DEF Request
  <2>3. Hop(p, "save", {"save", "lease", "finish"}) /\ req'[p].seen \subseteq req[p].seen
    BY <1>12, <2>2 DEF Hop, SaveRow, AfterSave
  <2> QED BY <2>1, <2>2, <2>3, Zenon DEF Moves, Leads
<1>13. CASE EnterAdmission(p)
  <2>1. CASE req' = Admitted(p)
    <3>1. Same /\ Hop(p, "admit", {"survey", "admit", "add"})
      BY <1>0, <1>13, <2>1 DEF Hop, Request, EnterAdmission, Admitted
    <3> QED BY <3>1, Zenon DEF Moves, Leads
  <2>2. CASE req' # Admitted(p)
    <3>1. PICK n : req' = [req EXCEPT ![p].at = "survey", ![p].need = n]
      BY <1>13, <2>2 DEF EnterAdmission
    <3>2. Same /\ req'[p].at = "survey"
      BY <1>0, <3>1 DEF Request
    <3>3. Hop(p, "admit", {"survey", "admit", "add"})
      BY <1>13, <3>2 DEF Hop, EnterAdmission
    <3> QED BY <3>2, <3>3, Zenon DEF Moves, Leads
  <2> QED BY <2>1, <2>2
<1>14. CASE Survey(p)
  <2>1. Same /\ Hop(p, "survey", {"weigh"}) /\ req'[p].seen = rows
    BY <1>0, <1>14 DEF Hop, Request, Survey
  <2> QED BY <1>14, <2>1, Zenon DEF Moves, Leads
<1>15. CASE Admit(p)
  <2>1. /\ Same /\ Hop(p, "weigh", {"admit", "add"})
        /\ req[p].op # "retention" /\ admitting' = None
    BY <1>0, <1>15 DEF Hop, Request, Admit, Admitted
  <2> QED BY <2>1, Zenon DEF Moves, Leads
<1>16. CASE ChooseVictim(p)
  <2>1. PICK r \in Evictable(p, {}) :
          req' = [req EXCEPT ![p].at = "evict", ![p].victim = r,
                             ![p].seen = {}, ![p].flags = {}]
    BY <1>16 DEF ChooseVictim
  <2>2. /\ \A q \in Requests \ {p} : req'[q] = req[q]
        /\ req'[p].op = req[p].op /\ req'[p].want = req[p].want
        /\ req'[p].route = req[p].route
        /\ req'[p].at = "evict" /\ req'[p].victim = r
    BY <1>0, <2>1 DEF Request
  <2>3. Hop(p, "weigh", {"evict"})
    BY <1>16, <2>2 DEF Hop, ChooseVictim
  <2> QED BY <1>16, <2>2, <2>3, Zenon DEF Moves
<1>17. CASE EngineAdd(p)
  <2>1. Same /\ Hop(p, "add", {"indices"})
    BY <1>17, <1>2 DEF Hop, EngineAdd
  <2> QED BY <2>1, Zenon DEF Moves, Leads
<1>18. CASE EngineRemove(p)
  <2>1. Same /\ Hop(p, "evict", {"forgetList"}) /\ Doomed(p) \notin torrents'
    BY <1>18, <1>2 DEF Hop, EngineRemove, Remove
  <2> QED BY <2>1, Zenon DEF Moves, Leads
<1>19. CASE ForgetList(p)
  <2>1. /\ \A q \in Requests \ {p} : req'[q] = req[q]
        /\ req'[p].op = req[p].op /\ req'[p].want = req[p].want
        /\ req'[p].route = req[p].route /\ req'[p].victim = None
        /\ Hop(p, "forgetList", {"forget", AfterForget(p)})
    BY <1>0, <1>19 DEF Hop, Request, ForgetList
  <2> QED BY <2>1, Zenon DEF Moves
<1>20. CASE ForgetRow(p)
  <2>1. PICK f :
          req' = [req EXCEPT ![p].seen = @ \ {f},
                             ![p].at = IF req[p].seen = {f} THEN AfterForget(p) ELSE @]
    BY <1>20 DEF ForgetRow
  <2>2. Same /\ req'[p].at = IF req[p].seen = {f} THEN AfterForget(p) ELSE req[p].at
    BY <1>0, <2>1 DEF Request
  <2>3. Hop(p, "forget", {"forget", AfterForget(p)})
    BY <1>20, <2>2 DEF Hop, ForgetRow
  <2> QED BY <2>2, <2>3, Zenon DEF Moves, Leads
<1>21. CASE DeleteRow(p)
  <2>1. Same /\ Hop(p, "deleteRow", {"remaining"})
    BY <1>21, <1>2 DEF Hop, DeleteRow
  <2> QED BY <2>1, Zenon DEF Moves, Leads
<1>22. CASE Remaining(p)
  <2>1. /\ Same
        /\ \/ Hop(p, "remaining", {"finish"}) /\ rows' \cap FilesOf(req[p].route) # {}
           \/ Hop(p, "remaining", {"evict"})
    BY <1>22, <1>2 DEF Hop, Remaining, table
  <2> QED BY <1>22, <2>1, Zenon DEF Moves, Leads
<1>23. CASE TouchList(p)
  <2>1. Same /\ Hop(p, "touchList", {"touch", "finish"})
    BY <1>0, <1>23 DEF Hop, Request, TouchList
  <2> QED BY <2>1, Zenon DEF Moves, Leads
<1>24. CASE Touch(p)
  <2>1. PICK f :
          req' = [req EXCEPT ![p].seen = @ \ {f}, ![p].flags = @ \ {f},
                             ![p].at = IF req[p].seen = {f} THEN "finish" ELSE @]
    BY <1>24 DEF Touch
  <2>2. Same /\ req'[p].at = IF req[p].seen = {f} THEN "finish" ELSE req[p].at
    BY <1>0, <2>1 DEF Request
  <2>3. Hop(p, "touch", {"touch", "finish"})
    BY <1>24, <2>2 DEF Hop, Touch
  <2> QED BY <2>2, <2>3, Zenon DEF Moves, Leads
<1>25. CASE Lease(p)
  <2>1. Same /\ Hop(p, "lease", {"persist"})
    BY <1>25, <1>2 DEF Hop, Lease
  <2> QED BY <2>1, Zenon DEF Moves, Leads
<1>26. CASE Persist(p)
  <2>1. Same /\ Hop(p, "persist", {"playing"})
    BY <1>26, <1>2 DEF Hop, Persist
  <2> QED BY <2>1, Zenon DEF Moves, Leads
<1> QED
  BY <1>3, <1>4, <1>5, <1>6, <1>7, <1>8, <1>9, <1>10, <1>11, <1>12, <1>13, <1>14, <1>15, <1>16,
     <1>17, <1>18, <1>19, <1>20, <1>21, <1>22, <1>23, <1>24, <1>25, <1>26, Zenon DEF Calling

(* Where a request starts.                                                 *)
Starts(p) ==
  /\ req[p].at = "idle"
  /\ \A q \in Requests \ {p} : req'[q] = req[q]
  /\ req'[p].victim = None
  /\ req'[p].op # "retention" => req'[p].want \subseteq FilesOf(req'[p].route)
  /\ \/ req'[p].at \in {"find", "list"} /\ req'[p].op \in Preparing
     \/ req'[p].at = "survey" /\ req'[p].op = "retention"
     \/ req'[p].at \in {"managed", "deleteRow", "touchList", "forgetList"}
     \/ req'[p].at = "evict" /\ req'[p].op = "remove"
        /\ \E f \in Files : ManageRemove(p, f) /\ req'[p].route = RouteOf[f]

(* What Begin makes of an idle request.                                    *)
LEMMA BeginShape ==
  ASSUME NEW p \in Requests, Inv, NEW op \in OpNames, NEW call \in Calls,
         NEW want \in SUBSET Files, NEW r \in Routes, want # {},
         \A f \in want : RouteOf[f] = r, Begin(p, op, call, want)
  PROVE  /\ req[p].at = "idle" /\ \A q \in Requests \ {p} : req'[q] = req[q]
         /\ req'[p].victim = None /\ req'[p].op = op /\ req'[p].at = call
         /\ req'[p].want = want /\ req'[p].route = r
         /\ want \subseteq FilesOf(r)
         /\ UNCHANGED <<rows, torrents, leases, admitting>>
<1> DEFINE f0 == CHOOSE f \in want : TRUE
           F == IF op = "stream" THEN flagged \cap want ELSE {}
           x == [Idle EXCEPT !.op = op, !.at = call, !.want = want, !.route = RouteOf[f0],
                             !.flags = F, !.keyed = op \in {"prepare", "season"}]
<1>1. f0 \in want /\ RouteOf[f0] = r
  OBVIOUS
<1>2. req' = [req EXCEPT ![p] = x] /\ req[p].at = "idle"
      /\ UNCHANGED <<rows, torrents, leases, admitting>>
  BY DEF Begin, table, engine, claims
<1>3. x.victim = None /\ x.op = op /\ x.at = call /\ x.want = want /\ x.route = RouteOf[f0]
  <2> HIDE DEF f0, F
  <2> QED BY DEF Idle
<1>4. req'[p] = x /\ \A q \in Requests \ {p} : req'[q] = req[q]
  <2> HIDE DEF x
  <2> QED BY <1>2 DEF Inv, TypeOK
<1>5. want \subseteq FilesOf(r)
  BY DEF FilesOf
<1> HIDE DEF x, f0
<1> QED BY <1>1, <1>2, <1>3, <1>4, <1>5

(* Every way to start is one of these, and starting changes requests only. *)
LEMMA StartsShape ==
  ASSUME NEW p \in Requests, Inv, Start(p)
  PROVE  Starts(p) /\ UNCHANGED <<rows, torrents, leases, admitting>>
<1> DEFINE Goal == Starts(p) /\ UNCHANGED <<rows, torrents, leases, admitting>>
<1>0. ASSUME NEW op \in OpNames \ {"retention"}, NEW call \in Calls, NEW f \in Files,
             Begin(p, op, call, {f})
      PROVE  /\ req[p].at = "idle" /\ \A q \in Requests \ {p} : req'[q] = req[q]
             /\ req'[p].victim = None /\ req'[p].op = op /\ req'[p].at = call
             /\ req'[p].want \subseteq FilesOf(req'[p].route)
             /\ req'[p].route = RouteOf[f]
             /\ UNCHANGED <<rows, torrents, leases, admitting>>
  BY <1>0, BeginShape, NamesAssumption
<1> USE DEF OpNames, Calls, Preparing
<1>1. ASSUME NEW f \in Files, Prepare(p, f) PROVE Goal
  BY <1>0, <1>1 DEF Prepare, Starts
<1>2. ASSUME NEW f \in Files, Acquire(p, f) PROVE Goal
  BY <1>0, <1>2 DEF Acquire, Starts
<1>3. ASSUME NEW f \in Files, ManageRemove(p, f) PROVE Goal
  <2>1. Begin(p, "remove", "evict", {f})
    BY <1>3 DEF ManageRemove
  <2> QED BY <1>0, <1>3, <2>1 DEF Starts
<1>4. ASSUME NEW f \in Files, ManageRemoveFile(p, f) PROVE Goal
  BY <1>0, <1>4 DEF ManageRemoveFile, Starts
<1>5. ASSUME NEW f \in Files, ManagePause(p, f) PROVE Goal
  BY <1>0, <1>5 DEF ManagePause, Starts
<1>6. ASSUME NEW f \in Files, ManageRetry(p, f) PROVE Goal
  <2>1. PICK call \in {"touchList", "forgetList"} : Begin(p, "retry", call, {f})
    BY <1>6 DEF ManageRetry
  <2> QED BY <1>0, <2>1 DEF Starts
<1>7. ASSUME NEW r \in Routes, PrepareSeason(p, r) PROVE Goal
  <2>1. /\ FilesOf(r) \in SUBSET Files /\ FilesOf(r) # {}
        /\ \A f \in FilesOf(r) : RouteOf[f] = r
    BY <1>7, FS_EmptySet DEF PrepareSeason, FilesOf
  <2>2. Begin(p, "season", "list", FilesOf(r))
    BY <1>7 DEF PrepareSeason
  <2> QED BY <2>1, <2>2, BeginShape DEF Starts
<1>8. CASE RunRetention(p)
  <2>1. req' = [req EXCEPT ![p] = [Idle EXCEPT !.op = "retention", !.at = "survey"]]
        /\ req[p].at = "idle" /\ UNCHANGED <<rows, torrents, leases, admitting>>
    BY <1>8 DEF RunRetention, table, engine, claims
  <2> QED BY <2>1 DEF Starts, Idle, Inv, TypeOK
<1> QED
  BY <1>1, <1>2, <1>3, <1>4, <1>5, <1>6, <1>7, <1>8 DEF Start

(* Every other step of a request returns.                                  *)
LEMMA ReturnsShape ==
  ASSUME NEW p \in Requests, Inv,
         \/ Proceed(p) /\ ~Calling(p)
         \/ Release(p)
         \/ Fail(p)
  PROVE  /\ req'[p] = Idle /\ \A q \in Requests \ {p} : req'[q] = req[q]
         /\ admitting' = IF admitting = p THEN None ELSE admitting
         /\ UNCHANGED <<rows, torrents>>
<1>1. Return(p) /\ UNCHANGED <<rows, torrents>>
  BY DEF Proceed, Calling, Release, Fail, Finish, EndWeigh, RowGone, TorrentGone,
         PersistFails, table, engine
<1> QED BY <1>1 DEF Return, Inv, TypeOK

(* So a step moves one request, restarts the process or leaves the         *)
(* requests and the table alone.                                           *)
LEMMA StepShape ==
  ASSUME Inv, [Next]_vars
  PROVE  \/ \E p \in Requests : \/ Calling(p) \/ Start(p)
                                \/ Proceed(p) /\ ~Calling(p)
                                \/ Release(p) \/ Fail(p)
         \/ Restart
         \/ UNCHANGED <<rows, torrents, admitting, req>>
<1>1. ASSUME NEW f \in Files, Complete(f) PROVE UNCHANGED <<rows, torrents, admitting, req>>
  BY <1>1 DEF Complete, table, claims
<1>2. CASE UNCHANGED vars
  BY <1>2 DEF vars
<1> QED BY <1>1, <1>2, Zenon DEF Next

--------------------------------------------------------------------------------

(* Where a request is tells what it was asked for: only a request that     *)
(* prepares a file walks the path to an admission, who holds admissionMu   *)
(* is somewhere between its survey and its last eviction, and only an      *)
(* eviction has a victim.                                                  *)
OnPath(p) ==
  /\ req[p].at \in {"enter", "find", "list", "reuse", "reuseSave", "admit", "add"}
       => req[p].op \in Preparing
  /\ req[p].at \in {"survey", "weigh"} => req[p].op \in Preparing \cup {"retention"}
  /\ admitting = p => /\ req[p].op \in Preparing
                      /\ req[p].at \in {"survey", "weigh", "evict", "forgetList", "forget"}
  /\ req[p].at # "idle" /\ req[p].op # "retention"
       => req[p].want \subseteq FilesOf(req[p].route)
  /\ req[p].at = "save" => req[p].seen \subseteq req[p].want
  /\ req[p].victim # None => req[p].at \in {"evict", "forgetList"}

PathInv == \A p \in Requests : OnPath(p)

(* Who holds admissionMu after a call.                                     *)
LEMMA AdmittingMoves ==
  ASSUME NEW p \in Requests, Inv, Calling(p)
  PROVE  \/ admitting' = admitting
         \/ admitting' = None
         \/ admitting' = p /\ req[p].at = "admit" /\ req'[p].at = "survey"
<1>1. CASE EnterAdmission(p)
  <2>1. req \in [Requests -> Request] /\ req[p] \in Request
    BY FieldTypes DEF Inv, TypeOK
  <2>2. CASE Cap = 0
    BY <1>1, <2>2 DEF EnterAdmission
  <2>3. CASE Cap # 0
    <3>1. PICK n : req' = [req EXCEPT ![p].at = "survey", ![p].need = n]
      BY <1>1, <2>3 DEF EnterAdmission
    <3> QED BY <1>1, <2>1, <2>3, <3>1 DEF EnterAdmission, Request
  <2> QED BY <2>2, <2>3
<1>2. CASE Admit(p)
  BY <1>2 DEF Admit
<1>3. CASE ~EnterAdmission(p) /\ ~Admit(p)
  <2>1. UNCHANGED claims
    BY <1>3, GuardKept, Zenon DEF Calling
  <2> QED BY <2>1 DEF claims
<1> QED BY <1>1, <1>2, <1>3

(* Every step keeps requests on their paths.                               *)
LEMMA PathKept ==
  ASSUME Inv, PathInv, [Next]_vars
  PROVE  PathInv'
<1> SUFFICES ASSUME NEW q \in Requests PROVE OnPath(q)'
  BY DEF PathInv
<1>0. OnPath(q) /\ None \notin Requests
  BY NamesAssumption DEF PathInv
<1>1. ASSUME req'[q] = req[q], admitting' = q => admitting = q
      PROVE  OnPath(q)'
  BY <1>0, <1>1 DEF OnPath, FilesOf
<1>2. ASSUME req'[q] = Idle, admitting' # q
      PROVE  OnPath(q)'
  BY <1>2 DEF OnPath, Idle
<1>3. ASSUME NEW p \in Requests, Calling(p) PROVE OnPath(q)'
  <2>1. Moves(p)
    BY <1>3, CallsMove
  <2>2. /\ admitting' = q => admitting = q \/ q = p
        /\ admitting' = q /\ admitting # q => req'[q].at = "survey" /\ req[q].at = "admit"
    BY <1>0, <1>3, AdmittingMoves
  <2>3. CASE q # p
    BY <1>1, <2>1, <2>2, <2>3 DEF Moves
  <2>4. CASE q = p
    <3>0. /\ req'[q].op = req[q].op /\ req'[q].want = req[q].want
          /\ req'[q].route = req[q].route
      BY <2>1, <2>4 DEF Moves
    <3>1. CASE Leads(q) /\ req'[q].victim = req[q].victim
      <4>1. ClaimsGuarded /\ ClaimsGuarded' /\ Routed /\ Routed'
        BY <1>3, NextKeeps DEF Inv
      <4> QED BY <1>0, <2>2, <3>0, <3>1 DEF OnPath, Leads, Hop, AfterForget, Preparing, FilesOf
    <3>2. CASE Hop(q, "weigh", {"evict"})
      BY <1>0, <2>2, <3>0, <3>2 DEF OnPath, Hop, FilesOf
    <3>3. CASE Hop(q, "forgetList", {"forget", AfterForget(q)}) /\ req'[q].victim = None
      BY <1>0, <2>2, <3>0, <3>3 DEF OnPath, Hop, AfterForget, Preparing, FilesOf
    <3> QED BY <2>1, <2>4, <3>1, <3>2, <3>3 DEF Moves
  <2> QED BY <2>3, <2>4
<1>4. ASSUME NEW p \in Requests, Start(p) PROVE OnPath(q)'
  <2>1. Starts(p) /\ admitting' = admitting
    BY <1>4, StartsShape
  <2>2. CASE q # p
    BY <1>1, <2>1, <2>2 DEF Starts
  <2>3. CASE q = p
    BY <1>0, <2>1, <2>3 DEF OnPath, Starts, Preparing, FilesOf
  <2> QED BY <2>2, <2>3
<1>5. ASSUME NEW p \in Requests,
             (Proceed(p) /\ ~Calling(p)) \/ Release(p) \/ Fail(p)
      PROVE  OnPath(q)'
  BY <1>0, <1>1, <1>2, <1>5, ReturnsShape
<1>6. CASE Restart
  BY <1>0, <1>2, <1>6 DEF Restart
<1>7. CASE UNCHANGED <<rows, torrents, admitting, req>>
  BY <1>1, <1>7
<1> QED
  BY <1>3, <1>4, <1>5, <1>6, <1>7, StepShape, Zenon

(* Nothing is under way when the process starts.                           *)
LEMMA PathHolds == Init => PathInv
BY NamesAssumption DEF Init, PathInv, OnPath, Idle

--------------------------------------------------------------------------------

(* A request knows, when it is about to delete a torrent, that no file it  *)
(* saw streamed is part of it: the shield holds files that are streamed    *)
(* still, and while an admission or a retention pass decides every one of  *)
(* them is a row of its survey, so that the lease protects its torrent.    *)
Shielded(p) ==
  /\ shield[p] \subseteq Streamed
  /\ req[p].at = "weigh" => shield[p] \subseteq req[p].seen
  /\ req[p].at = "evict" => shield[p] \cap FilesOf(Doomed(p)) = {}

ShieldInv == \A p \in Requests : Shielded(p)

(* A shield only ever loses files, except when its request checks.         *)
LEMMA ShieldShrinks ==
  ASSUME NEW p \in Requests, ShieldStep
  PROVE  /\ shield'[p] \subseteq Streamed'
         /\ req'[p].at = "idle" => shield'[p] = {}
         /\ Checks(p) => shield'[p] \subseteq Streamed
         /\ ~Checks(p) => shield'[p] \subseteq shield[p]
BY DEF ShieldStep

(* An eviction chooses a torrent of which no shielded file is part.        *)
LEMMA ChosenIsUnshielded ==
  ASSUME NEW p \in Requests, Inv, NEW r \in Evictable(p, {}),
         shield[p] \subseteq Streamed, shield[p] \subseteq req[p].seen
  PROVE  shield[p] \cap FilesOf(r) = {}
<1> SUFFICES ASSUME NEW f \in shield[p] \cap FilesOf(r) PROVE FALSE
  OBVIOUS
<1>1. f \in req[p].seen \cap FilesOf(r) /\ rowLeased(f, req[p].flags)
  BY DEF Streamed, rowLeased
<1>2. retentionProtected(p, r, {})
  BY <1>1 DEF retentionProtected
<1> QED BY <1>2 DEF Evictable

(* Every step keeps the shields off what is about to be deleted.           *)
LEMMA ShieldKept ==
  ASSUME Inv, PathInv, ShieldInv, HNext
  PROVE  ShieldInv'
<1> SUFFICES ASSUME NEW q \in Requests PROVE Shielded(q)'
  BY DEF ShieldInv
<1>0. /\ Next /\ [Next]_vars /\ ShieldStep /\ Shielded(q) /\ OnPath(q)
      /\ None \notin Routes
  BY NamesAssumption DEF HNext, PathInv, ShieldInv
<1>a. /\ shield'[q] \subseteq Streamed'
      /\ req'[q].at = "idle" => shield'[q] = {}
      /\ Checks(q) => shield'[q] \subseteq Streamed
      /\ ~Checks(q) => shield'[q] \subseteq shield[q]
  BY <1>0, ShieldShrinks
<1>1. ASSUME req'[q] = req[q] PROVE Shielded(q)'
  BY <1>0, <1>1, <1>a DEF Shielded, Checks, Doomed, FilesOf
<1>2. ASSUME req'[q].at \notin {"weigh", "evict"} PROVE Shielded(q)'
  BY <1>a, <1>2 DEF Shielded
<1>3. ASSUME NEW p \in Requests, Calling(p) PROVE Shielded(q)'
  <2>1. Moves(p)
    BY <1>3, CallsMove
  <2>2. CASE q # p
    BY <1>1, <2>1, <2>2 DEF Moves
  <2>3. CASE q = p /\ Survey(q) /\ Hop(q, "survey", {"weigh"}) /\ req'[q].seen = rows
    BY <1>a, <2>3 DEF Shielded, Checks, Hop, Streamed
  <2>4. CASE q = p /\ Hop(q, "weigh", {"evict"}) /\ req'[q].victim \in Evictable(q, {})
    <3>1. shield'[q] \subseteq shield[q] /\ shield[q] \subseteq req[q].seen
          /\ shield[q] \subseteq Streamed
      BY <1>0, <1>a, <2>4 DEF Checks, Hop, Shielded
    <3>2. shield[q] \cap FilesOf(req'[q].victim) = {}
      BY <1>3, <2>4, <3>1, ChosenIsUnshielded
    <3>3. req'[q].victim \in Routes
      BY <2>4, <1>3, FieldTypes, NamesAssumption DEF Evictable, RoutesOf, Surveyed
    <3> QED BY <1>0, <1>a, <2>4, <3>1, <3>2, <3>3 DEF Shielded, Doomed, Hop, FilesOf
  <2>5. CASE q = p /\ Remaining(q) /\ Hop(q, "remaining", {"evict"}) /\ req'[q].victim = req[q].victim
    <3>1. rows \cap FilesOf(req[q].route) = {} /\ rows' = rows
      <4>1. Goto(q, IF rows \cap FilesOf(req[q].route) = {} THEN "evict" ELSE "finish")
            /\ UNCHANGED table
        BY <2>5 DEF Remaining
      <4>2. req'[q].at = IF rows \cap FilesOf(req[q].route) = {} THEN "evict" ELSE "finish"
        BY <4>1, FieldTypes, <1>3 DEF Goto, Request, Inv, TypeOK
      <4> QED BY <2>5, <4>1, <4>2 DEF Hop, table
    <3>2. req[q].victim = None /\ req'[q].route = req[q].route
      BY <1>0, <2>1, <2>5 DEF OnPath, Hop, Moves
    <3> QED BY <1>a, <2>5, <3>1, <3>2 DEF Shielded, Doomed, FilesOf, Hop, Streamed
  <2>6. CASE q = p /\ req'[q].at \in {"weigh", "evict"}
             /\ ~(Survey(q) /\ Hop(q, "survey", {"weigh"}) /\ req'[q].seen = rows)
             /\ ~(Hop(q, "weigh", {"evict"}) /\ req'[q].victim \in Evictable(q, {}))
             /\ ~(Remaining(q) /\ Hop(q, "remaining", {"evict"}) /\ req'[q].victim = req[q].victim)
    BY <2>1, <2>6 DEF Moves, Leads, Hop, AfterForget
  <2> QED BY <1>2, <2>2, <2>3, <2>4, <2>5, <2>6
<1>4. ASSUME NEW p \in Requests, Start(p) PROVE Shielded(q)'
  <2>1. Starts(p) /\ UNCHANGED <<rows, leases>>
    BY <1>4, StartsShape
  <2>2. CASE q # p
    BY <1>1, <2>1, <2>2 DEF Starts
  <2>3. CASE q = p /\ req'[q].at # "evict"
    BY <1>2, <2>1, <2>3 DEF Starts
  <2>4. CASE q = p /\ req'[q].at = "evict"
    <3>1. PICK f \in Files : ManageRemove(q, f) /\ req'[q].route = RouteOf[f]
      BY <2>1, <2>4 DEF Starts
    <3>2. \A g \in rows \cap FilesOf(RouteOf[f]) : ~(leases[g] > 0)
      BY <3>1 DEF ManageRemove, rowLeased
    <3>3. req'[q].victim = None /\ Checks(q)
      BY <2>1, <2>4 DEF Starts, Checks
    <3> QED BY <1>a, <2>4, <3>1, <3>2, <3>3 DEF Shielded, Doomed, FilesOf, Streamed
  <2> QED BY <2>2, <2>3, <2>4
<1>5. ASSUME NEW p \in Requests,
             (Proceed(p) /\ ~Calling(p)) \/ Release(p) \/ Fail(p)
      PROVE  Shielded(q)'
  <2>1. req'[p] = Idle /\ \A x \in Requests \ {p} : req'[x] = req[x]
    BY <1>5, ReturnsShape
  <2> QED BY <1>1, <1>2, <2>1 DEF Idle
<1>6. CASE Restart
  BY <1>2, <1>6 DEF Restart, Idle
<1>7. CASE UNCHANGED <<rows, torrents, admitting, req>>
  BY <1>1, <1>7
<1> QED
  BY <1>0, <1>3, <1>4, <1>5, <1>6, <1>7, StepShape, Zenon

(* A torrent is never deleted under a stream that held its lease when the  *)
(* removal checked, whichever way the removal came about (Manage(remove),  *)
(* Manage(remove-file), an eviction) and however many streams and removals *)
(* interleave: ensureAllocationRoom and RunRetention look at the survey    *)
(* and the live count, Manage at the rows.                                 *)
THEOREM StreamsTheorem == HSpec => []StreamsKeepTheirTorrent
<1> DEFINE I == Inv /\ PathInv /\ ShieldInv
<1>1. HInit => I
  <2>1. HInit => Inv /\ PathInv
    BY InitHolds, PathHolds DEF HInit
  <2>2. HInit => ShieldInv
    BY DEF HInit, Init, ShieldInv, Shielded, Idle
  <2> QED BY <2>1, <2>2
<1>2. I /\ [HNext]_<<vars, history>> => I'
  <2> SUFFICES ASSUME I, [HNext]_<<vars, history>> PROVE I'
    OBVIOUS
  <2>1. [Next]_vars
    BY DEF HNext
  <2>2. Inv' /\ PathInv'
    BY <2>1, NextKeeps, PathKept
  <2>3. CASE HNext
    BY <2>2, <2>3, ShieldKept
  <2>4. CASE UNCHANGED <<vars, history>>
    BY <2>2, <2>4 DEF vars, history, ShieldInv, Shielded, Streamed, Doomed, FilesOf
  <2> QED BY <2>3, <2>4
<1>3. I => StreamsKeepTheirTorrent
  BY DEF ShieldInv, Shielded, StreamsKeepTheirTorrent
<1> QED
  BY <1>1, <1>2, <1>3, PTL DEF HSpec

--------------------------------------------------------------------------------

(* Which calls change the table and the engine's list.                     *)
LEMMA TablesMove ==
  ASSUME NEW p \in Requests, Calling(p)
  PROVE  /\ \/ torrents' = torrents
            \/ EngineRemove(p)
            \/ req[p].at = "add" /\ torrents' = torrents \cup {req[p].route}
         /\ rows \subseteq rows' \/ ForgetRow(p) \/ DeleteRow(p)
<1>1. CASE \/ Enter(p) \/ Find(p) \/ List(p) \/ Reuse(p)
           \/ ManagedLocal(p) \/ ManagedStatus(p) \/ managedTorrentIndices(p)
           \/ SelectFiles(p) \/ EnterAdmission(p) \/ Survey(p) \/ Admit(p)
           \/ ChooseVictim(p) \/ ForgetList(p) \/ Remaining(p) \/ TouchList(p)
           \/ Lease(p) \/ Persist(p)
  <2>1. UNCHANGED <<rows, torrents>>
    BY <1>1 DEF Enter, Find, List, Reuse, ManagedLocal, ManagedStatus, managedTorrentIndices,
       SelectFiles, PrepareFiles, EnterAdmission, Survey, Admit, ChooseVictim, ForgetList,
       Remaining, TouchList, Lease, Persist, table, engine
  <2> QED BY <2>1
<1>2. CASE ReuseSave(p) \/ SaveRow(p) \/ Touch(p)
  <2>1. UNCHANGED torrents /\ \E f, flags : SaveDownload(f, flags)
    BY <1>2 DEF ReuseSave, SaveRow, Touch, engine
  <2> QED BY <2>1 DEF SaveDownload
<1>3. CASE EngineAdd(p) \/ EngineRemove(p)
  <2>1. UNCHANGED rows
    BY <1>3 DEF EngineAdd, EngineRemove, table
  <2>2. CASE EngineAdd(p)
    <3>1. req[p].at = "add" /\ torrents' = torrents \cup {req[p].route}
      BY <2>2 DEF EngineAdd, Add
    <3> QED BY <2>1, <3>1
  <2> QED BY <1>3, <2>1, <2>2
<1>4. CASE ForgetRow(p) \/ DeleteRow(p)
  <2>1. UNCHANGED torrents
    BY <1>4 DEF ForgetRow, DeleteRow, engine
  <2> QED BY <1>4, <2>1
<1> QED BY <1>1, <1>2, <1>3, <1>4, Zenon DEF Calling

(* Who minds a torrent is a matter of the requests alone.                  *)
LEMMA MindsStays ==
  ASSUME NEW q, NEW r, req'[q] = req[q], Minds(q, r)
  PROVE  Minds(q, r)'
BY DEF Minds, Doomed

(* A call that is about to save a row of a torrent or to remove the        *)
(* torrent does so, or passes the duty on.                                 *)
LEMMA DutyIsDone ==
  ASSUME NEW p \in Requests, NEW r \in Routes, Inv, PathInv, Calling(p), Minds(p, r)
  PROVE  Minds(p, r)' \/ rows' \cap FilesOf(r) # {} \/ r \notin torrents'
<1>1. Moves(p) /\ OnPath(p) /\ None \notin Routes /\ (req[p].at = "save" => req[p].op # "retention")
  BY CallsMove, NamesAssumption DEF PathInv, Inv, Routed
<1>2. CASE req[p].at \in {"indices", "select"}
  BY <1>1, <1>2 DEF Minds, Moves, Leads, Hop
<1>3. CASE req[p].at = "save"
  <2>1. (\E f \in req[p].seen : f \in rows') /\ req[p].route = r
        /\ req[p].seen \subseteq FilesOf(req[p].route)
    BY <1>1, <1>3 DEF Minds, Moves, Leads, Hop, OnPath
  <2> QED BY <2>1
<1>4. CASE req[p].at = "remaining"
  BY <1>1, <1>4 DEF Minds, Moves, Leads, Hop, OnPath, Doomed
<1>5. CASE req[p].at = "evict"
  BY <1>1, <1>5 DEF Minds, Moves, Leads, Hop
<1> QED BY <1>2, <1>3, <1>4, <1>5 DEF Minds

(* "The last removal must take the torrent with it" (the comment in        *)
(* Manage), for any number of removals, evictions and preparations that    *)
(* race for the last row: a torrent is left without a row and without a    *)
(* request that will save or remove it only when a request ends in an      *)
(* error, or when forgetEngineRows forgets a torrent that came back.       *)
THEOREM LastRemovalTheorem == Spec => LastRemovalTakesTorrent
<1> DEFINE Excuse(r) ==
      \/ \E p \in Requests : Minds(p, r) /\ req[p].at # "finish" /\ req'[p].at = "idle"
      \/ \E p \in Requests : req[p].at = "forget" /\ req'[p] # req[p]
    Step == \A r \in Routes : Orphaned(r)' =>
      \/ Orphaned(r)
      \/ \E p \in Requests : Minds(p, r) /\ req[p].at # "finish" /\ req'[p].at = "idle"
      \/ \E p \in Requests : req[p].at = "forget" /\ req'[p] # req[p]
<1>1. Init => Inv /\ PathInv
  BY InitHolds, PathHolds
<1>2. Inv /\ PathInv /\ [Next]_vars => Inv' /\ PathInv'
  BY NextKeeps, PathKept
<1>3. Inv /\ PathInv /\ [Next]_vars => [Step]_vars
  <2> SUFFICES ASSUME Inv, PathInv, Next, NEW r \in Routes, Orphaned(r)', ~Orphaned(r)
               PROVE  Excuse(r)
    OBVIOUS
  <2>1. /\ r \in torrents' /\ rows' \cap FilesOf(r) = {} /\ \A q \in Requests : ~Minds(q, r)'
        /\ \/ r \notin torrents \/ rows \cap FilesOf(r) # {}
           \/ \E q \in Requests : Minds(q, r)
    BY DEF Orphaned, FilesOf
  <2>2. ASSUME NEW q \in Requests, Minds(q, r) PROVE req'[q] # req[q] /\ req[q].at # "finish"
    BY <2>1, <2>2, MindsStays DEF Minds
  <2>3. ASSUME NEW p \in Requests, Calling(p) PROVE Excuse(r)
    <3>1. Moves(p) /\ OnPath(p)
      BY <2>3, CallsMove DEF PathInv
    <3>2. CASE r \notin torrents
      <4>1. req[p].at = "add" /\ req[p].route = r
        BY <2>1, <2>3, <3>2, TablesMove DEF EngineRemove, Remove
      <4>2. Minds(p, r)'
        BY <3>1, <4>1 DEF Minds, Moves, Leads, Hop, OnPath
      <4> QED BY <2>1, <4>2
    <3>3. CASE rows \cap FilesOf(r) # {}
      <4>1. PICK g \in rows \cap FilesOf(r) : g \notin rows'
        BY <2>1, <3>3
      <4>2. CASE ForgetRow(p)
        <5>1. PICK f \in req[p].seen :
                req' = [req EXCEPT ![p].seen = @ \ {f},
                             ![p].at = IF req[p].seen = {f} THEN AfterForget(p) ELSE @]
          BY <4>2 DEF ForgetRow
        <5>2. req'[p].seen = req[p].seen \ {f}
          BY <5>1, FieldTypes DEF Inv, TypeOK, Request
        <5>3. req'[p] # req[p] /\ req[p].at = "forget"
          BY <4>2, <5>2 DEF ForgetRow
        <5> QED BY <5>3
      <4>3. CASE DeleteRow(p)
        <5>1. req[p].at = "deleteRow" /\ g \in req[p].want
          BY <4>1, <4>3 DEF DeleteRow, DeleteDownload
        <5>2. req[p].route = r
          BY <3>1, <4>1, <5>1 DEF OnPath, FilesOf, Inv, Routed
        <5>3. Minds(p, r)'
          BY <3>1, <5>1, <5>2 DEF Minds, Moves, Leads, Hop
        <5> QED BY <2>1, <5>3
      <4> QED BY <2>3, <4>1, <4>2, <4>3, TablesMove
    <3>4. CASE \E q \in Requests : Minds(q, r)
      <4>1. PICK q \in Requests : Minds(q, r)
        BY <3>4
      <4>2. q = p
        BY <2>2, <3>1, <4>1 DEF Moves
      <4> QED BY <2>1, <2>3, <4>1, <4>2, DutyIsDone
    <3> QED BY <2>1, <3>2, <3>3, <3>4
  <2>4. ASSUME UNCHANGED <<rows, torrents>>,
               \A q \in Requests : req'[q] = req[q] \/ req[q].at = "idle" \/ req'[q].at = "idle"
        PROVE  Excuse(r)
    <3>1. PICK q \in Requests : Minds(q, r)
      BY <2>1, <2>4
    <3>2. req[q].at # "idle"
      BY <3>1 DEF Minds
    <3> QED BY <2>2, <2>4, <3>1, <3>2
  <2>5. ASSUME NEW p \in Requests, Start(p) PROVE Excuse(r)
    BY <2>4, <2>5, StartsShape DEF Starts
  <2>6. ASSUME NEW p \in Requests,
               (Proceed(p) /\ ~Calling(p)) \/ Release(p) \/ Fail(p)
        PROVE  Excuse(r)
    <3>1. /\ req'[p].at = "idle" /\ UNCHANGED <<rows, torrents>>
          /\ \A q \in Requests \ {p} : req'[q] = req[q]
      BY <2>6, ReturnsShape DEF Idle
    <3> QED BY <2>4, <3>1
  <2>7. CASE Restart
    BY <2>4, <2>7 DEF Restart, Idle, engine
  <2>8. CASE UNCHANGED <<rows, torrents, admitting, req>>
    BY <2>4, <2>8
  <2>9. [Next]_vars
    OBVIOUS
  <2> QED
    BY <2>3, <2>5, <2>6, <2>7, <2>8, <2>9, StepShape
<1> QED
  BY <1>1, <1>2, <1>3, PTL DEF Spec, LastRemovalTakesTorrent

--------------------------------------------------------------------------------

(* The Allocation, when every torrent is one file: the inductive           *)
(* invariant.  A torrent in the table is paid for by the claim of the      *)
(* request that brought it, or by itself when that has returned.           *)
OneFile == \A f, g \in Files : RouteOf[f] = RouteOf[g] => f = g

Cost == [r \in Routes |-> Actual(r)]
Owned == RoutesOf({f \in rows : RouteOf[f] \in torrents})
Claimants == {p \in Requests : held[p] > 0}
Claimed == {req[p].route : p \in Claimants}

(* The request is on its way to or through an admission.                   *)
Admitting(p) == req[p].at \in {"admit", "add"} \/ admitting = p

(* Requests prepare one file each, of a torrent that no other request is   *)
(* preparing, and the claim of one that was let in covers the torrent.     *)
Selects(p) == req[p].at = "select" => req[p].seen \subseteq FilesOf(req[p].route)
Prepares(p) ==
    /\ req[p].op # "season"
    /\ req[p].at # "idle" /\ req[p].op # "retention" => req[p].want # {}
    /\ req[p].at \in {"find", "list"} \/ Admitting(p) \/ held[p] > 0 => req[p].keyed
    /\ req[p].keyed => req[p].at # "idle" /\ req[p].op \in Preparing
    /\ admitting = p => req[p].need >= Actual(req[p].route) \/ GrowsTo(p)
Claims(p) ==
    /\ held[p] > 0 =>
          /\ admitting # p
          /\ \/ req[p].at = "admit"
             \/ /\ req[p].at \in {"add", "indices", "select", "save", "finish"}
                /\ held[p] >= Actual(req[p].route)
    /\ req[p].at = "add" => held[p] >= Actual(req[p].route)
KeysDiffer ==
    \A p, q \in Requests : p # q /\ req[p].keyed /\ req[q].keyed => req[p].want # req[q].want

SelectsInv == /\ \A r \in Routes : selected[r] \subseteq FilesOf(r)
              /\ \A p \in Requests : Selects(p)

ClaimsInv == /\ KeysDiffer
             /\ \A p \in Requests : Prepares(p) /\ Claims(p)

(* What fits fits beside the claims; a torrent on its way in has no row    *)
(* yet; and what the survey has missed is claimed.                         *)
Accounted ==
    /\ Total(Cost, Owned \ Claimed) + reserved <= Cap
    /\ \A p \in Requests : Admitting(p) => req[p].want \cap rows = {}
    /\ \A p \in Requests : admitting = p /\ req[p].at = "weigh" =>
          \A f \in rows \ req[p].seen : RouteOf[f] \in Claimed

AccountedInv == excused \/ Accounted

(* A sum over fewer members is not larger ...                              *)
LEMMA TotalMono ==
  ASSUME NEW T, IsFiniteSet(T), NEW S \in SUBSET T, NEW f, \A x \in T : f[x] \in Nat
  PROVE  Total(f, S) <= Total(f, T) /\ Total(f, S) \in Nat /\ Total(f, T) \in Nat
<1> DEFINE A == UNION {Block(f, x) : x \in S}
           B == UNION {Block(f, x) : x \in T}
<1>1. IsFiniteSet(B) /\ Total(f, T) \in Nat
  BY TotalFinite
<1>2. IsFiniteSet(S)
  BY FS_Subset
<1>3. Total(f, S) \in Nat
  BY <1>2, TotalFinite
<1>4. A \in SUBSET B
  OBVIOUS
<1>5. Cardinality(A) <= Cardinality(B)
  <2> HIDE DEF A, B
  <2> QED BY <1>1, <1>4, FS_Subset
<1>6. Total(f, S) = Cardinality(A) /\ Total(f, T) = Cardinality(B)
  BY Zenon DEF Total, Block
<1> QED BY <1>1, <1>3, <1>5, <1>6, Zenon

(* ... over one more it is larger by that one at most ...                  *)
LEMMA TotalOneMore ==
  ASSUME NEW S, IsFiniteSet(S), NEW x, NEW T \in SUBSET (S \cup {x}),
         NEW f, f[x] \in Nat, \A y \in S : f[y] \in Nat
  PROVE  Total(f, T) <= Total(f, S) + f[x]
<1>1. IsFiniteSet(S \cup {x}) /\ x \in S \cup {x} /\ \A y \in S \cup {x} : f[y] \in Nat
  BY FS_AddElement
<1>2. Total(f, T) <= Total(f, S \cup {x}) /\ Total(f, T) \in Nat
  BY <1>1, TotalMono
<1> DEFINE R == (S \cup {x}) \ {x}
<1>3. Total(f, S \cup {x}) = Total(f, R) + f[x] /\ Total(f, R) \in Nat
  BY <1>1, TotalSplit
<1>4. R \in SUBSET S
  OBVIOUS
<1>5. Total(f, R) <= Total(f, S) /\ Total(f, S) \in Nat
  <2> HIDE DEF R
  <2> QED BY <1>4, TotalMono
<1> HIDE DEF R
<1> QED BY <1>2, <1>3, <1>5

(* ... and over two sets together it is not more than over each of them.   *)
LEMMA TotalUnion ==
  ASSUME NEW S, IsFiniteSet(S), NEW T, IsFiniteSet(T),
         NEW f, \A x \in S \cup T : f[x] \in Nat
  PROVE  Total(f, S \cup T) <= Total(f, S) + Total(f, T)
<1> DEFINE A == UNION {Block(f, x) : x \in S}
           B == UNION {Block(f, x) : x \in T}
<1>1. IsFiniteSet(A) /\ Total(f, S) \in Nat
  BY TotalFinite
<1>2. IsFiniteSet(B) /\ Total(f, T) \in Nat
  BY TotalFinite
<1>3. Total(f, S) = Cardinality(A) /\ Total(f, T) = Cardinality(B)
  BY Zenon DEF Total, Block
<1>4. UNION {Block(f, x) : x \in S \cup T} = A \cup B
  OBVIOUS
<1>5. Total(f, S \cup T) = Cardinality(A \cup B)
  <2>1. Total(f, S \cup T) = Cardinality(UNION {Block(f, x) : x \in S \cup T})
    BY Zenon DEF Total, Block
  <2> QED BY <1>4, <2>1, Zenon
<1> HIDE DEF A, B
<1>6. /\ Cardinality(A \cup B) = Cardinality(A) + Cardinality(B) - Cardinality(A \cap B)
      /\ IsFiniteSet(A \cap B)
  BY <1>1, <1>2, FS_Union, FS_Subset
<1>7. Cardinality(A \cap B) \in Nat
  BY <1>6, FS_CardinalityType
<1> QED BY <1>1, <1>2, <1>3, <1>5, <1>6, <1>7

(* What each member of S is paid for by a member of T of its own is paid   *)
(* for by T.                                                               *)
LEMMA TotalPaid ==
  ASSUME NEW S, NEW T, IsFiniteSet(T), NEW f, NEW g, NEW m \in [S -> T],
         \A x, y \in S : m[x] = m[y] => x = y,
         \A x \in S : f[x] \in Nat /\ f[x] <= g[m[x]],
         \A y \in T : g[y] \in Nat
  PROVE  Total(f, S) <= Total(g, T)
<1> DEFINE A == UNION {Block(f, x) : x \in S}
           B == UNION {Block(g, y) : y \in T}
           h == [a \in A |-> <<m[a[1]], a[2]>>]
<1>1. IsFiniteSet(B)
  BY TotalFinite
<1>2. ASSUME NEW a \in A
      PROVE  /\ a[1] \in S /\ a[2] \in 1..f[a[1]] /\ a = <<a[1], a[2]>>
             /\ <<m[a[1]], a[2]>> \in B
  <2>1. PICK x \in S : a \in {x} \X (1 .. f[x])
    BY DEF Block
  <2>2. a[1] = x /\ a[2] \in 1..f[x] /\ a = <<a[1], a[2]>>
    BY <2>1
  <2>3. a[2] \in 1..g[m[x]] /\ m[x] \in T
    <3>1. f[x] \in Nat /\ f[x] <= g[m[x]] /\ g[m[x]] \in Nat /\ m[x] \in T
      OBVIOUS
    <3> QED BY <2>2, <3>1
  <2>4. <<m[x], a[2]>> \in Block(g, m[x])
    BY <2>3 DEF Block
  <2>5. <<m[x], a[2]>> \in B
    BY <2>3, <2>4
  <2> QED BY <2>2, <2>5
<1>3. h \in [A -> B]
  BY <1>2
<1>4. ASSUME NEW a \in A, NEW b \in A, h[a] = h[b] PROVE a = b
  <2>1. <<m[a[1]], a[2]>> = <<m[b[1]], b[2]>>
    BY <1>4
  <2>2. m[a[1]] = m[b[1]] /\ a[2] = b[2] /\ a[1] \in S /\ b[1] \in S
    BY <1>2, <2>1
  <2>3. a[1] = b[1]
    BY <2>2
  <2> QED BY <1>2, <2>2, <2>3
<1>5. h \in Injection(A, B)
  <2> HIDE DEF A, B, h
  <2> QED BY <1>3, <1>4 DEF Injection, IsInjective
<1>6. Cardinality(A) <= Cardinality(B)
  <2> HIDE DEF A, B, h
  <2> QED BY <1>1, <1>5, FS_Injection
<1>7. Total(f, S) = Cardinality(A) /\ Total(g, T) = Cardinality(B)
  BY Zenon DEF Total, Block
<1> QED BY <1>6, <1>7, Zenon

(* With one file per torrent, whatever is selected is the torrent.         *)
LEMMA SelectionIsTorrent ==
  ASSUME OneFile, NEW sel, \A r \in Routes : sel[r] \subseteq FilesOf(r),
         NEW R \in SUBSET Routes
  PROVE  Total([r \in Routes |->
                  Total(Size, IF sel[r] = {} THEN FilesOf(r) ELSE sel[r])], R) = Total(Cost, R)
<1> DEFINE t == [r \in Routes |-> Total(Size, IF sel[r] = {} THEN FilesOf(r) ELSE sel[r])]
<1>1. ASSUME NEW r \in Routes PROVE (IF sel[r] = {} THEN FilesOf(r) ELSE sel[r]) = FilesOf(r)
  <2>1. \A f, g \in FilesOf(r) : f = g
    BY DEF OneFile, FilesOf
  <2> QED BY <2>1
<1>2. \A r \in R : t[r] = Cost[r]
  BY <1>1 DEF Cost, Actual
<1> HIDE DEF t
<1>3. Total(t, R) = Total(Cost, R)
  BY <1>2, TotalSame
<1> QED BY <1>3 DEF t

LEMMA CostType ==
  /\ \A r \in Routes : Cost[r] \in Nat /\ Cost[r] = Actual(r)
  /\ \A R \in SUBSET Files : IsFiniteSet(RoutesOf(R)) /\ RoutesOf(R) \subseteq Routes
<1>1. \A r \in Routes : Cost[r] \in Nat /\ Cost[r] = Actual(r)
  BY ActualType DEF Cost
<1>2. ASSUME NEW R \in SUBSET Files
      PROVE  IsFiniteSet(RoutesOf(R)) /\ RoutesOf(R) \subseteq Routes
  <2>1. IsFiniteSet(R)
    BY NamesAssumption, FS_Subset
  <2> DEFINE g == [f \in R |-> RouteOf[f]]
             Q == RoutesOf(R)
  <2>2. g \in Surjection(R, Q)
    BY DEF Surjection, RoutesOf
  <2>3. IsFiniteSet(Q)
    <3> HIDE DEF g, Q
    <3> QED BY <2>1, <2>2, FS_Surjection
  <2>4. Q \subseteq Routes
    BY NamesAssumption DEF RoutesOf
  <2> QED BY <2>3, <2>4
<1> QED BY <1>1, <1>2

(* What a call makes of the fields that Moves does not speak of.           *)
LEMMA CallFields ==
  ASSUME NEW p \in Requests, Inv, Calling(p), ~Admit(p), ~EnterAdmission(p)
  PROVE  /\ req'[p].need = req[p].need /\ req'[p].again = req[p].again
         /\ Enter(p) \/ req'[p].keyed = req[p].keyed
<1> DEFINE Same == /\ req'[p].need = req[p].need /\ req'[p].again = req[p].again
                   /\ req'[p].keyed = req[p].keyed
<1>0. req \in [Requests -> Request] /\ req[p] \in Request
  BY FieldTypes DEF Inv, TypeOK
<1>1. ASSUME NEW a, Goto(p, a) PROVE Same
  BY <1>0, <1>1 DEF Goto, Request
<1>2. CASE Enter(p)
  <2>1. req'[p].need = req[p].need /\ req'[p].again = req[p].again
    BY <1>0, <1>2 DEF Enter, Request
  <2> QED BY <1>2, <2>1
<1>3. CASE Find(p)
  <2>1. Same
    BY <1>0, <1>3 DEF Find, Request
  <2> QED BY <2>1
<1>4. CASE List(p)
  <2>1. \E a : Goto(p, a)
    BY <1>4 DEF List
  <2> QED BY <1>1, <2>1
<1>5. CASE Reuse(p)
  <2>1. \E a : Goto(p, a)
    BY <1>5 DEF Reuse
  <2> QED BY <1>1, <2>1
<1>6. CASE ReuseSave(p)
  <2>1. Same
    BY <1>0, <1>6 DEF ReuseSave, Request
  <2> QED BY <2>1
<1>7. CASE ManagedLocal(p)
  <2>1. Same
    BY <1>0, <1>7 DEF ManagedLocal, Request
  <2> QED BY <2>1
<1>8. CASE ManagedStatus(p)
  <2>1. Same
    BY <1>0, <1>8 DEF ManagedStatus, Request
  <2> QED BY <2>1
<1>9. CASE managedTorrentIndices(p)
  <2>1. Same
    BY <1>0, <1>9 DEF managedTorrentIndices, Request
  <2> QED BY <2>1
<1>10. CASE SelectFiles(p)
  <2>1. Same
    BY <1>0, <1>10 DEF SelectFiles, Request
  <2> QED BY <2>1
<1>11. CASE SaveRow(p)
  <2>1. PICK f \in req[p].seen :
          req' = [req EXCEPT ![p].seen = @ \ {f}, ![p].flags = @ \ {f},
                             ![p].at = IF req[p].seen = {f} THEN AfterSave(p) ELSE @,
                             ![p].hashed = IF req[p].seen = {f} THEN FALSE ELSE @]
    BY <1>11 DEF SaveRow
  <2>2. Same
    BY <1>0, <2>1 DEF Request
  <2> QED BY <2>2
<1>12. CASE Survey(p)
  <2>1. Same
    BY <1>0, <1>12 DEF Survey, Request
  <2> QED BY <2>1
<1>13. CASE ChooseVictim(p)
  <2>1. Same
    BY <1>0, <1>13 DEF ChooseVictim, Request
  <2> QED BY <2>1
<1>14. CASE EngineAdd(p)
  <2>1. \E a : Goto(p, a)
    BY <1>14 DEF EngineAdd
  <2> QED BY <1>1, <2>1
<1>15. CASE EngineRemove(p)
  <2>1. \E a : Goto(p, a)
    BY <1>15 DEF EngineRemove
  <2> QED BY <1>1, <2>1
<1>16. CASE ForgetList(p)
  <2>1. Same
    BY <1>0, <1>16 DEF ForgetList, Request
  <2> QED BY <2>1
<1>17. CASE ForgetRow(p)
  <2>1. Same
    BY <1>0, <1>17 DEF ForgetRow, Request
  <2> QED BY <2>1
<1>18. CASE DeleteRow(p)
  <2>1. \E a : Goto(p, a)
    BY <1>18 DEF DeleteRow
  <2> QED BY <1>1, <2>1
<1>19. CASE Remaining(p)
  <2>1. \E a : Goto(p, a)
    BY <1>19 DEF Remaining
  <2> QED BY <1>1, <2>1
<1>20. CASE TouchList(p)
  <2>1. Same
    BY <1>0, <1>20 DEF TouchList, Request
  <2> QED BY <2>1
<1>21. CASE Touch(p)
  <2>1. Same
    BY <1>0, <1>21 DEF Touch, Request
  <2> QED BY <2>1
<1>22. CASE Lease(p)
  <2>1. \E a : Goto(p, a)
    BY <1>22 DEF Lease
  <2> QED BY <1>1, <2>1
<1>23. CASE Persist(p)
  <2>1. \E a : Goto(p, a)
    BY <1>23 DEF Persist
  <2> QED BY <1>1, <2>1
<1> QED
  BY <1>2, <1>3, <1>4, <1>5, <1>6, <1>7, <1>8, <1>9, <1>10, <1>11, <1>12, <1>13, <1>14, <1>15, <1>16, <1>17, <1>18, <1>19, <1>20, <1>21, <1>22, <1>23, Zenon DEF Calling

(* The calls at their places.                                              *)
LEMMA CallsAt ==
  ASSUME NEW p \in Requests, Inv, Calling(p)
  PROVE  /\ req[p].at = "indices" => managedTorrentIndices(p)
         /\ req[p].at = "select" => SelectFiles(p)
         /\ req[p].at = "save" => SaveRow(p)
         /\ req[p].at = "admit" => EnterAdmission(p)
         /\ req[p].at = "add" => EngineAdd(p)
         /\ req[p].at = "list" => List(p)
         /\ req[p].at = "enter" => Enter(p)
         /\ req[p].at \notin {"idle", "finish", "playing"}
BY DEF Calling, Enter, Find, List, Reuse, ReuseSave, ManagedLocal, ManagedStatus,
       managedTorrentIndices, SelectFiles, SaveRow, EnterAdmission, Survey, Admit,
       ChooseVictim, EngineAdd, EngineRemove, ForgetList, ForgetRow, DeleteRow, Remaining,
       TouchList, Touch, Lease, Persist

(* Which calls change what is selected.                                    *)
LEMMA SelectedMoves ==
  ASSUME NEW p \in Requests, Calling(p)
  PROVE  selected' = selected \/ SelectFiles(p) \/ EngineRemove(p)
BY DEF Calling, Enter, Find, List, Reuse, ReuseSave, ManagedLocal, ManagedStatus,
       managedTorrentIndices, SaveRow, EnterAdmission, Survey, Admit,
       ChooseVictim, EngineAdd, Add, ForgetList, ForgetRow, DeleteRow, Remaining,
       TouchList, Touch, Lease, Persist, engine

(* Nothing is selected of a torrent but its own files.                     *)
LEMMA SelectsKept ==
  ASSUME Inv, PathInv, SelectsInv, [Next]_vars
  PROVE  SelectsInv'
<1>a. /\ selected \in [Routes -> SUBSET Files] /\ \A r \in Routes : selected[r] \subseteq FilesOf(r)
      /\ \A q \in Requests : Selects(q)
  BY DEF Inv, TypeOK, SelectsInv
<1>b. ASSUME selected' = selected, \A q \in Requests : req'[q] = req[q] \/ req'[q].at # "select"
      PROVE  SelectsInv'
  BY <1>a, <1>b DEF SelectsInv, Selects, FilesOf
<1>1. ASSUME NEW p \in Requests, Calling(p) PROVE SelectsInv'
  <2>0. Moves(p) /\ req[p] \in Request
    BY <1>1, CallsMove, FieldTypes
  <2>1. CASE req'[p].at # "select" /\ selected' = selected
    BY <1>b, <2>0, <2>1 DEF Moves
  <2>2. CASE req'[p].at = "select"
    <3>1. req[p].at = "indices"
      BY <2>0, <2>2 DEF Moves, Leads, Hop, AfterForget
    <3>2. managedTorrentIndices(p)
      BY <1>1, <3>1, CallsAt
    <3>3. PICK known : req' = [req EXCEPT ![p].at = "select",
                        ![p].seen = (req[p].want \cup known) \cap FilesOf(req[p].route)]
      BY <3>2 DEF managedTorrentIndices
    <3>4. req'[p].seen = (req[p].want \cup known) \cap FilesOf(req[p].route)
      BY <3>3, <2>0 DEF Inv, TypeOK, Request
    <3>5. selected' = selected /\ req'[p].route = req[p].route
      BY <3>2, <2>0 DEF managedTorrentIndices, engine, Moves
    <3>6. \A q \in Requests \ {p} : req'[q] = req[q]
      BY <2>0 DEF Moves
    <3> QED BY <1>a, <3>4, <3>5, <3>6 DEF SelectsInv, Selects, FilesOf
  <2>3. CASE req'[p].at # "select" /\ selected' # selected
    <3>1. \A q \in Requests : req'[q] = req[q] \/ req'[q].at # "select"
      BY <2>0, <2>3 DEF Moves
    <3>2. \A q \in Requests : Selects(q)'
      BY <1>a, <3>1 DEF Selects, FilesOf
    <3>3. \A r \in Routes : selected'[r] \subseteq FilesOf(r)
      <4>1. CASE SelectFiles(p)
        <5>1. /\ selected' = [selected EXCEPT ![req[p].route] = req[p].seen]
              /\ req[p].at = "select"
          BY <4>1 DEF SelectFiles, PrepareFiles
        <5>2. req[p].seen \subseteq FilesOf(req[p].route)
          BY <1>a, <5>1 DEF Selects
        <5> QED BY <1>a, <5>1, <5>2
      <4>2. CASE EngineRemove(p)
        <5>1. selected' = [selected EXCEPT ![Doomed(p)] = {}]
          BY <4>2 DEF EngineRemove, Remove
        <5> QED BY <1>a, <5>1
      <4> QED BY <1>1, <2>3, <4>1, <4>2, SelectedMoves
    <3> QED BY <3>2, <3>3 DEF SelectsInv, FilesOf
  <2> QED BY <2>1, <2>2, <2>3
<1>2. ASSUME NEW p \in Requests, Start(p) PROVE SelectsInv'
  <2>1. Starts(p)
    BY <1>2, StartsShape
  <2>2. selected' = selected
    BY <1>2 DEF Start, Prepare, Acquire, ManageRemove, ManageRemoveFile, ManagePause,
       ManageRetry, PrepareSeason, RunRetention, Begin, engine
  <2> QED BY <1>b, <2>1, <2>2 DEF Starts, Preparing
<1>3. ASSUME NEW p \in Requests,
             (Proceed(p) /\ ~Calling(p)) \/ Release(p) \/ Fail(p)
      PROVE  SelectsInv'
  <2>1. /\ req'[p] = Idle /\ \A q \in Requests \ {p} : req'[q] = req[q]
    BY <1>3, ReturnsShape
  <2>2. selected' = selected
    BY <1>3 DEF Proceed, Calling, Release, Fail, Finish, EndWeigh, RowGone, TorrentGone,
           PersistFails, engine
  <2> QED BY <1>b, <2>1, <2>2 DEF Idle
<1>4. CASE Restart
  BY <1>4, <1>b DEF Restart, engine, Idle
<1>5. ASSUME NEW f \in Files, Complete(f) PROVE SelectsInv'
  BY <1>5, <1>b DEF Complete
<1>6. CASE UNCHANGED vars
  BY <1>6, <1>b DEF vars
<1> QED
  BY <1>1, <1>2, <1>3, <1>4, <1>5, <1>6, Zenon DEF Next

(* An admission goes on, with what it needs to claim, or without a check.  *)
LEMMA AdmissionEnters ==
  ASSUME NEW p \in Requests, Inv, Routed, Cap > 0, EnterAdmission(p), req[p].op # "retention"
  PROVE  /\ held' = [held EXCEPT ![p] = 0] /\ reserved' = reserved - held[p]
         /\ admitting' = p /\ admitting = None
         /\ req'[p].at = "survey" /\ req'[p].keyed = req[p].keyed
         /\ req'[p].need >= Actual(req'[p].route) \/ GrowsTo(p)'
<1>0. /\ req \in [Requests -> Request] /\ req[p] \in Request /\ req[p].at = "admit"
      /\ req[p].route \in Routes
  BY FieldTypes DEF Inv, TypeOK, EnterAdmission, Routed
<1>1. PICK n \in IF req[p].again THEN {Actual(req[p].route)}
                 ELSE {Actual(req[p].route), Declared[req[p].route]} :
               req' = [req EXCEPT ![p].at = "survey", ![p].need = n]
  BY DEF EnterAdmission
<1>2. /\ req'[p].at = "survey" /\ req'[p].need = n
      /\ req'[p].again = req[p].again /\ req'[p].route = req[p].route
  BY <1>0, <1>1 DEF Request
<1>3. req'[p].keyed = req[p].keyed
  BY <1>0, <1>1 DEF Request
<1>4. Actual(req[p].route) \in Nat /\ Declared[req[p].route] \in Nat
  BY <1>0, ActualType, CountsAssumption
<1>5. n >= Actual(req[p].route) \/ (~req[p].again /\ Actual(req[p].route) > Declared[req[p].route])
  <2>1. CASE n = Actual(req[p].route)
    BY <1>4, <2>1
  <2>2. CASE n # Actual(req[p].route)
    <3>1. n = Declared[req[p].route] /\ ~req[p].again
      BY <1>1, <2>2
    <3> QED BY <1>4, <3>1
  <2> QED BY <2>1, <2>2
<1>6. n >= Actual(req[p].route) \/ GrowsTo(p)'
  BY <1>2, <1>5 DEF GrowsTo, Actual, FilesOf
<1>7. /\ held' = [held EXCEPT ![p] = 0] /\ reserved' = reserved - held[p]
      /\ admitting' = p /\ admitting = None
  BY DEF EnterAdmission
<1>8. Actual(req'[p].route) = Actual(req[p].route)
  BY <1>2
<1> QED BY <1>2, <1>3, <1>6, <1>7, <1>8

(* A request that is let in claims its torrent, unless it asks again.      *)
LEMMA AdmissionEnds ==
  ASSUME NEW p \in Requests, Inv, Prepares(p), Admit(p)
  PROVE  /\ held' = [held EXCEPT ![p] = req[p].need] /\ reserved' = reserved + req[p].need
         /\ admitting' = None /\ admitting = p /\ held[p] = 0
         /\ req'[p].at \in {"admit", "add"} /\ req'[p].keyed = req[p].keyed
         /\ req'[p].route = req[p].route /\ req'[p].want = req[p].want
         /\ req'[p].op = req[p].op
         /\ req'[p].at = "add" => held'[p] >= Actual(req'[p].route)
<1>0. /\ req \in [Requests -> Request] /\ req[p] \in Request /\ held \in [Requests -> Nat]
      /\ req[p].at = "weigh" /\ req[p].op # "retention"
  BY FieldTypes DEF Inv, TypeOK, Admit
<1>1. admitting = p /\ held[p] = 0
  BY <1>0 DEF Inv, ClaimsGuarded
<1>2. req[p].need >= Actual(req[p].route) \/ GrowsTo(p)
  BY <1>1 DEF Prepares
<1>3. /\ held' = [held EXCEPT ![p] = req[p].need] /\ reserved' = reserved + req[p].need
      /\ admitting' = None /\ req' = Admitted(p)
  BY DEF Admit
<1>4. /\ req'[p].at = IF GrowsTo(p) THEN "admit" ELSE "add"
      /\ req'[p].route = req[p].route /\ req'[p].want = req[p].want
      /\ req'[p].op = req[p].op
  BY <1>0, <1>3 DEF Admitted, Request
<1>5. req'[p].keyed = req[p].keyed
  BY <1>0, <1>3 DEF Admitted, Request
<1>6. held'[p] = req[p].need
  BY <1>0, <1>3
<1>7. req'[p].at = "add" => held'[p] >= Actual(req'[p].route)
  BY <1>2, <1>4, <1>6
<1> QED BY <1>1, <1>3, <1>4, <1>5, <1>7

(* What starts, for torrents of one file.                                  *)
StartsOne(p) ==
  /\ req'[p].op # "season" /\ req'[p].at # "idle"
  /\ req'[p].op # "retention" => req'[p].want # {}
  /\ req'[p].at \in {"find", "list"} => req'[p].keyed
  /\ req'[p].at \notin {"admit", "add"}
  /\ req'[p].keyed => req'[p].op \in Preparing /\ KeyFree(p, FALSE, req'[p].want)

LEMMA BeginFields ==
  ASSUME NEW p \in Requests, Inv, NEW op \in OpNames, NEW call \in Calls,
         NEW f \in Files, Begin(p, op, call, {f})
  PROVE  /\ req'[p].op = op /\ req'[p].at = call /\ req'[p].want = {f}
         /\ req'[p].keyed <=> op \in {"prepare", "season"}
<1> DEFINE F == IF op = "stream" THEN flagged \cap {f} ELSE {}
           k == op \in {"prepare", "season"}
           c == RouteOf[CHOOSE g \in {f} : TRUE]
           x == [Idle EXCEPT !.op = op, !.at = call, !.want = {f}, !.route = c,
                             !.flags = F, !.keyed = k]
<1>1. req' = [req EXCEPT ![p] = x]
  BY DEF Begin
<1>2. x.op = op /\ x.at = call /\ x.want = {f} /\ x.keyed = k
  <2> HIDE DEF F, k, c
  <2> QED BY DEF Idle
<1>3. req'[p] = x
  <2> HIDE DEF x
  <2> QED BY <1>1 DEF Inv, TypeOK
<1> HIDE DEF x
<1> QED BY <1>2, <1>3

LEMMA StartFields ==
  ASSUME NEW p \in Requests, Inv, OneFile, Start(p)
  PROVE  StartsOne(p)
<1> USE DEF OpNames, Calls, Preparing
<1>1. ASSUME NEW f \in Files, Prepare(p, f) PROVE StartsOne(p)
  <2>1. KeyFree(p, FALSE, {f}) /\ Begin(p, "prepare", "find", {f})
    BY <1>1 DEF Prepare
  <2>2. /\ req'[p].op = "prepare" /\ req'[p].at = "find" /\ req'[p].want = {f}
        /\ req'[p].keyed
    BY <2>1, BeginFields
  <2> QED BY <2>1, <2>2 DEF StartsOne
<1>2. ASSUME NEW f \in Files, NEW op \in {"stream", "remove", "removeFile", "pause", "retry"},
             NEW call \in {"managed", "evict", "deleteRow", "touchList", "forgetList"},
             Begin(p, op, call, {f})
      PROVE  StartsOne(p)
  <2>2. /\ req'[p].op = op /\ req'[p].at = call /\ req'[p].want = {f}
        /\ ~req'[p].keyed
    BY <1>2, BeginFields
  <2> QED BY <2>2 DEF StartsOne
<1>3. ASSUME NEW f \in Files,
             \/ Acquire(p, f) \/ ManageRemove(p, f) \/ ManageRemoveFile(p, f)
             \/ ManagePause(p, f) \/ ManageRetry(p, f)
      PROVE  StartsOne(p)
  BY <1>2, <1>3 DEF Acquire, ManageRemove, ManageRemoveFile, ManagePause, ManageRetry
<1>4. ASSUME NEW r \in Routes, PrepareSeason(p, r) PROVE StartsOne(p)
  <2>1. IsFiniteSet(FilesOf(r)) /\ Cardinality(FilesOf(r)) > 1
    BY <1>4, NamesAssumption, FS_Subset DEF PrepareSeason, FilesOf
  <2>2. \A f, g \in FilesOf(r) : f = g
    BY DEF OneFile, FilesOf
  <2>3. FilesOf(r) # {}
    BY <2>1, FS_EmptySet
  <2>4. PICK f \in FilesOf(r) : FilesOf(r) = {f}
    BY <2>2, <2>3
  <2>5. Cardinality(FilesOf(r)) = 1
    BY <2>4, FS_Singleton
  <2> QED BY <2>1, <2>5
<1>5. CASE RunRetention(p)
  <2> DEFINE x == [Idle EXCEPT !.op = "retention", !.at = "survey"]
  <2>1. x.op = "retention" /\ x.at = "survey" /\ x.keyed = FALSE
    BY DEF Idle
  <2>2. req' = [req EXCEPT ![p] = x]
    BY <1>5 DEF RunRetention
  <2>3. req'[p] = x
    <3> HIDE DEF x
    <3> QED BY <2>2 DEF Inv, TypeOK
  <2> HIDE DEF x
  <2> QED BY <2>1, <2>3 DEF StartsOne
<1> QED
  BY <1>1, <1>3, <1>4, <1>5 DEF Start

(* A call that neither asks for room nor gets it keeps the claims, and      *)
(* only Enter takes the mutex of a key.                                    *)
LEMMA PlainCalls ==
  ASSUME NEW p \in Requests, Inv, Calling(p), ~Admit(p), ~EnterAdmission(p)
  PROVE  /\ reserved' = reserved /\ held' = held /\ admitting' = admitting
         /\ req'[p].at \notin {"admit", "add"} \/ List(p)
         /\ req'[p].at = "find" => Enter(p)
         /\ req'[p].at = "list" => req[p].at = "find"
         /\ req[p].at = "save" => req'[p].at \in {"save", AfterSave(p)}
<1>1. UNCHANGED claims
  BY GuardKept, Zenon DEF Calling
<1>2. Moves(p) /\ ClaimsGuarded /\ None \notin Requests
  BY CallsMove, NamesAssumption DEF Inv
<1>3. req'[p].at \notin {"admit", "add"} \/ List(p)
  <2> SUFFICES ASSUME req'[p].at \in {"admit", "add"} PROVE List(p)
    OBVIOUS
  <2>1. \/ req[p].at \in {"list", "admit"}
        \/ req[p].at = "weigh" /\ req[p].op # "retention" /\ admitting' = None
    BY <1>2 DEF Moves, Leads, Hop, AfterForget
  <2>2. req[p].at # "admit"
    BY CallsAt
  <2>3. req[p].at # "weigh"
    BY <1>1, <1>2, <2>1 DEF ClaimsGuarded, claims
  <2> QED BY <2>1, <2>2, <2>3, CallsAt
<1>4. req'[p].at = "find" => req[p].at = "enter"
  BY <1>2 DEF Moves, Leads, Hop, AfterForget
<1>5. req'[p].at = "list" => req[p].at = "find"
  BY <1>2 DEF Moves, Leads, Hop, AfterForget
<1>6. ASSUME req[p].at = "save" PROVE req'[p].at \in {"save", AfterSave(p)}
  <2>1. SaveRow(p)
    BY <1>6, CallsAt
  <2>2. PICK f \in req[p].seen :
          req' = [req EXCEPT ![p].seen = @ \ {f}, ![p].flags = @ \ {f},
                             ![p].at = IF req[p].seen = {f} THEN AfterSave(p) ELSE @,
                             ![p].hashed = IF req[p].seen = {f} THEN FALSE ELSE @]
    BY <2>1 DEF SaveRow
  <2>3. req'[p].at = IF req[p].seen = {f} THEN AfterSave(p) ELSE req[p].at
    BY <2>2, FieldTypes DEF Inv, TypeOK, Request
  <2> QED BY <1>6, <2>3
<1> QED BY <1>1, <1>3, <1>4, <1>5, <1>6, CallsAt DEF claims

(* Such a call keeps a request's own part of the invariant.                *)
LEMMA PlainKeeps ==
  ASSUME NEW p \in Requests, Inv, PathInv, Prepares(p), Claims(p),
         Calling(p), ~Admit(p), ~EnterAdmission(p)
  PROVE  Prepares(p)' /\ Claims(p)'
<1>1. /\ reserved' = reserved /\ held' = held /\ admitting' = admitting
      /\ req'[p].at \notin {"admit", "add"} \/ List(p)
      /\ req'[p].at = "find" => Enter(p)
      /\ req'[p].at = "list" => req[p].at = "find"
      /\ req[p].at = "save" => req'[p].at \in {"save", AfterSave(p)}
  BY PlainCalls
<1>2. /\ req'[p].need = req[p].need /\ req'[p].again = req[p].again
      /\ Enter(p) \/ req'[p].keyed = req[p].keyed
  BY CallFields
<1>3. Moves(p) /\ OnPath(p)
  BY CallsMove DEF PathInv
<1>4. /\ req'[p].op = req[p].op /\ req'[p].want = req[p].want /\ req'[p].route = req[p].route
  BY <1>3 DEF Moves
<1>5. req[p].at # "idle" /\ req'[p].at # "idle"
  <2>1. req'[p].at # "idle"
    BY <1>3 DEF Moves, Leads, Hop, AfterForget
  <2> QED BY <2>1, CallsAt
<1>6. Enter(p) => req'[p].keyed /\ req[p].at = "enter" /\ req[p].op \in Preparing
  <2>1. ASSUME Enter(p) PROVE req'[p].keyed
    BY <2>1, FieldTypes DEF Enter, Inv, TypeOK, Request
  <2>2. Enter(p) => req[p].at = "enter"
    BY DEF Enter
  <2> QED BY <1>3, <2>1, <2>2 DEF OnPath
<1>7. Actual(req'[p].route) = Actual(req[p].route) /\ (GrowsTo(p)' <=> GrowsTo(p))
  BY <1>2, <1>4 DEF GrowsTo, Actual, FilesOf
<1>8. req[p].keyed => req'[p].keyed
  BY <1>2, <1>6
<1>9. Prepares(p)'
  <2>1. req'[p].op # "season"
    BY <1>4 DEF Prepares
  <2>2. req'[p].at # "idle" /\ req'[p].op # "retention" => req'[p].want # {}
    BY <1>4, <1>5 DEF Prepares
  <2>3. req'[p].at \in {"find", "list"} => req'[p].keyed
    BY <1>1, <1>6, <1>8 DEF Prepares
  <2>4. req'[p].at \in {"admit", "add"} => req'[p].keyed
    <3>1. List(p) => req[p].at = "list"
      BY DEF List
    <3> QED BY <1>1, <1>8, <3>1 DEF Prepares
  <2>5. admitting' = p \/ held'[p] > 0 => req'[p].keyed
    BY <1>1, <1>8 DEF Prepares, Admitting
  <2>6. req'[p].keyed => req'[p].at # "idle" /\ req'[p].op \in Preparing
    BY <1>2, <1>4, <1>5, <1>6 DEF Prepares
  <2>7. admitting' = p => req'[p].need >= Actual(req'[p].route) \/ GrowsTo(p)'
    BY <1>1, <1>2, <1>7 DEF Prepares
  <2>8. Actual(req'[p].route) = Actual(req[p].route)
    BY <1>7
  <2> QED BY <2>1, <2>2, <2>3, <2>4, <2>5, <2>6, <2>7 DEF Prepares, Admitting, Actual, FilesOf
<1>10. Claims(p)'
  <2>1. ASSUME held[p] > 0
        PROVE  /\ admitting' # p
               /\ req'[p].at \in {"indices", "select", "save", "finish"}
               /\ held'[p] >= Actual(req'[p].route)
    <3>1. /\ admitting # p /\ req[p].keyed
          /\ \/ req[p].at = "admit"
             \/ /\ req[p].at \in {"add", "indices", "select", "save", "finish"}
                /\ held[p] >= Actual(req[p].route)
      BY <2>1 DEF Claims, Prepares
    <3>2. req[p].at \notin {"admit", "finish"}
      BY CallsAt
    <3>3. AfterSave(p) = "finish"
      BY <3>1 DEF AfterSave, Prepares, Preparing
    <3>4. req'[p].at \in {"indices", "select", "save", "finish"}
      BY <1>1, <1>3, <3>1, <3>2, <3>3 DEF Moves, Leads, Hop
    <3> QED BY <1>1, <1>4, <3>1, <3>2, <3>4
  <2>2. req'[p].at # "add"
    <3>1. List(p) => req[p].at = "list"
      BY DEF List
    <3> QED BY <1>1, <1>3, <3>1 DEF Moves, Leads, Hop
  <2>3. held'[p] = held[p] /\ Actual(req'[p].route) = Actual(req[p].route)
    BY <1>1, <1>7
  <2> QED BY <2>1, <2>2, <2>3 DEF Claims, Actual, FilesOf
<1> QED BY <1>9, <1>10

(* Another request's step leaves them alone too.                           *)
LEMMA OthersKeep ==
  ASSUME NEW q \in Requests, Prepares(q), Claims(q), req'[q] = req[q],
         held'[q] = held[q], admitting' = q => admitting = q
  PROVE  Prepares(q)' /\ Claims(q)'
<1>1. Actual(req'[q].route) = Actual(req[q].route) /\ (GrowsTo(q)' <=> GrowsTo(q))
  BY DEF GrowsTo, Actual, FilesOf
<1>2. Prepares(q)'
  BY <1>1 DEF Prepares, Admitting, Actual, FilesOf
<1>3. Claims(q)'
  BY <1>1 DEF Claims, Actual, FilesOf
<1> QED BY <1>2, <1>3

(* And so does asking for room, and getting it.                            *)
LEMMA AdmissionKeeps ==
  ASSUME NEW p \in Requests, Inv, PathInv, Cap > 0, Prepares(p), Claims(p),
         EnterAdmission(p) \/ Admit(p)
  PROVE  /\ Prepares(p)' /\ Claims(p)' /\ req'[p].keyed = req[p].keyed
         /\ \A q \in Requests \ {p} : held'[q] = held[q] /\ (admitting' = q => admitting = q)
<1>0. Moves(p) /\ None \notin Requests /\ held \in [Requests -> Nat]
  <2>1. Calling(p)
    BY DEF Calling
  <2> QED BY <2>1, CallsMove, NamesAssumption DEF Inv, TypeOK
<1>1. /\ req'[p].op = req[p].op /\ req'[p].want = req[p].want /\ req'[p].route = req[p].route
  BY <1>0 DEF Moves
<1>2. CASE EnterAdmission(p)
  <2>1. req[p].at = "admit" /\ Routed
    BY <1>2 DEF EnterAdmission, Inv
  <2>2. req[p].op # "retention" /\ req[p].op # "season" /\ req[p].keyed /\ req[p].op \in Preparing
    BY <2>1 DEF Routed, Prepares, Admitting
  <2>3. /\ held' = [held EXCEPT ![p] = 0]
        /\ admitting' = p
        /\ req'[p].at = "survey" /\ req'[p].keyed = req[p].keyed
        /\ req'[p].need >= Actual(req'[p].route) \/ GrowsTo(p)'
    BY <1>2, <2>1, <2>2, AdmissionEnters
  <2>4. req[p].want # {}
    BY <2>1, <2>2 DEF Prepares
  <2>5. held'[p] = 0 /\ \A q \in Requests \ {p} : held'[q] = held[q]
    BY <1>0, <2>3
  <2>6. Prepares(p)'
    BY <1>1, <2>2, <2>3, <2>4, <2>5 DEF Prepares, Admitting, Actual, FilesOf
  <2>7. Claims(p)'
    BY <2>3, <2>5 DEF Claims
  <2> QED BY <2>3, <2>5, <2>6, <2>7
<1>3. CASE Admit(p)
  <2>1. /\ held' = [held EXCEPT ![p] = req[p].need]
        /\ admitting' = None /\ admitting = p
        /\ req'[p].at \in {"admit", "add"} /\ req'[p].keyed = req[p].keyed
        /\ req'[p].at = "add" => held'[p] >= Actual(req'[p].route)
    BY <1>3, AdmissionEnds
  <2>2. req[p].at = "weigh" /\ req[p].op # "retention"
    BY <1>3 DEF Admit
  <2>3. req[p].op # "season" /\ req[p].want # {} /\ req[p].keyed /\ req[p].op \in Preparing
    BY <2>1, <2>2 DEF Prepares, Admitting
  <2>4. \A q \in Requests \ {p} : held'[q] = held[q]
    BY <1>0, <2>1
  <2>5. Prepares(p)'
    BY <1>0, <1>1, <2>1, <2>2, <2>3 DEF Prepares, Admitting, Actual, FilesOf
  <2>6. Claims(p)'
    BY <1>0, <2>1 DEF Claims, Actual, FilesOf
  <2> QED BY <1>0, <2>1, <2>4, <2>5, <2>6
<1> QED BY <1>2, <1>3

(* A request that returns gives its claim back.                            *)
LEMMA ReturnsClaim ==
  ASSUME NEW p \in Requests, Inv, (Proceed(p) /\ ~Calling(p)) \/ Release(p) \/ Fail(p)
  PROVE  /\ reserved' = reserved - held[p] /\ held' = [held EXCEPT ![p] = 0]
         /\ held'[p] = 0 /\ \A q \in Requests \ {p} : held'[q] = held[q]
<1>1. Return(p)
  BY DEF Proceed, Calling, Release, Fail, Finish, EndWeigh, RowGone, TorrentGone, PersistFails
<1> QED BY <1>1 DEF Return, Inv, TypeOK

(* Starting claims nothing.                                                *)
LEMMA StartsClaim ==
  ASSUME NEW p \in Requests, Start(p)
  PROVE  reserved' = reserved /\ held' = held /\ admitting' = admitting
BY DEF Start, Prepare, Acquire, ManageRemove, ManageRemoveFile, ManagePause, ManageRetry,
       PrepareSeason, RunRetention, Begin, claims

(* With one file per torrent, what a request wants is its torrent.         *)
LEMMA WantsTorrent ==
  ASSUME NEW p \in Requests, OneFile, Inv, PathInv, Prepares(p), req[p].keyed
  PROVE  /\ req[p].route \in Routes /\ req[p].want # {}
         /\ \A f \in Files : RouteOf[f] = req[p].route <=> req[p].want = {f}
         /\ \A f \in req[p].want : req[p].want = {f} /\ f \in Files /\ RouteOf[f] = req[p].route
<1>1. /\ req[p].at # "idle" /\ req[p].op # "retention" /\ req[p].want # {}
      /\ req[p].want \subseteq FilesOf(req[p].route) /\ req[p].route \in Routes
  BY DEF Prepares, PathInv, OnPath, Inv, Routed, Preparing
<1> QED BY <1>1 DEF OneFile, FilesOf

(* The claims stay in order.                                               *)
LEMMA ClaimsKept ==
  ASSUME OneFile, Cap > 0, Inv, PathInv, ClaimsInv, [Next]_vars
  PROVE  ClaimsInv'
<1>0. /\ KeysDiffer /\ \A q \in Requests : Prepares(q) /\ Claims(q)
      /\ None \notin Requests
  BY NamesAssumption DEF ClaimsInv
<1>1. ASSUME \A q \in Requests : Prepares(q)' /\ Claims(q)',
             \A q \in Requests : req'[q].keyed => req[q].keyed /\ req'[q].want = req[q].want
      PROVE  ClaimsInv'
  BY <1>0, <1>1 DEF ClaimsInv, KeysDiffer
<1>2. ASSUME NEW p \in Requests, \A q \in Requests : Prepares(q)' /\ Claims(q)',
             \A q \in Requests \ {p} : req'[q] = req[q],
             req'[p].keyed => KeyFree(p, FALSE, req'[p].want)
      PROVE  ClaimsInv'
  <2>1. ASSUME NEW q \in Requests \ {p}, req[q].keyed, req'[p].keyed
        PROVE  req[q].want # req'[p].want
    BY <1>0, <1>2, <2>1 DEF KeyFree, Prepares
  <2> QED BY <1>0, <1>2, <2>1 DEF ClaimsInv, KeysDiffer
<1>3. ASSUME NEW p \in Requests, Calling(p) PROVE ClaimsInv'
  <2>1. Moves(p)
    BY <1>3, CallsMove
  <2>2. CASE Admit(p) \/ EnterAdmission(p)
    <3>1. /\ Prepares(p)' /\ Claims(p)' /\ req'[p].keyed = req[p].keyed
          /\ \A q \in Requests \ {p} : held'[q] = held[q] /\ (admitting' = q => admitting = q)
      BY <1>0, <2>2, AdmissionKeeps
    <3>2. \A q \in Requests \ {p} : Prepares(q)' /\ Claims(q)'
      BY <1>0, <2>1, <3>1, OthersKeep DEF Moves
    <3> QED BY <1>1, <2>1, <3>1, <3>2 DEF Moves
  <2>3. CASE ~Admit(p) /\ ~EnterAdmission(p)
    <3>1. held' = held /\ admitting' = admitting
      BY <1>3, <2>3, PlainCalls
    <3>2. \A q \in Requests \ {p} : Prepares(q)' /\ Claims(q)'
      BY <1>0, <2>1, <3>1, OthersKeep DEF Moves
    <3>3. Prepares(p)' /\ Claims(p)'
      BY <1>0, <1>3, <2>3, PlainKeeps
    <3>4. CASE Enter(p)
      <4>1. KeyFree(p, FALSE, req[p].want)
        BY <3>4 DEF Enter
      <4> QED BY <1>2, <2>1, <3>2, <3>3, <4>1 DEF Moves
    <3>5. CASE ~Enter(p)
      <4>1. req'[p].keyed = req[p].keyed
        BY <1>3, <2>3, <3>5, CallFields
      <4> QED BY <1>1, <2>1, <3>2, <3>3, <4>1 DEF Moves
    <3> QED BY <3>4, <3>5
  <2> QED BY <2>2, <2>3
<1>4. ASSUME NEW p \in Requests, Start(p) PROVE ClaimsInv'
  <2>1. /\ Starts(p) /\ StartsOne(p)
        /\ reserved' = reserved /\ held' = held /\ admitting' = admitting
    BY <1>4, StartsShape, StartFields, StartsClaim
  <2>2. held[p] = 0 /\ admitting # p
    <3>1. held[p] \in Nat /\ req[p].at = "idle"
      BY <2>1 DEF Starts, Inv, TypeOK
    <3> QED BY <1>0, <3>1 DEF Claims, PathInv, OnPath
  <2>3. \A q \in Requests \ {p} : Prepares(q)' /\ Claims(q)'
    BY <1>0, <2>1, OthersKeep DEF Starts
  <2>4. Prepares(p)' /\ Claims(p)'
    <3>1. admitting' # p /\ held'[p] = 0 /\ ~(held'[p] > 0)
      BY <2>1, <2>2
    <3>2. ~Admitting(p)'
      BY <2>1, <3>1 DEF StartsOne, Admitting
    <3>3. Prepares(p)'
      BY <2>1, <3>1, <3>2 DEF StartsOne, Prepares
    <3>4. Claims(p)'
      BY <2>1, <3>1 DEF StartsOne, Claims
    <3> QED BY <3>3, <3>4
  <2> QED BY <1>2, <2>1, <2>3, <2>4 DEF Starts, StartsOne
<1>5. ASSUME NEW p \in Requests, (Proceed(p) /\ ~Calling(p)) \/ Release(p) \/ Fail(p)
      PROVE  ClaimsInv'
  <2>1. /\ req'[p] = Idle /\ \A q \in Requests \ {p} : req'[q] = req[q]
        /\ admitting' = IF admitting = p THEN None ELSE admitting
    BY <1>5, ReturnsShape
  <2>2. held'[p] = 0 /\ \A q \in Requests \ {p} : held'[q] = held[q]
    BY <1>5, ReturnsClaim
  <2>3. \A q \in Requests \ {p} : Prepares(q)' /\ Claims(q)'
    BY <1>0, <2>1, <2>2, OthersKeep
  <2>4. Prepares(p)' /\ Claims(p)'
    BY <1>0, <2>1, <2>2 DEF Prepares, Claims, Admitting, Idle
  <2>5. ~req'[p].keyed
    BY <2>1 DEF Idle
  <2> QED BY <1>1, <2>1, <2>3, <2>4, <2>5
<1>6. CASE Restart
  <2>1. \A q \in Requests : req'[q] = Idle /\ held'[q] = 0 /\ admitting' # q
    BY <1>0, <1>6 DEF Restart
  <2>2. \A q \in Requests : Prepares(q)' /\ Claims(q)' /\ ~req'[q].keyed
    BY <2>1 DEF Prepares, Claims, Admitting, Idle
  <2> QED BY <1>1, <2>2
<1>7. ASSUME UNCHANGED <<claims, req>> PROVE ClaimsInv'
  <2>1. \A q \in Requests : Prepares(q)' /\ Claims(q)'
    BY <1>0, <1>7, OthersKeep DEF claims
  <2> QED BY <1>1, <1>7, <2>1
<1>8. ASSUME NEW f \in Files, Complete(f) PROVE ClaimsInv'
  BY <1>7, <1>8 DEF Complete
<1>9. CASE UNCHANGED vars
  BY <1>7, <1>9 DEF vars, claims
<1> QED BY <1>3, <1>4, <1>5, <1>6, <1>8, <1>9, Zenon DEF Next

(* What a set of rows stores is what their torrents cost.                  *)
LEMMA StoredIsCost ==
  ASSUME OneFile, NEW sel, \A r \in Routes : sel[r] \subseteq FilesOf(r), NEW S \in SUBSET Files
  PROVE  Total([r \in Routes |-> Total(Size, IF sel[r] = {} THEN FilesOf(r) ELSE sel[r])],
               RoutesOf(S)) = Total(Cost, RoutesOf(S))
<1>1. RoutesOf(S) \in SUBSET Routes
  BY CostType
<1> QED BY <1>1, SelectionIsTorrent

LEMMA StoredBytes ==
  ASSUME OneFile, SelectsInv, NEW S \in SUBSET Files
  PROVE  storedBytes(S) = Total(Cost, RoutesOf(S))
<1>1. \A r \in Routes : selected[r] \subseteq FilesOf(r)
  BY DEF SelectsInv
<1> QED BY <1>1, StoredIsCost DEF storedBytes, TotalBytes, Selection

(* A torrent in the table whose request has claimed room is paid for.      *)
LEMMA ClaimCovers ==
  ASSUME OneFile, Inv, PathInv, ClaimsInv, Accounted, NEW p \in Requests, held[p] > 0
  PROVE  /\ req[p].route \in Routes /\ req[p].keyed
         /\ \/ req[p].route \notin Owned
            \/ req[p].at # "admit" /\ Actual(req[p].route) <= held[p]
<1>1. Prepares(p) /\ Claims(p) /\ req[p].keyed
  BY DEF ClaimsInv, Prepares
<1>2. /\ req[p].route \in Routes
      /\ \A f \in Files : RouteOf[f] = req[p].route <=> req[p].want = {f}
  BY <1>1, WantsTorrent
<1>3. CASE req[p].at = "admit"
  <2>1. req[p].want \cap rows = {} /\ rows \subseteq Files
    BY <1>3 DEF Accounted, Admitting, Inv, TypeOK
  <2>2. req[p].route \notin Owned
    BY <1>2, <2>1 DEF Owned, RoutesOf
  <2> QED BY <1>1, <1>2, <2>2
<1>4. CASE req[p].at # "admit"
  <2>1. held[p] >= Actual(req[p].route) /\ held[p] \in Nat /\ Actual(req[p].route) \in Nat
    BY <1>1, <1>2, <1>4, ActualType DEF Claims, Inv, TypeOK
  <2> QED BY <1>1, <1>2, <1>4, <2>1
<1> QED BY <1>3, <1>4

(* What is accounted for fits.                                             *)
LEMMA AccountedFits ==
  ASSUME OneFile, Inv, PathInv, SelectsInv, ClaimsInv, Accounted
  PROVE  OwnedBytes <= Cap
<1> DEFINE U == {f \in rows : RouteOf[f] \in torrents}
           S == Owned \cap Claimed
           R == Owned \ Claimed
           m == [r \in S |-> CHOOSE p \in Claimants : req[p].route = r]
<1>1. rows \subseteq Files /\ held \in [Requests -> Nat] /\ reserved = Total(held, Requests)
  BY DEF Inv, TypeOK, ReservedIsHeld
<1>2. /\ Owned = RoutesOf(U) /\ U \in SUBSET Files
      /\ IsFiniteSet(Owned) /\ Owned \subseteq Routes
      /\ \A r \in Routes : Cost[r] \in Nat /\ Cost[r] = Actual(r)
  <2>1. Owned = RoutesOf(U) /\ U \in SUBSET Files
    BY <1>1 DEF Owned
  <2> QED BY <2>1, CostType
<1>3. IsFiniteSet(S) /\ IsFiniteSet(R) /\ Owned = R \cup S
  BY <1>2, FS_Subset
<1>4. \A r \in Owned : Cost[r] \in Nat
  BY <1>2
<1>5. Total(Cost, Owned) <= Total(Cost, R) + Total(Cost, S)
  <2>1. \A r \in R \cup S : Cost[r] \in Nat
    BY <1>4
  <2> HIDE DEF R, S
  <2> QED BY <1>3, <2>1, TotalUnion
<1>6. ASSUME NEW r \in S
      PROVE  m[r] \in Requests /\ req[m[r]].route = r /\ Cost[r] \in Nat /\ Cost[r] <= held[m[r]]
  <2>1. m[r] \in Claimants /\ req[m[r]].route = r
    BY DEF Claimed
  <2>2. m[r] \in Requests /\ held[m[r]] > 0
    BY <2>1 DEF Claimants
  <2>3. Actual(r) <= held[m[r]]
    BY <2>1, <2>2, ClaimCovers
  <2> QED BY <1>2, <2>1, <2>2, <2>3
<1>7. Total(Cost, S) <= Total(held, Requests)
  <2>1. m \in [S -> Requests]
    BY <1>6
  <2>2. \A x, y \in S : m[x] = m[y] => x = y
    BY <1>6
  <2>3. \A x \in S : Cost[x] \in Nat /\ Cost[x] <= held[m[x]]
    BY <1>6
  <2>4. \A y \in Requests : held[y] \in Nat
    BY <1>1
  <2>5. IsFiniteSet(Requests)
    BY NamesAssumption
  <2> HIDE DEF m, S
  <2> QED BY <2>1, <2>2, <2>3, <2>4, <2>5, TotalPaid
<1>8. Total(Cost, R) + reserved <= Cap
  BY DEF Accounted
<1>9. OwnedBytes = Total(Cost, Owned)
  BY <1>2, StoredBytes DEF OwnedBytes
<1>10. /\ Total(Cost, R) \in Nat /\ Total(Cost, S) \in Nat /\ Total(Cost, Owned) \in Nat
       /\ reserved \in Nat /\ Cap \in Nat
  <2>1. Total(Cost, R) \in Nat
    BY <1>3, <1>4, TotalFinite
  <2>2. Total(Cost, S) \in Nat
    BY <1>3, <1>4, TotalFinite
  <2>3. Total(Cost, Owned) \in Nat
    BY <1>2, <1>4, TotalFinite
  <2> QED BY <2>1, <2>2, <2>3, CountsAssumption DEF Inv, TypeOK
<1> HIDE DEF R, S
<1> QED BY <1>1, <1>5, <1>7, <1>8, <1>9, <1>10

(* Room for torrents beside claims stays room when both only get less.     *)
LEMMA LessFits ==
  ASSUME Inv, NEW R \in SUBSET Routes, IsFiniteSet(R), NEW Q \in SUBSET R,
         NEW a \in Nat, NEW b \in Nat, b <= a, Total(Cost, R) + a <= Cap
  PROVE  Total(Cost, Q) + b <= Cap
<1>1. \A r \in R : Cost[r] \in Nat
  BY CostType
<1>2. Total(Cost, Q) <= Total(Cost, R) /\ Total(Cost, Q) \in Nat /\ Total(Cost, R) \in Nat
  BY <1>1, TotalMono
<1> QED BY <1>2, CountsAssumption

(* A call that brings a row into the table moves its request on.           *)
LEMMA RowSavers ==
  ASSUME NEW p \in Requests, Inv, Calling(p), NEW f \in rows' \ rows
  PROVE  /\ req'[p] # req[p]
         /\ \/ req[p].at \in {"reuseSave", "touch"}
            \/ req[p].at = "save" /\ f \in req[p].seen
<1>0. req \in [Requests -> Request] /\ req[p] \in Request
  BY FieldTypes DEF Inv, TypeOK
<1>1. rows' \subseteq rows \/ ReuseSave(p) \/ SaveRow(p) \/ Touch(p)
  BY DEF Calling, Enter, Find, List, Reuse, ManagedLocal, ManagedStatus,
         managedTorrentIndices, SelectFiles, EnterAdmission, Survey, Admit,
         ChooseVictim, EngineAdd, EngineRemove, ForgetList, ForgetRow, DeleteRow,
         DeleteDownload, Remaining, TouchList, Lease, Persist, table
<1>2. CASE ReuseSave(p)
  <2>1. req'[p].at = "managed" /\ req[p].at = "reuseSave"
    BY <1>0, <1>2 DEF ReuseSave, Request
  <2> QED BY <2>1
<1>3. CASE SaveRow(p)
  <2>1. PICK g \in req[p].seen :
          /\ SaveDownload(g, req[p].flags)
          /\ req' = [req EXCEPT ![p].seen = @ \ {g}, ![p].flags = @ \ {g},
                             ![p].at = IF req[p].seen = {g} THEN AfterSave(p) ELSE @,
                             ![p].hashed = IF req[p].seen = {g} THEN FALSE ELSE @]
    BY <1>3 DEF SaveRow
  <2>2. req'[p].seen = req[p].seen \ {g}
    BY <1>0, <2>1 DEF Request
  <2>3. f = g
    BY <2>1 DEF SaveDownload
  <2>4. req[p].at = "save"
    BY <1>3 DEF SaveRow
  <2> QED BY <2>1, <2>2, <2>3, <2>4
<1>4. CASE Touch(p)
  <2>1. PICK g \in req[p].seen :
          req' = [req EXCEPT ![p].seen = @ \ {g}, ![p].flags = @ \ {g},
                             ![p].at = IF req[p].seen = {g} THEN "finish" ELSE @]
    BY <1>4 DEF Touch
  <2>2. req'[p].seen = req[p].seen \ {g}
    BY <1>0, <2>1 DEF Request
  <2>3. req[p].at = "touch"
    BY <1>4 DEF Touch
  <2> QED BY <2>1, <2>2, <2>3
<1> QED BY <1>1, <1>2, <1>3, <1>4

(* Unless a torrent is adopted, a row comes into the table by the request  *)
(* that has claimed room for its torrent.                                  *)
LEMMA RowsGrow ==
  ASSUME OneFile, Inv, PathInv, ClaimsInv, Next, ~Adopts, NEW f \in rows' \ rows
  PROVE  \E p \in Requests : /\ held[p] > 0 /\ req[p].at = "save" /\ req[p].keyed
                             /\ req[p].want = {f} /\ req[p].route = RouteOf[f]
<1>0. f \in Files /\ rows \subseteq Files
  BY NextKeeps DEF Inv, TypeOK
<1>1. PICK p \in Requests : Calling(p)
  <2>1. [Next]_vars
    OBVIOUS
  <2>2. Restart => rows' = rows
    BY DEF Restart
  <2> QED BY <2>1, <2>2, StepShape, StartsShape, ReturnsShape
<1>2. /\ req'[p] # req[p]
      /\ \/ req[p].at \in {"reuseSave", "touch"}
         \/ req[p].at = "save" /\ f \in req[p].seen
  BY <1>1, RowSavers
<1>3. RouteOf[f] \in RoutesOf(rows') \ RoutesOf(rows)
  BY <1>0 DEF OneFile, RoutesOf
<1>4. held[p] # 0 /\ held[p] \in Nat
  BY <1>2, <1>3 DEF Adopts, Inv, TypeOK
<1>5. held[p] > 0
  BY <1>4
<1>6. Prepares(p) /\ Claims(p) /\ OnPath(p)
  BY DEF ClaimsInv, PathInv
<1>7. req[p].at = "save" /\ f \in req[p].want /\ req[p].keyed
  BY <1>2, <1>5, <1>6 DEF Claims, Prepares, OnPath
<1>8. req[p].want = {f} /\ RouteOf[f] = req[p].route
  BY <1>6, <1>7, WantsTorrent
<1> QED BY <1>5, <1>7, <1>8

(* So every torrent that comes into the table is claimed ...               *)
LEMMA OwnedGrows ==
  ASSUME OneFile, Inv, PathInv, ClaimsInv, Accounted, Next, ~Adopts
  PROVE  Owned' \subseteq Owned \cup Claimed
<1> SUFFICES ASSUME NEW f \in rows', RouteOf[f] \in torrents', RouteOf[f] \notin Claimed
             PROVE  RouteOf[f] \in Owned
  BY DEF Owned, RoutesOf
<1>1. f \in rows
  BY RowsGrow DEF Claimed, Claimants
<1>2. RouteOf[f] \in torrents
  <2> SUFFICES ASSUME RouteOf[f] \notin torrents PROVE FALSE
    OBVIOUS
  <2>1. PICK p \in Requests : Calling(p)
    <3>1. [Next]_vars
      OBVIOUS
    <3>2. Restart => torrents' = torrents
      BY DEF Restart, engine
    <3> QED BY <3>1, <3>2, StepShape, StartsShape, ReturnsShape
  <2>2. req[p].at = "add" /\ req[p].route = RouteOf[f]
    BY <2>1, TablesMove DEF EngineRemove, Remove
  <2>3. Prepares(p) /\ Admitting(p) /\ req[p].keyed
    BY <2>2 DEF ClaimsInv, Admitting, Prepares
  <2>4. f \in Files
    BY <1>1 DEF Inv, TypeOK
  <2>5. req[p].want = {f}
    BY <2>2, <2>3, <2>4, WantsTorrent
  <2>6. req[p].want \cap rows = {}
    BY <2>3 DEF Accounted
  <2> QED BY <1>1, <2>5, <2>6
<1> QED BY <1>1, <1>2 DEF Owned, RoutesOf

(* ... what is on its way through an admission does not come into the      *)
(* table by somebody else ...                                              *)
LEMMA AdmittingStays ==
  ASSUME OneFile, Inv, PathInv, ClaimsInv, Accounted, Next, ~Adopts,
         NEW q \in Requests, Admitting(q)
  PROVE  req[q].want \cap rows' = {}
<1> SUFFICES ASSUME NEW f \in req[q].want, f \in rows' PROVE FALSE
  OBVIOUS
<1>1. f \notin rows
  BY DEF Accounted
<1>2. PICK p \in Requests : /\ held[p] > 0 /\ req[p].at = "save" /\ req[p].keyed
                            /\ req[p].want = {f} /\ req[p].route = RouteOf[f]
  BY <1>1, RowsGrow
<1>3. Prepares(q) /\ req[q].keyed
  BY DEF ClaimsInv, Prepares
<1>4. req[q].want = {f}
  BY <1>3, WantsTorrent
<1>5. p = q
  BY <1>2, <1>3, <1>4 DEF ClaimsInv, KeysDiffer
<1>6. Claims(q)
  BY DEF ClaimsInv
<1> QED BY <1>2, <1>5, <1>6 DEF Admitting, Claims

(* ... and a row that the survey has not seen is one of a claimed torrent. *)
LEMMA SurveySees ==
  ASSUME OneFile, Inv, PathInv, ClaimsInv, Accounted, Next, ~Adopts,
         NEW q \in Requests, admitting = q, req[q].at = "weigh",
         NEW f \in rows' \ req[q].seen
  PROVE  RouteOf[f] \in Claimed
<1>1. CASE f \in rows
  BY <1>1 DEF Accounted
<1>2. CASE f \notin rows
  BY <1>2, RowsGrow DEF Claimed, Claimants
<1> QED BY <1>1, <1>2

(* Claims that go on cover what they covered.                              *)
LEMMA ClaimsStay ==
  ASSUME \A q \in Requests : held[q] > 0 => held'[q] > 0 /\ req'[q].route = req[q].route
  PROVE  Claimed \subseteq Claimed'
<1> SUFFICES ASSUME NEW q \in Requests, held[q] > 0 PROVE req[q].route \in Claimed'
  BY DEF Claimed, Claimants
<1>1. q \in Claimants' /\ req'[q].route = req[q].route
  BY DEF Claimants
<1> QED BY <1>1 DEF Claimed

(* What is in the table and what is claimed before a step.                 *)
LEMMA Sets ==
  ASSUME Inv, ClaimsInv, Accounted
  PROVE  /\ Owned \subseteq Routes /\ IsFiniteSet(Owned)
         /\ Owned \ Claimed \in SUBSET Routes /\ IsFiniteSet(Owned \ Claimed)
         /\ reserved \in Nat /\ Total(Cost, Owned \ Claimed) + reserved <= Cap
<1>1. Owned \subseteq Routes /\ IsFiniteSet(Owned)
  BY CostType DEF Owned, Inv, TypeOK
<1>2. IsFiniteSet(Owned \ Claimed)
  BY <1>1, FS_Subset
<1>3. reserved \in Nat /\ Total(Cost, Owned \ Claimed) + reserved <= Cap
  BY DEF Inv, TypeOK, Accounted
<1> QED BY <1>1, <1>2, <1>3

(* A claim that is given back made room for its torrent, at least.         *)
LEMMA GivingUpFits ==
  ASSUME OneFile, Inv, PathInv, ClaimsInv, Accounted, NEW p \in Requests,
         UNCHANGED <<rows, torrents>>, reserved' \in Nat,
         reserved' = reserved - held[p], held'[p] = 0,
         \A q \in Requests \ {p} : held'[q] = held[q] /\ req'[q] = req[q]
  PROVE  (Total(Cost, Owned \ Claimed) + reserved <= Cap)'
<1> DEFINE S == Owned \ Claimed
           T == Owned' \ Claimed'
           c == req[p].route
<1>1. /\ Owned \subseteq Routes /\ IsFiniteSet(S) /\ S \in SUBSET Routes
      /\ reserved \in Nat /\ Total(Cost, S) + reserved <= Cap
  BY Sets
<1>2. Owned' = Owned /\ held[p] \in Nat
  BY DEF Owned, RoutesOf, Inv, TypeOK
<1>3. Claimed \subseteq Claimed' \cup {c}
  <2> SUFFICES ASSUME NEW q \in Requests, held[q] > 0, q # p PROVE req[q].route \in Claimed'
    BY DEF Claimed, Claimants
  <2>1. q \in Claimants' /\ req'[q].route = req[q].route
    BY DEF Claimants
  <2> QED BY <2>1 DEF Claimed
<1>4. CASE T \subseteq S
  <2>1. reserved' <= reserved
    BY <1>1, <1>2
  <2> HIDE DEF S, T
  <2>2. Total(Cost, T) + reserved' <= Cap
    BY <1>1, <1>4, <2>1, LessFits
  <2> QED BY <2>2 DEF T
<1>5. CASE held[p] = 0
  <2>1. Claimed \subseteq Claimed'
    BY <1>5, ClaimsStay
  <2> QED BY <1>2, <1>4, <2>1
<1>6. CASE held[p] # 0 /\ c \notin Owned
  BY <1>2, <1>3, <1>4, <1>6
<1>7. CASE held[p] # 0 /\ c \in Owned
  <2>1. held[p] > 0
    BY <1>2, <1>7
  <2>2. c \in Routes /\ Actual(c) <= held[p]
    BY <1>7, <2>1, ClaimCovers
  <2>3. T \subseteq S \cup {c}
    BY <1>2, <1>3
  <2>4. /\ Cost[c] \in Nat /\ Cost[c] <= held[p]
        /\ \A y \in S : Cost[y] \in Nat
    BY <1>1, <2>2, CostType
  <2> HIDE DEF S, T, c
  <2>5. Total(Cost, T) <= Total(Cost, S) + Cost[c]
    BY <1>1, <2>3, <2>4, TotalOneMore
  <2>6. Total(Cost, S) \in Nat /\ Total(Cost, T) \in Nat
    <3>1. IsFiniteSet(S \cup {c})
      BY <1>1, FS_AddElement
    <3>2. IsFiniteSet(T) /\ \A y \in T : Cost[y] \in Nat
      BY <2>3, <2>4, <3>1, FS_Subset
    <3>3. Total(Cost, T) \in Nat
      BY <3>2, TotalFinite
    <3>4. Total(Cost, S) \in Nat
      BY <1>1, <2>4, TotalFinite
    <3> QED BY <3>3, <3>4
  <2>7. Total(Cost, T) + reserved' <= Cap
    BY <1>1, <1>2, <2>4, <2>5, <2>6, CountsAssumption
  <2> QED BY <2>7 DEF T
<1> QED BY <1>5, <1>6, <1>7

(* A step that gives no claim back, and claims nothing, keeps the account. *)
LEMMA GrowingFits ==
  ASSUME OneFile, Inv, PathInv, ClaimsInv, Accounted, Next, ~Adopts,
         reserved' = reserved, Claimed \subseteq Claimed'
  PROVE  (Total(Cost, Owned \ Claimed) + reserved <= Cap)'
<1> DEFINE S == Owned \ Claimed
           T == Owned' \ Claimed'
<1>1. /\ IsFiniteSet(S) /\ S \in SUBSET Routes
      /\ reserved \in Nat /\ Total(Cost, S) + reserved <= Cap
  BY Sets
<1>2. T \subseteq S
  BY OwnedGrows
<1>3. reserved' \in Nat /\ reserved' <= reserved
  BY <1>1
<1> HIDE DEF S, T
<1>4. Total(Cost, T) + reserved' <= Cap
  BY <1>1, <1>2, <1>3, LessFits
<1> QED BY <1>4 DEF T

(* Who is let in fits beside all there is.                                 *)
LEMMA AdmittedFits ==
  ASSUME OneFile, Cap > 0, Inv, PathInv, SelectsInv, ClaimsInv, Accounted,
         NEW p \in Requests, Admit(p)
  PROVE  (Total(Cost, Owned \ Claimed) + reserved <= Cap)'
<1> DEFINE S == RoutesOf(Surveyed(p))
           T == Owned' \ Claimed'
           n == req[p].need
<1>1. /\ held' = [held EXCEPT ![p] = n] /\ reserved' = reserved + n
      /\ admitting = p /\ held[p] = 0
  BY AdmissionEnds DEF ClaimsInv
<1>2. /\ req[p].at = "weigh" /\ req[p].op # "retention" /\ ~Deficit(p)
      /\ UNCHANGED <<rows, torrents>>
  BY DEF Admit, table, engine
<1>3. /\ Surveyed(p) \in SUBSET Files /\ n \in Nat /\ reserved \in Nat
      /\ held \in [Requests -> Nat]
  BY FieldTypes DEF Surveyed, Inv, TypeOK
<1>4. S \in SUBSET Routes /\ IsFiniteSet(S) /\ \A r \in S : Cost[r] \in Nat
  BY <1>3, CostType
<1>5. storedBytes(Surveyed(p)) = Total(Cost, S)
  BY <1>3, StoredBytes
<1>6. Total(Cost, S) + (n + reserved) <= Cap
  <2>1. Weight(p) = Total(Cost, S) + (n + reserved)
    BY <1>2, <1>5 DEF Weight
  <2>2. Total(Cost, S) \in Nat
    BY <1>4, TotalFinite
  <2>3. ~(Weight(p) > Cap)
    BY <1>2 DEF Deficit
  <2> QED BY <1>3, <2>1, <2>2, <2>3, CountsAssumption
<1>7. Claimed \subseteq Claimed'
  <2>1. Moves(p)
    BY CallsMove DEF Calling
  <2>2. \A q \in Requests : held[q] > 0 => held'[q] > 0 /\ req'[q].route = req[q].route
    BY <1>1, <1>3, <2>1 DEF Moves
  <2> QED BY <2>2, ClaimsStay
<1>8. Owned' = Owned
  BY <1>2 DEF Owned, RoutesOf
<1>9. Owned \ Claimed \subseteq S
  BY <1>1, <1>2 DEF Owned, RoutesOf, Surveyed, Accounted
<1>10. T \subseteq S
  BY <1>7, <1>8, <1>9
<1>11. n + reserved \in Nat /\ reserved' = n + reserved
  BY <1>1, <1>3
<1> HIDE DEF S, T, n
<1>12. Total(Cost, T) + reserved' <= Cap
  BY <1>4, <1>6, <1>10, <1>11, LessFits
<1> QED BY <1>12 DEF T

(* The account is kept when, besides, whoever is on its way through an     *)
(* admission was so before or has no row yet, and the deciding request saw *)
(* the table or decides still.                                             *)
LEMMA AccountedIf ==
  ASSUME OneFile, Inv, PathInv, ClaimsInv, Accounted, Next, ~Adopts,
         (Total(Cost, Owned \ Claimed) + reserved <= Cap)',
         \A q \in Requests : Admitting(q)' =>
            \/ Admitting(q) /\ req'[q].want = req[q].want
            \/ req'[q].want \cap rows' = {},
         \A q \in Requests : admitting' = q /\ req'[q].at = "weigh" =>
            \/ rows' \subseteq req'[q].seen
            \/ admitting = q /\ req'[q] = req[q] /\ Claimed \subseteq Claimed'
  PROVE  Accounted'
<1>1. ASSUME NEW q \in Requests, Admitting(q)' PROVE req'[q].want \cap rows' = {}
  BY <1>1, AdmittingStays
<1>2. ASSUME NEW q \in Requests, admitting' = q, req'[q].at = "weigh", NEW f \in rows' \ req'[q].seen
      PROVE  RouteOf[f] \in Claimed'
  <2>1. admitting = q /\ req'[q] = req[q] /\ Claimed \subseteq Claimed'
    BY <1>2
  <2>2. RouteOf[f] \in Claimed
    BY <1>2, <2>1, SurveySees
  <2> QED BY <2>1, <2>2
<1> QED BY <1>1, <1>2 DEF Accounted

(* List sends a request to its admission when the table has no row of its  *)
(* torrent.                                                                *)
LEMMA ListAdmits ==
  ASSUME NEW p \in Requests, Inv, PathInv, Prepares(p), List(p), req'[p].at \in {"admit", "add"}
  PROVE  req'[p].want \cap rows' = {}
<1>1. PICK a : Goto(p, a) /\ a = IF rows \cap FilesOf(req[p].route) = {} THEN "admit"
                                 ELSE IF req[p].op = "season" THEN "indices" ELSE "reuse"
  BY DEF List, Prepares
<1>2. req'[p].at = a /\ req'[p].want = req[p].want /\ rows' = rows /\ req[p].at = "list"
  <2>1. req'[p].at = a /\ req'[p].want = req[p].want
    BY <1>1, FieldTypes DEF Goto, Inv, TypeOK, Request
  <2>2. rows' = rows /\ req[p].at = "list"
    BY DEF List, table
  <2> QED BY <2>1, <2>2
<1>3. rows \cap FilesOf(req[p].route) = {}
  BY <1>1, <1>2
<1>4. req[p].op # "retention" /\ req[p].want \subseteq FilesOf(req[p].route)
  BY <1>2 DEF PathInv, OnPath, Preparing
<1> QED BY <1>2, <1>3, <1>4

(* Every step that neither adopts a torrent nor lets one slip keeps the    *)
(* account.                                                                *)
LEMMA AccountedKept ==
  ASSUME OneFile, Cap > 0, Inv, PathInv, SelectsInv, ClaimsInv, Accounted, Next, ~Adopts, ~Slips
  PROVE  Accounted'
<1>0. /\ \A q \in Requests : Prepares(q) /\ Claims(q) /\ OnPath(q)
      /\ None \notin Requests /\ reserved' \in Nat /\ held \in [Requests -> Nat]
  <2>1. reserved' \in Nat
    BY NextKeeps DEF Inv, TypeOK
  <2> QED BY <2>1, NamesAssumption DEF ClaimsInv, PathInv, Inv, TypeOK
<1>1. ASSUME NEW p \in Requests, Calling(p) PROVE Accounted'
  <2>1. Moves(p)
    BY <1>1, CallsMove
  <2>2. /\ \A q \in Requests \ {p} : req'[q] = req[q]
        /\ req'[p].want = req[p].want /\ req'[p].route = req[p].route
    BY <2>1 DEF Moves
  <2>3. CASE EnterAdmission(p)
    <3>1. req[p].at = "admit" /\ UNCHANGED <<rows, torrents>>
      BY <2>3 DEF EnterAdmission, table, engine
    <3>2. req[p].op # "retention" /\ Routed
      BY <3>1 DEF Inv, Routed
    <3>3. /\ held' = [held EXCEPT ![p] = 0] /\ reserved' = reserved - held[p]
          /\ admitting' = p /\ req'[p].at = "survey"
      BY <2>3, <3>2, AdmissionEnters
    <3>4. held'[p] = 0 /\ \A q \in Requests \ {p} : held'[q] = held[q] /\ req'[q] = req[q]
      BY <1>0, <2>2, <3>3
    <3>5. (Total(Cost, Owned \ Claimed) + reserved <= Cap)'
      BY <1>0, <3>1, <3>3, <3>4, GivingUpFits
    <3>6. ASSUME NEW q \in Requests, Admitting(q)'
          PROVE  Admitting(q) /\ req'[q].want = req[q].want
      BY <2>2, <3>1, <3>3, <3>6 DEF Admitting
    <3>7. \A q \in Requests : ~(admitting' = q /\ req'[q].at = "weigh")
      BY <3>3
    <3> QED BY <3>5, <3>6, <3>7, AccountedIf
  <2>4. CASE Admit(p)
    <3>1. admitting' = None /\ admitting = p
      BY <1>0, <2>4, AdmissionEnds
    <3>2. (Total(Cost, Owned \ Claimed) + reserved <= Cap)'
      BY <2>4, AdmittedFits
    <3>3. ASSUME NEW q \in Requests, Admitting(q)'
          PROVE  Admitting(q) /\ req'[q].want = req[q].want
      BY <1>0, <2>2, <3>1, <3>3 DEF Admitting
    <3>4. \A q \in Requests : admitting' # q
      BY <1>0, <3>1
    <3> QED BY <3>2, <3>3, <3>4, AccountedIf
  <2>5. CASE ~EnterAdmission(p) /\ ~Admit(p)
    <3>1. /\ reserved' = reserved /\ held' = held /\ admitting' = admitting
          /\ req'[p].at \notin {"admit", "add"} \/ List(p)
      BY <1>1, <2>5, PlainCalls
    <3>2. Claimed \subseteq Claimed'
      BY <2>2, <3>1, ClaimsStay
    <3>3. (Total(Cost, Owned \ Claimed) + reserved <= Cap)'
      BY <3>1, <3>2, GrowingFits
    <3>4. ASSUME NEW q \in Requests, Admitting(q)'
          PROVE  \/ Admitting(q) /\ req'[q].want = req[q].want
                 \/ req'[q].want \cap rows' = {}
      <4>1. CASE q = p /\ req'[p].at \in {"admit", "add"}
        <5>1. List(p)
          BY <3>1, <4>1
        <5> QED BY <1>0, <4>1, <5>1, ListAdmits
      <4>2. CASE q # p \/ req'[p].at \notin {"admit", "add"}
        BY <2>2, <3>1, <3>4, <4>2 DEF Admitting
      <4> QED BY <4>1, <4>2
    <3>5. ASSUME NEW q \in Requests, admitting' = q, req'[q].at = "weigh"
          PROVE  \/ rows' \subseteq req'[q].seen
                 \/ admitting = q /\ req'[q] = req[q] /\ Claimed \subseteq Claimed'
      <4>1. CASE q = p
        <5>1. Survey(p) /\ req'[p].seen = rows
          BY <2>1, <3>5, <4>1 DEF Moves, Leads, Hop, AfterForget
        <5>2. rows' = rows
          BY <5>1 DEF Survey, table
        <5> QED BY <4>1, <5>1, <5>2
      <4>2. CASE q # p
        BY <2>2, <3>1, <3>2, <3>5, <4>2
      <4> QED BY <4>1, <4>2
    <3> QED BY <3>3, <3>4, <3>5, AccountedIf
  <2> QED BY <2>3, <2>4, <2>5
<1>2. ASSUME NEW p \in Requests, Start(p) PROVE Accounted'
  <2>1. /\ Starts(p) /\ StartsOne(p)
        /\ reserved' = reserved /\ held' = held /\ admitting' = admitting
    BY <1>2, StartsShape, StartFields, StartsClaim
  <2>2. /\ req[p].at = "idle" /\ \A q \in Requests \ {p} : req'[q] = req[q]
        /\ req'[p].at \notin {"admit", "add"}
    BY <2>1 DEF Starts, StartsOne
  <2>3. ~(held[p] > 0) /\ admitting # p
    BY <1>0, <2>2 DEF Claims, OnPath
  <2>4. Claimed \subseteq Claimed'
    BY <2>1, <2>2, <2>3, ClaimsStay
  <2>5. (Total(Cost, Owned \ Claimed) + reserved <= Cap)'
    BY <2>1, <2>4, GrowingFits
  <2>6. ASSUME NEW q \in Requests, Admitting(q)'
        PROVE  Admitting(q) /\ req'[q].want = req[q].want
    BY <2>1, <2>2, <2>3, <2>6 DEF Admitting
  <2>7. ASSUME NEW q \in Requests, admitting' = q
        PROVE  admitting = q /\ req'[q] = req[q] /\ Claimed \subseteq Claimed'
    BY <2>1, <2>2, <2>3, <2>4, <2>7
  <2> QED BY <2>5, <2>6, <2>7, AccountedIf
<1>3. ASSUME NEW p \in Requests, (Proceed(p) /\ ~Calling(p)) \/ Release(p) \/ Fail(p)
      PROVE  Accounted'
  <2>1. /\ req'[p] = Idle /\ \A q \in Requests \ {p} : req'[q] = req[q]
        /\ admitting' = IF admitting = p THEN None ELSE admitting
        /\ UNCHANGED <<rows, torrents>>
    BY <1>3, ReturnsShape
  <2>2. /\ reserved' = reserved - held[p]
        /\ held'[p] = 0 /\ \A q \in Requests \ {p} : held'[q] = held[q]
    BY <1>3, ReturnsClaim
  <2>3. (Total(Cost, Owned \ Claimed) + reserved <= Cap)'
    BY <1>0, <2>1, <2>2, GivingUpFits
  <2>4. ASSUME NEW q \in Requests, Admitting(q)'
        PROVE  Admitting(q) /\ req'[q].want = req[q].want
    <3>1. q # p
      BY <1>0, <2>1, <2>4 DEF Admitting, Idle
    <3> QED BY <1>0, <2>1, <2>4, <3>1 DEF Admitting
  <2>5. ASSUME NEW q \in Requests, admitting' = q, req'[q].at = "weigh"
        PROVE  admitting = q /\ req'[q] = req[q] /\ Claimed \subseteq Claimed'
    <3>1. q # p /\ admitting = q /\ req'[q] = req[q]
      BY <1>0, <2>1, <2>5 DEF Idle
    <3>2. held[p] = 0
      <4>1. held[p] \in Nat
        BY <1>0
      <4> QED BY <2>2, <2>5, <3>1, <4>1 DEF Slips
    <3>3. Claimed \subseteq Claimed'
      BY <2>1, <2>2, <3>2, ClaimsStay
    <3> QED BY <3>1, <3>3
  <2> QED BY <2>3, <2>4, <2>5, AccountedIf
<1>4. CASE Restart
  <2>1. /\ reserved' = 0 /\ admitting' = None /\ UNCHANGED <<rows, engine>>
        /\ \A q \in Requests : held'[q] = 0 /\ req'[q] = Idle
    BY <1>4 DEF Restart
  <2>2. \A q \in Requests : ~Admitting(q)' /\ admitting' # q
    BY <1>0, <2>1 DEF Admitting, Idle
  <2>3. Claimed' = {} /\ Owned' = Owned
    BY <2>1 DEF Claimed, Claimants, Owned, RoutesOf, engine
  <2>4. OwnedBytes <= Cap
    BY AccountedFits
  <2>5. OwnedBytes = Total(Cost, Owned) /\ Owned \ {} = Owned
    BY StoredBytes DEF OwnedBytes, Owned, Inv, TypeOK
  <2>6. Total(Cost, Owned) \in Nat
    <3>1. \A r \in Owned : Cost[r] \in Nat
      BY Sets, CostType
    <3> QED BY <3>1, Sets, TotalFinite
  <2>7. Total(Cost, Owned' \ Claimed') + reserved' <= Cap
    BY <2>1, <2>3, <2>4, <2>5, <2>6, CountsAssumption
  <2> QED BY <2>2, <2>7, AccountedIf
<1>5. ASSUME NEW f \in Files, Complete(f) PROVE Accounted'
  <2>1. UNCHANGED <<rows, torrents, reserved, held, admitting, req>>
    BY <1>5 DEF Complete, table, claims
  <2>2. Claimed \subseteq Claimed'
    BY <2>1, ClaimsStay
  <2>3. (Total(Cost, Owned \ Claimed) + reserved <= Cap)'
    BY <2>1, <2>2, GrowingFits
  <2>4. \A q \in Requests : Admitting(q)' => Admitting(q) /\ req'[q].want = req[q].want
    BY <2>1 DEF Admitting
  <2>5. \A q \in Requests : admitting' = q => admitting = q /\ req'[q] = req[q]
    BY <2>1
  <2> QED BY <2>2, <2>3, <2>4, <2>5, AccountedIf
<1> QED BY <1>1, <1>2, <1>3, <1>4, <1>5, Zenon DEF Next

(* When every request has returned and the table fits, it is accounted     *)
(* for again.                                                              *)
LEMMA ExcuseEnds ==
  ASSUME OneFile, Cap > 0, HNext, Inv', PathInv', SelectsInv', ClaimsInv',
         excused \/ Slips \/ Adopts, ~excused'
  PROVE  Accounted'
<1>1. ~(OwnedBytes' > Cap) /\ \A q \in Requests : req'[q].at = "idle"
  BY DEF HNext, ExcuseStep
<1>2. OwnedBytes' = Total(Cost, Owned') /\ IsFiniteSet(Owned') /\ Owned' \subseteq Routes
  <2> DEFINE U == {f \in rows' : RouteOf[f] \in torrents'}
  <2>1. U \in SUBSET Files /\ Owned' = RoutesOf(U)
    BY DEF Inv, TypeOK, Owned, RoutesOf
  <2>2. \A r \in Routes : selected'[r] \subseteq FilesOf(r)
    BY DEF SelectsInv, FilesOf
  <2>3. OwnedBytes' = Total([r \in Routes |-> Total(Size, IF selected'[r] = {} THEN FilesOf(r)
                                                          ELSE selected'[r])], RoutesOf(U))
    BY DEF OwnedBytes, storedBytes, TotalBytes, Selection, FilesOf, RoutesOf
  <2> HIDE DEF U
  <2>4. OwnedBytes' = Total(Cost, RoutesOf(U))
    BY <2>1, <2>2, <2>3, StoredIsCost
  <2> QED BY <2>1, <2>4, CostType
<1>3. Total(Cost, Owned') \in Nat
  <2>1. \A r \in Owned' : Cost[r] \in Nat
    BY <1>2, CostType
  <2> QED BY <1>2, <2>1, TotalFinite
<1>4. ASSUME NEW q \in Requests PROVE held'[q] = 0 /\ ~Admitting(q)'
  <2>1. /\ Claims(q)' /\ OnPath(q)' /\ held'[q] \in Nat /\ req'[q].at = "idle"
    BY <1>1 DEF ClaimsInv, PathInv, Inv, TypeOK
  <2>2. ~(held'[q] > 0)
    BY <2>1 DEF Claims
  <2>3. ~Admitting(q)'
    BY <2>1 DEF OnPath, Admitting
  <2> QED BY <2>1, <2>2, <2>3
<1>5. reserved' = 0
  <2>1. held' = [q \in Requests |-> 0]
    BY <1>4 DEF Inv, TypeOK
  <2>2. reserved' = Total(held', Requests)
    BY DEF Inv, ReservedIsHeld
  <2> QED BY <2>1, <2>2, TotalZero
<1>6. Claimed' = {}
  BY <1>4 DEF Claimed, Claimants
<1>7. Total(Cost, Owned' \ Claimed') + reserved' <= Cap
  <2>1. Owned' \ Claimed' = Owned'
    BY <1>6
  <2>2. Total(Cost, Owned' \ Claimed') = Total(Cost, Owned')
    BY <2>1, Zenon
  <2> QED BY <1>1, <1>2, <1>3, <1>5, <2>2, CountsAssumption
<1> QED BY <1>4, <1>7 DEF Accounted, Admitting

(* Concurrent admissions of films and single episodes never add up to more *)
(* than the Allocation, for any number of requests, any sizes, any cap and *)
(* whatever the trackers declare: while no claim slips between a survey    *)
(* and its decision and no torrent comes into the table without a claim    *)
(* (the two gaps Slips and Adopts name), what is in the table and claimed  *)
(* by nobody fits beside the claims, and a claim covers its torrent.  With *)
(* several files in a torrent it is not true: prepareExistingTorrentFile   *)
(* brings a sibling of a managed file without an admission.                *)
THEOREM AdmissionsFitTheorem ==
  ASSUME OneFile
  PROVE  HSpec => []AdmissionsFit
<1> DEFINE I == Cap > 0 => Inv /\ PathInv /\ SelectsInv /\ ClaimsInv /\ AccountedInv
<1>1. HInit => I
  <2> SUFFICES ASSUME HInit, Cap > 0 PROVE I
    OBVIOUS
  <2>1. Inv /\ PathInv
    BY InitHolds, PathHolds DEF HInit
  <2>2. \A q \in Requests : req[q] = Idle /\ held[q] = 0 /\ admitting # q
    BY NamesAssumption DEF HInit, Init
  <2>3. SelectsInv
    BY <2>2 DEF HInit, Init, SelectsInv, Selects, Idle
  <2>4. ClaimsInv
    BY <2>2 DEF ClaimsInv, KeysDiffer, Prepares, Claims, Admitting, Idle
  <2>5. Accounted
    <3>1. Owned \ Claimed = {} /\ reserved = 0
      BY DEF HInit, Init, Owned, RoutesOf
    <3>2. Total(Cost, Owned \ Claimed) = 0
      <4>1. UNION {{x} \X (1 .. Cost[x]) : x \in {}} = {}
        OBVIOUS
      <4> QED BY <3>1, <4>1, FS_EmptySet DEF Total
    <3>3. \A q \in Requests : ~Admitting(q)
      BY <2>2 DEF Admitting, Idle
    <3> QED BY <3>1, <3>2, <3>3, CountsAssumption DEF Accounted, Admitting
  <2> QED BY <2>1, <2>3, <2>4, <2>5 DEF AccountedInv
<1>2. I /\ [HNext]_<<vars, history>> => I'
  <2> SUFFICES ASSUME I, Cap > 0, [HNext]_<<vars, history>> PROVE I'
    OBVIOUS
  <2>1. [Next]_vars
    BY DEF HNext
  <2>2. Inv' /\ PathInv'
    BY <2>1, NextKeeps, PathKept
  <2>3. SelectsInv'
    BY <2>1, SelectsKept
  <2>4. ClaimsInv'
    BY <2>1, ClaimsKept
  <2>5. CASE HNext
    <3>1. CASE excused'
      BY <2>2, <2>3, <2>4, <3>1 DEF AccountedInv
    <3>2. CASE ~excused' /\ (excused \/ Slips \/ Adopts)
      BY <2>2, <2>3, <2>4, <2>5, <3>2, ExcuseEnds DEF AccountedInv
    <3>3. CASE ~(excused \/ Slips \/ Adopts)
      <4>1. Accounted
        BY <3>3 DEF AccountedInv
      <4>2. Next
        BY <2>5 DEF HNext
      <4>3. Accounted'
        BY <3>3, <4>1, <4>2, AccountedKept
      <4> QED BY <2>2, <2>3, <2>4, <4>3 DEF AccountedInv
    <3> QED BY <3>1, <3>2, <3>3
  <2>6. CASE UNCHANGED <<vars, history>>
    <3>1. /\ rows' = rows /\ torrents' = torrents /\ reserved' = reserved /\ held' = held
          /\ admitting' = admitting /\ req' = req /\ excused' = excused
      BY <2>6 DEF vars, history
    <3>2. Owned' = Owned /\ Claimed' = Claimed
      BY <3>1 DEF Owned, RoutesOf, Claimed, Claimants
    <3>3. AccountedInv'
      BY <3>1, <3>2 DEF AccountedInv, Accounted, Admitting
    <3> QED BY <2>2, <2>3, <2>4, <3>3
  <2> QED BY <2>5, <2>6
<1>3. I => AdmissionsFit
  <2> SUFFICES ASSUME I, Cap > 0, ~excused PROVE OwnedBytes <= Cap
    BY DEF AdmissionsFit
  <2>1. Accounted
    BY DEF AccountedInv
  <2> QED BY <2>1, AccountedFits
<1> QED
  BY <1>1, <1>2, <1>3, PTL DEF HSpec
================================================================================
