-------------------------- MODULE ImportUploadProofs --------------------------
(***************************************************************************)
(* What ImportUpload promises, for any requests, executions, instances and   *)
(* contents.  The files of one path are written by the actors of that path    *)
(* only (Files); whoever is alone there finds what it downloaded (Own).       *)
(***************************************************************************)
EXTENDS ImportUpload, TLAPS

\* A file stays at the path of its creator, and has some content once it is there.
Files ==
    /\ \A s \in Spots : path[s] # Null => Spot(path[s]) = s /\ content[path[s]] # Null
    /\ \A x \in Actors : Spot(target[x]) = Spot(x)
    /\ \A x \in Actors : pc[x] = "read" => content[target[x]] # Null
    /\ ~azure => \A x \in Actors : content[x] # Partial

\* What has not begun has done nothing; whoever is alone shares its path with no
\* active actor.
Solitude ==
    /\ \A x, y \in Actors : Active(x) /\ Active(y) /\ Spot(x) = Spot(y) /\ x # y => ~alone[x]
    /\ \A x \in Actors : pc[x] = "idle" => alone[x] /\ answer[x] = "none"
    /\ \A e \in Executions : pc[e] = "idle" => imported[e] = {}

\* Steps that only some of the actors take.
Roles ==
    /\ \A h \in Confirms :
          pc[h] \in {"idle", "check", "download", "fetch", "use", "orphan", "ended", "crashed"}
    /\ \A p \in Previews :
          pc[p] \in {"idle", "download", "fetch", "use", "orphan", "ended", "crashed"}
    /\ \A e \in Executions : pc[e] # "check"
    /\ azure => \A x \in Actors : pc[x] # "orphan"

\* Whoever is alone has its download at the path, and then its copy open.
Own ==
    \A x \in Actors : alone[x] =>
        /\ azure /\ pc[x] = "fetch" => path[Spot(x)] # Null /\ target[x] = path[Spot(x)]
        /\ pc[x] = "use" => /\ path[Spot(x)] # Null
                            /\ content[path[Spot(x)]] = got[x] /\ got[x] # Null
        /\ pc[x] = "open" => path[Spot(x)] # Null /\ content[path[Spot(x)]] \in Valid
        /\ pc[x] = "read" => content[target[x]] \in Valid

\* A request to confirm has seen what it reads.
Seen ==
    \A h \in Confirms :
        /\ Active(h) => object \in seen[h]
        /\ pc[h] \in {"fetch", "use"} => got[h] \in seen[h]

\* A file at the path of a confirm, or of an import on S3, has its creator past its
\* download and not yet past its cleaning up, unless it was cut short.
Kept ==
    /\ \A h \in Confirms : path[Spot(h)] = h => pc[h] \in {"fetch", "use", "crashed"}
    /\ \A e \in Executions : path[Spot(e)] = e =>
          \/ pc[e] \in {"fetch", "use", "open", "read", "imported", "failed", "crashed"}
          \/ azure /\ answer[e] = "FAILED"
    /\ ~azure => \A e \in Executions : path[Spot(e)] = e => pc[e] # "fetch"

IInv == /\ TypeOK /\ Files /\ Solitude /\ Roles /\ Own /\ Seen /\ Kept
        /\ ImportedWasChecked /\ WholeFileImported /\ VerdictIsAboutObject

-----------------------------------------------------------------------------
(* Who does what, and where.                                                  *)

\* Actors of a kind share a path with actors of that kind only.
LEMMA Places ==
    /\ \A x \in Actors : Spot(x) \in Spots
    /\ \A s \in Spots : \E x \in Actors : s = Spot(x)
    /\ \A h \in Confirms, x \in Actors : Spot(x) = Spot(h) => x \in Confirms
    /\ \A e \in Executions, x \in Actors : Spot(x) = Spot(e) => x \in Executions
<1>1. \A x \in Actors : Spot(x) \in Spots /\ \A s \in Spots : \E y \in Actors : s = Spot(y)
  BY DEF Spots
<1> QED BY <1>1, UploadAssumption DEF Spot, Actors, Spots

\* The steps of an actor once it has begun.
ActorStep(x) ==
    \/ x \in Confirms /\ (CheckExists(x) \/ CheckFails(x) \/ Confirm(x))
    \/ StartDownload(x) \/ FinishDownload(x) \/ DownloadFails(x)
    \/ Cancel(x) \/ OrphanDownload(x)
    \/ x \in Previews /\ Show(x)
    \/ x \in Executions /\ (\/ Validate(x) \/ Open(x) \/ ImportBatch(x) \/ ImportJson(x)
                          \/ Settle(x) \/ CancelImport(x))

\* The steps of the client and its storage.
ClientStep == RequestUpload \/ ExpireUrl \/ \E c \in Contents : PutObject(c)

LEMMA Steps ==
    [Next]_vars <=> \/ ClientStep \/ UNCHANGED vars
                    \/ \E x \in Actors : Begin(x) \/ ActorStep(x)
                    \/ \E i \in {Instance[x] : x \in Actors} : Stop(i)
BY DEF Next, ClientStep, ActorStep, Actors

\* No step leaves the types: a batch imports what its file holds, and an open file
\* holds something (Files).
LEMMA TypeStep ==
  ASSUME IInv, NEW x \in Actors, ActorStep(x)
  PROVE  TypeOK'
<1> USE UploadAssumption, Places
    DEF vars, fileVars, storageVars, historyVars, Goto, Answer, End, Fault, Remove, IInv,
        TypeOK, Actors, Passes, Found
<1>1. CASE x \in Confirms /\ CheckExists(x)  BY <1>1 DEF CheckExists
<1>2. CASE x \in Confirms /\ CheckFails(x)  BY <1>2 DEF CheckFails
<1>3. CASE StartDownload(x)  BY <1>3 DEF StartDownload
<1>4. CASE FinishDownload(x)  BY <1>4 DEF FinishDownload
<1>5. CASE DownloadFails(x)  BY <1>5 DEF DownloadFails
<1>6. CASE x \in Confirms /\ Confirm(x)  BY <1>6 DEF Confirm
<1>7. CASE x \in Previews /\ Show(x)  BY <1>7 DEF Show
<1>8. CASE x \in Executions /\ Validate(x)  BY <1>8 DEF Validate
<1>9. CASE x \in Executions /\ Open(x)  BY <1>9 DEF Open
<1>10. CASE x \in Executions /\ ImportBatch(x)
  <2>1. content[target[x]] \in Contents \union {Partial}  BY <1>10 DEF ImportBatch, Files
  <2>2. imported' \in [Executions -> SUBSET (Contents \union {Partial})]
    BY <1>10, <2>1 DEF ImportBatch
  <2>3. pc' \in [Actors -> {"idle", "check", "download", "fetch", "use", "open", "read", "failed",
                          "imported", "orphan", "ended", "crashed"}]  BY <1>10 DEF ImportBatch
  <2> QED  BY <1>10, <2>2, <2>3 DEF ImportBatch
<1>11. CASE x \in Executions /\ ImportJson(x)  BY <1>11 DEF ImportJson
<1>12. CASE x \in Executions /\ Settle(x)  BY <1>12 DEF Settle
<1>13. CASE Cancel(x)  BY <1>13 DEF Cancel
<1>14. CASE OrphanDownload(x)  BY <1>14 DEF OrphanDownload
<1>15. CASE x \in Executions /\ CancelImport(x)  BY <1>15 DEF CancelImport
<1> QED BY <1>1, <1>2, <1>3, <1>4, <1>5, <1>6, <1>7, <1>8,
           <1>9, <1>10, <1>11, <1>12, <1>13, <1>14, <1>15 DEF ActorStep

\* A download writes its own file, or the one at its path.
LEMMA FilesStep ==
  ASSUME IInv, NEW x \in Actors, ActorStep(x)
  PROVE  Files'
<1> USE UploadAssumption, Places
    DEF vars, fileVars, storageVars, historyVars, Goto, Answer, End, Fault, Remove, IInv,
        TypeOK, Actors, Passes, Found, Files
<1>1. CASE x \in Confirms /\ CheckExists(x)  BY <1>1 DEF CheckExists
<1>2. CASE x \in Confirms /\ CheckFails(x)  BY <1>2 DEF CheckFails
<1>3. CASE StartDownload(x)  BY <1>3 DEF StartDownload
<1>4. CASE FinishDownload(x)  BY <1>4 DEF FinishDownload
<1>5. CASE DownloadFails(x)  BY <1>5 DEF DownloadFails
<1>6. CASE x \in Confirms /\ Confirm(x)  BY <1>6 DEF Confirm
<1>7. CASE x \in Previews /\ Show(x)  BY <1>7 DEF Show
<1>8. CASE x \in Executions /\ Validate(x)  BY <1>8 DEF Validate
<1>9. CASE x \in Executions /\ Open(x)  BY <1>9 DEF Open
<1>10. CASE x \in Executions /\ ImportBatch(x)  BY <1>10 DEF ImportBatch
<1>11. CASE x \in Executions /\ ImportJson(x)  BY <1>11 DEF ImportJson
<1>12. CASE x \in Executions /\ Settle(x)  BY <1>12 DEF Settle
<1>13. CASE Cancel(x)  BY <1>13 DEF Cancel
<1>14. CASE OrphanDownload(x)  BY <1>14 DEF OrphanDownload
<1>15. CASE x \in Executions /\ CancelImport(x)  BY <1>15 DEF CancelImport
<1> QED BY <1>1, <1>2, <1>3, <1>4, <1>5, <1>6, <1>7, <1>8,
           <1>9, <1>10, <1>11, <1>12, <1>13, <1>14, <1>15 DEF ActorStep

\* A step that does not begin an actor makes none active, and leaves alone as it is.
LEMMA SolitudeStep ==
  ASSUME IInv, NEW x \in Actors, ActorStep(x)
  PROVE  (Solitude /\ Roles)'
<1> USE UploadAssumption, Places
    DEF vars, fileVars, storageVars, historyVars, Goto, Answer, End, Fault, Remove, IInv,
        TypeOK, Actors, Passes, Found, Solitude, Roles, Active
<1>1. CASE x \in Confirms /\ CheckExists(x)
  <2>1. CASE object = Null  BY <1>1, <2>1 DEF CheckExists
  <2>2. CASE object # Null  BY <1>1, <2>2 DEF CheckExists
  <2> QED  BY <2>1, <2>2
<1>2. CASE x \in Confirms /\ CheckFails(x)  BY <1>2 DEF CheckFails
<1>3. CASE StartDownload(x)  BY <1>3 DEF StartDownload
<1>4. CASE FinishDownload(x)  BY <1>4 DEF FinishDownload
<1>5. CASE DownloadFails(x)  BY <1>5 DEF DownloadFails
<1>6. CASE x \in Confirms /\ Confirm(x)  BY <1>6 DEF Confirm
<1>7. CASE x \in Previews /\ Show(x)  BY <1>7 DEF Show
<1>8. CASE x \in Executions /\ Validate(x)  BY <1>8 DEF Validate
<1>9. CASE x \in Executions /\ Open(x)  BY <1>9 DEF Open
<1>10. CASE x \in Executions /\ ImportBatch(x)  BY <1>10 DEF ImportBatch
<1>11. CASE x \in Executions /\ ImportJson(x)
  <2>1. PICK step \in {"failed", "imported"} : pc' = [pc EXCEPT ![x] = step]
    BY <1>11 DEF ImportJson
  <2>2. \A e \in Executions : e # x => imported'[e] = imported[e]
    <3>1. CASE imported' = imported                              BY <3>1
    <3>2. CASE imported' = [imported EXCEPT ![x] = {Found(x)}]   BY <3>2
    <3> QED  BY <1>11, <3>1, <3>2 DEF ImportJson
  <2> QED  BY <1>11, <2>1, <2>2 DEF ImportJson
<1>12. CASE x \in Executions /\ Settle(x)  BY <1>12 DEF Settle
<1>13. CASE Cancel(x)  BY <1>13 DEF Cancel
<1>14. CASE OrphanDownload(x)  BY <1>14 DEF OrphanDownload
<1>15. CASE x \in Executions /\ CancelImport(x)  BY <1>15 DEF CancelImport
<1> QED BY <1>1, <1>2, <1>3, <1>4, <1>5, <1>6, <1>7, <1>8,
           <1>9, <1>10, <1>11, <1>12, <1>13, <1>14, <1>15 DEF ActorStep

\* Whoever is alone keeps its download: the others at work are at other paths, and
\* write other files (Files).
LEMMA OwnStep ==
  ASSUME IInv, NEW x \in Actors, ActorStep(x)
  PROVE  Own'
<1> USE UploadAssumption, Places
    DEF vars, fileVars, storageVars, historyVars, Goto, Answer, End, Fault, Remove, IInv,
        TypeOK, Actors, Passes, Found, Files, Solitude, Roles, Own, Active
<1>1. CASE x \in Confirms /\ CheckExists(x)  BY <1>1 DEF CheckExists
<1>2. CASE x \in Confirms /\ CheckFails(x)  BY <1>2 DEF CheckFails
<1>3. CASE StartDownload(x)
  <2> SUFFICES ASSUME NEW y \in Actors, alone[y], pc'[y] \in {"fetch", "use", "open", "read"}
               PROVE  /\ azure /\ pc'[y] = "fetch" => path'[Spot(y)] # Null /\ target'[y] = path'[Spot(y)]
                      /\ pc'[y] = "use" => /\ path'[Spot(y)] # Null
                                           /\ content'[path'[Spot(y)]] = got'[y] /\ got'[y] # Null
                      /\ pc'[y] = "open" => path'[Spot(y)] # Null /\ content'[path'[Spot(y)]] \in Valid
                      /\ pc'[y] = "read" => content'[target'[y]] \in Valid
    BY <1>3 DEF StartDownload
  <2>1. CASE y = x
    <3>1. CASE azure   BY <1>3, <2>1, <3>1 DEF StartDownload
    <3>2. CASE ~azure  BY <1>3, <2>1, <3>2 DEF StartDownload
    <3> QED  BY <3>1, <3>2
  <2>2. CASE y # x
    <3>1. pc'[y] = pc[y] /\ Spot(y) # Spot(x)  BY <1>3, <2>2 DEF StartDownload
    <3>2. path'[Spot(y)] = path[Spot(y)] /\ got'[y] = got[y] /\ target'[y] = target[y]
      BY <1>3, <2>2, <3>1 DEF StartDownload
    <3>3. \A f \in Actors : Spot(f) = Spot(y) => content'[f] = content[f]
      BY <1>3, <3>1 DEF StartDownload
    <3>4. path[Spot(y)] # Null => path[Spot(y)] \in Actors /\ Spot(path[Spot(y)]) = Spot(y)
      OBVIOUS
    <3> QED  BY <3>1, <3>2, <3>3, <3>4
  <2> QED  BY <2>1, <2>2
<1>4. CASE FinishDownload(x)
  <2> SUFFICES ASSUME NEW y \in Actors, alone[y], pc'[y] \in {"fetch", "use", "open", "read"}
               PROVE  /\ azure /\ pc'[y] = "fetch" => path'[Spot(y)] # Null /\ target[y] = path'[Spot(y)]
                      /\ pc'[y] = "use" => /\ path'[Spot(y)] # Null
                                           /\ content'[path'[Spot(y)]] = got[y] /\ got[y] # Null
                      /\ pc'[y] = "open" => path'[Spot(y)] # Null /\ content'[path'[Spot(y)]] \in Valid
                      /\ pc'[y] = "read" => content'[target[y]] \in Valid
    BY <1>4 DEF FinishDownload
  <2>1. CASE y = x
    <3>1. CASE azure   BY <1>4, <2>1, <3>1 DEF FinishDownload
    <3>2. CASE ~azure  BY <1>4, <2>1, <3>2 DEF FinishDownload
    <3> QED  BY <3>1, <3>2
  <2>2. CASE y # x
    <3>1. pc'[y] = pc[y] /\ Spot(y) # Spot(x)  BY <1>4, <2>2 DEF FinishDownload
    <3>2. path'[Spot(y)] = path[Spot(y)]        BY <1>4, <3>1 DEF FinishDownload
    <3>3. \A f \in Actors : Spot(f) = Spot(y) => content'[f] = content[f]
      BY <1>4, <3>1 DEF FinishDownload
    <3>4. path[Spot(y)] # Null => path[Spot(y)] \in Actors /\ Spot(path[Spot(y)]) = Spot(y)
      OBVIOUS
    <3> QED  BY <1>4, <3>1, <3>2, <3>3, <3>4 DEF FinishDownload
  <2> QED  BY <2>1, <2>2
<1>5. CASE DownloadFails(x)  BY <1>5 DEF DownloadFails
<1>6. CASE x \in Confirms /\ Confirm(x)  BY <1>6 DEF Confirm
<1>7. CASE x \in Previews /\ Show(x)  BY <1>7 DEF Show
<1>8. CASE x \in Executions /\ Validate(x)  BY <1>8 DEF Validate
<1>9. CASE x \in Executions /\ Open(x)  BY <1>9 DEF Open
<1>10. CASE x \in Executions /\ ImportBatch(x)  BY <1>10 DEF ImportBatch
<1>11. CASE x \in Executions /\ ImportJson(x)  BY <1>11 DEF ImportJson
<1>12. CASE x \in Executions /\ Settle(x)  BY <1>12 DEF Settle
<1>13. CASE Cancel(x)
  <2> SUFFICES ASSUME NEW y \in Actors, alone[y], pc'[y] \in {"fetch", "use", "open", "read"}
               PROVE  /\ azure /\ pc'[y] = "fetch" => path'[Spot(y)] # Null /\ target'[y] = path'[Spot(y)]
                      /\ pc'[y] = "use" => /\ path'[Spot(y)] # Null
                                           /\ content'[path'[Spot(y)]] = got'[y] /\ got'[y] # Null
                      /\ pc'[y] = "open" => path'[Spot(y)] # Null /\ content'[path'[Spot(y)]] \in Valid
                      /\ pc'[y] = "read" => content'[target'[y]] \in Valid
    BY <1>13 DEF Cancel
  <2>1. CASE y = x
    BY <1>13, <2>1 DEF Cancel
  <2>2. CASE y # x
    <3>1. pc'[y] = pc[y] /\ Spot(y) # Spot(x)  BY <1>13, <2>2 DEF Cancel
    <3>2. path'[Spot(y)] = path[Spot(y)] /\ got'[y] = got[y] /\ target'[y] = target[y]
      BY <1>13, <2>2, <3>1 DEF Cancel
    <3>3. \A f \in Actors : Spot(f) = Spot(y) => content'[f] = content[f]
      BY <1>13, <3>1 DEF Cancel
    <3>4. path[Spot(y)] # Null => path[Spot(y)] \in Actors /\ Spot(path[Spot(y)]) = Spot(y)
      OBVIOUS
    <3> QED  BY <3>1, <3>2, <3>3, <3>4
  <2> QED  BY <2>1, <2>2
<1>14. CASE OrphanDownload(x)  BY <1>14 DEF OrphanDownload
<1>15. CASE x \in Executions /\ CancelImport(x)  BY <1>15 DEF CancelImport
<1> QED BY <1>1, <1>2, <1>3, <1>4, <1>5, <1>6, <1>7, <1>8,
           <1>9, <1>10, <1>11, <1>12, <1>13, <1>14, <1>15 DEF ActorStep

\* What a confirm downloads is what the object holds when the request is sent.
LEMMA SeenStep ==
  ASSUME IInv, NEW x \in Actors, ActorStep(x)
  PROVE  Seen'
<1> USE UploadAssumption, Places
    DEF vars, fileVars, storageVars, historyVars, Goto, Answer, End, Fault, Remove, IInv,
        TypeOK, Actors, Passes, Found, Roles, Seen, Active
<1>1. CASE x \in Confirms /\ CheckExists(x)  BY <1>1 DEF CheckExists
<1>2. CASE x \in Confirms /\ CheckFails(x)  BY <1>2 DEF CheckFails
<1>3. CASE StartDownload(x)  BY <1>3 DEF StartDownload
<1>4. CASE FinishDownload(x)  BY <1>4 DEF FinishDownload
<1>5. CASE DownloadFails(x)  BY <1>5 DEF DownloadFails
<1>6. CASE x \in Confirms /\ Confirm(x)  BY <1>6 DEF Confirm
<1>7. CASE x \in Previews /\ Show(x)  BY <1>7 DEF Show
<1>8. CASE x \in Executions /\ Validate(x)  BY <1>8 DEF Validate
<1>9. CASE x \in Executions /\ Open(x)  BY <1>9 DEF Open
<1>10. CASE x \in Executions /\ ImportBatch(x)  BY <1>10 DEF ImportBatch
<1>11. CASE x \in Executions /\ ImportJson(x)  BY <1>11 DEF ImportJson
<1>12. CASE x \in Executions /\ Settle(x)  BY <1>12 DEF Settle
<1>13. CASE Cancel(x)  BY <1>13 DEF Cancel
<1>14. CASE OrphanDownload(x)  BY <1>14 DEF OrphanDownload
<1>15. CASE x \in Executions /\ CancelImport(x)  BY <1>15 DEF CancelImport
<1> QED BY <1>1, <1>2, <1>3, <1>4, <1>5, <1>6, <1>7, <1>8,
           <1>9, <1>10, <1>11, <1>12, <1>13, <1>14, <1>15 DEF ActorStep

\* Whoever puts a file at the path of a confirm, or of an import on S3, removes it later.
LEMMA KeptStep ==
  ASSUME IInv, NEW x \in Actors, ActorStep(x)
  PROVE  Kept'
<1> USE UploadAssumption, Places
    DEF vars, fileVars, storageVars, historyVars, Goto, Answer, End, Fault, Remove, IInv,
        TypeOK, Actors, Passes, Found, Roles, Kept, Active
<1>1. CASE x \in Confirms /\ CheckExists(x)  BY <1>1 DEF CheckExists
<1>2. CASE x \in Confirms /\ CheckFails(x)  BY <1>2 DEF CheckFails
<1>3. CASE StartDownload(x)  BY <1>3 DEF StartDownload
<1>4. CASE FinishDownload(x)  BY <1>4 DEF FinishDownload
<1>5. CASE DownloadFails(x)  BY <1>5 DEF DownloadFails
<1>6. CASE x \in Confirms /\ Confirm(x)  BY <1>6 DEF Confirm
<1>7. CASE x \in Previews /\ Show(x)  BY <1>7 DEF Show
<1>8. CASE x \in Executions /\ Validate(x)  BY <1>8 DEF Validate
<1>9. CASE x \in Executions /\ Open(x)  BY <1>9 DEF Open
<1>10. CASE x \in Executions /\ ImportBatch(x)  BY <1>10 DEF ImportBatch
<1>11. CASE x \in Executions /\ ImportJson(x)  BY <1>11 DEF ImportJson
<1>12. CASE x \in Executions /\ Settle(x)  BY <1>12 DEF Settle
<1>13. CASE Cancel(x)  BY <1>13 DEF Cancel
<1>14. CASE OrphanDownload(x)  BY <1>14 DEF OrphanDownload
<1>15. CASE x \in Executions /\ CancelImport(x)  BY <1>15 DEF CancelImport
<1> QED BY <1>1, <1>2, <1>3, <1>4, <1>5, <1>6, <1>7, <1>8,
           <1>9, <1>10, <1>11, <1>12, <1>13, <1>14, <1>15 DEF ActorStep

\* An import that is alone reads its own copy (Own): the one it validated.
LEMMA ImportStep ==
  ASSUME IInv, NEW x \in Actors, ActorStep(x)
  PROVE  (ImportedWasChecked /\ WholeFileImported)'
<1> USE UploadAssumption, Places
    DEF vars, fileVars, storageVars, historyVars, Goto, Answer, End, Fault, Remove, IInv,
        TypeOK, Actors, Passes, Found, Files, Roles, Own, ImportedWasChecked,
        WholeFileImported
<1>1. CASE x \in Confirms /\ CheckExists(x)  BY <1>1 DEF CheckExists
<1>2. CASE x \in Confirms /\ CheckFails(x)  BY <1>2 DEF CheckFails
<1>3. CASE StartDownload(x)  BY <1>3 DEF StartDownload
<1>4. CASE FinishDownload(x)  BY <1>4 DEF FinishDownload
<1>5. CASE DownloadFails(x)  BY <1>5 DEF DownloadFails
<1>6. CASE x \in Confirms /\ Confirm(x)  BY <1>6 DEF Confirm
<1>7. CASE x \in Previews /\ Show(x)  BY <1>7 DEF Show
<1>8. CASE x \in Executions /\ Validate(x)  BY <1>8 DEF Validate
<1>9. CASE x \in Executions /\ Open(x)  BY <1>9 DEF Open
<1>10. CASE x \in Executions /\ ImportBatch(x)  BY <1>10 DEF ImportBatch
<1>11. CASE x \in Executions /\ ImportJson(x)
  <2>1. \/ imported' = imported
        \/ Found(x) # Partial /\ imported' = [imported EXCEPT ![x] = {Found(x)}]
    BY <1>11 DEF ImportJson
  <2>2. CASE imported' = imported  BY <1>11, <2>2 DEF ImportJson
  <2>3. CASE Found(x) # Partial /\ imported' = [imported EXCEPT ![x] = {Found(x)}]
    BY <1>11, <2>3 DEF ImportJson
  <2> QED  BY <2>1, <2>2, <2>3
<1>12. CASE x \in Executions /\ Settle(x)  BY <1>12 DEF Settle
<1>13. CASE Cancel(x)  BY <1>13 DEF Cancel
<1>14. CASE OrphanDownload(x)  BY <1>14 DEF OrphanDownload
<1>15. CASE x \in Executions /\ CancelImport(x)  BY <1>15 DEF CancelImport
<1> QED BY <1>1, <1>2, <1>3, <1>4, <1>5, <1>6, <1>7, <1>8,
           <1>9, <1>10, <1>11, <1>12, <1>13, <1>14, <1>15 DEF ActorStep

\* A confirm that is alone judges its own copy (Own), which the object held (Seen).
LEMMA VerdictStep ==
  ASSUME IInv, NEW x \in Actors, ActorStep(x)
  PROVE  VerdictIsAboutObject'
<1> USE UploadAssumption, Places
    DEF vars, fileVars, storageVars, historyVars, Goto, Answer, End, Fault, Remove, IInv,
        TypeOK, Actors, Passes, Found, Roles, Own, Seen, VerdictIsAboutObject, Active
<1>1. CASE x \in Confirms /\ CheckExists(x)  BY <1>1 DEF CheckExists
<1>2. CASE x \in Confirms /\ CheckFails(x)  BY <1>2 DEF CheckFails
<1>3. CASE StartDownload(x)  BY <1>3 DEF StartDownload
<1>4. CASE FinishDownload(x)  BY <1>4 DEF FinishDownload
<1>5. CASE DownloadFails(x)  BY <1>5 DEF DownloadFails
<1>6. CASE x \in Confirms /\ Confirm(x)  BY <1>6 DEF Confirm
<1>7. CASE x \in Previews /\ Show(x)  BY <1>7 DEF Show
<1>8. CASE x \in Executions /\ Validate(x)  BY <1>8 DEF Validate
<1>9. CASE x \in Executions /\ Open(x)  BY <1>9 DEF Open
<1>10. CASE x \in Executions /\ ImportBatch(x)  BY <1>10 DEF ImportBatch
<1>11. CASE x \in Executions /\ ImportJson(x)  BY <1>11 DEF ImportJson
<1>12. CASE x \in Executions /\ Settle(x)  BY <1>12 DEF Settle
<1>13. CASE Cancel(x)  BY <1>13 DEF Cancel
<1>14. CASE OrphanDownload(x)  BY <1>14 DEF OrphanDownload
<1>15. CASE x \in Executions /\ CancelImport(x)  BY <1>15 DEF CancelImport
<1> QED BY <1>1, <1>2, <1>3, <1>4, <1>5, <1>6, <1>7, <1>8,
           <1>9, <1>10, <1>11, <1>12, <1>13, <1>14, <1>15 DEF ActorStep

-----------------------------------------------------------------------------
(* The other steps.                                                           *)

\* A request or an execution begins: whoever is active at its path is not alone
\* any more.
LEMMA BeginStep ==
  ASSUME IInv, NEW x \in Actors, Begin(x)
  PROVE  IInv'
<1> USE UploadAssumption, Places DEF Begin, IInv, TypeOK, Actors, storageVars, fileVars, Goto
<1>1. TypeOK'
  <2>1. alone' \in [Actors -> BOOLEAN]  OBVIOUS
  <2>2. seen' \in [Confirms -> SUBSET (Contents \union {Null})]  OBVIOUS
  <2>3. pc' \in [Actors -> {"idle", "check", "download", "fetch", "use", "open", "read", "failed",
                          "imported", "orphan", "ended", "crashed"}]  OBVIOUS
  <2> QED  BY <2>1, <2>2, <2>3
<1>2. Files'                  BY DEF Files
<1>3. Solitude' /\ Roles'     BY DEF Solitude, Roles, Active
<1>4. Own'                    BY DEF Own
<1>5. Seen'                   BY DEF Seen, Roles, Active
<1>6. Kept'                   BY DEF Kept
<1>7. ImportedWasChecked' /\ WholeFileImported'
  BY DEF ImportedWasChecked, WholeFileImported, Solitude
<1>8. VerdictIsAboutObject'   BY DEF VerdictIsAboutObject, Solitude
<1> QED  BY <1>1, <1>2, <1>3, <1>4, <1>5, <1>6, <1>7, <1>8

\* An instance stops: its actors do nothing more, and the files stay.
LEMMA StopStep ==
  ASSUME IInv, NEW i, Stop(i)
  PROVE  IInv'
<1> USE UploadAssumption, Places
    DEF Stop, IInv, TypeOK, Actors, storageVars, fileVars, historyVars, Active
<1>1. /\ UNCHANGED <<csv, azure, url, object, path, content, got, target, answer, imported, alone, seen>>
      /\ pc' \in [Actors -> {"idle", "check", "download", "fetch", "use", "open", "read", "failed",
                             "imported", "orphan", "ended", "crashed"}]
      /\ \A x \in Actors : pc'[x] = pc[x] \/ (pc'[x] = "crashed" /\ Active(x))
  <2>1. pc' = [x \in Actors |-> IF Active(x) /\ Instance[x] = i THEN "crashed" ELSE pc[x]]
    BY DEF Stop
  <2>2. \A x \in Actors : pc'[x] = pc[x] \/ (pc'[x] = "crashed" /\ Active(x))
    <3> TAKE x \in Actors
    <3>1. pc'[x] = IF Active(x) /\ Instance[x] = i THEN "crashed" ELSE pc[x]  BY <2>1
    <3> QED  BY <3>1
  <2>3. pc' \in [Actors -> {"idle", "check", "download", "fetch", "use", "open", "read", "failed",
                          "imported", "orphan", "ended", "crashed"}]
    BY <2>1
  <2>4. UNCHANGED <<csv, azure, url, object, path, content, got, target, answer, imported, alone, seen>>
    OBVIOUS
  <2> QED  BY <2>2, <2>3, <2>4
<1> USE <1>1
<1>2. TypeOK' /\ Files'       BY DEF Files, Spot
<1>3. Solitude' /\ Roles'     BY DEF Solitude, Roles, Spot
<1>4. Own'
  <2>1. \A x \in Actors : pc'[x] \in {"fetch", "use", "open", "read"} => pc'[x] = pc[x]
    BY <1>1
  <2> SUFFICES ASSUME NEW y \in Actors, alone[y], pc'[y] \in {"fetch", "use", "open", "read"}
               PROVE  /\ azure /\ pc[y] = "fetch" => path[Spot(y)] # Null /\ target[y] = path[Spot(y)]
                      /\ pc[y] = "use" => /\ path[Spot(y)] # Null
                                          /\ content[path[Spot(y)]] = got[y] /\ got[y] # Null
                      /\ pc[y] = "open" => path[Spot(y)] # Null /\ content[path[Spot(y)]] \in Valid
                      /\ pc[y] = "read" => content[target[y]] \in Valid
    BY <1>1, <2>1 DEF Own
  <2> QED  BY DEF Own
<1>5. Seen'                   BY DEF Seen, Roles
<1>6. Kept'                   BY DEF Kept, Spot
<1>7. ImportedWasChecked' /\ WholeFileImported'
  BY DEF ImportedWasChecked, WholeFileImported
<1>8. VerdictIsAboutObject'   BY DEF VerdictIsAboutObject
<1> QED  BY <1>2, <1>3, <1>4, <1>5, <1>6, <1>7, <1>8

\* The client uploads, the URL expires: a confirm under way sees the new content.
LEMMA ClientInv ==
  ASSUME IInv, ClientStep \/ UNCHANGED vars
  PROVE  IInv'
<1> USE UploadAssumption, Places DEF IInv, TypeOK, vars, fileVars, historyVars
<1>1. /\ UNCHANGED <<csv, azure, path, content, pc, got, target, answer, imported, alone>>
      /\ object' \in Contents \union {Null} /\ url' \in {"none", "valid", "expired"}
      /\ seen' \in [Confirms -> SUBSET (Contents \union {Null})]
      /\ \A h \in Confirms : seen[h] \subseteq seen'[h]
      /\ \A h \in Confirms : Active(h) /\ object \in seen[h] => object' \in seen'[h]
      /\ \A h \in Confirms : ~Active(h) => seen'[h] = seen[h]
  BY DEF ClientStep, RequestUpload, ExpireUrl, PutObject
<1>2. TypeOK' /\ Files'                BY <1>1 DEF Files, Spot
<1>3. Solitude' /\ Roles' /\ Own'      BY <1>1 DEF Solitude, Roles, Own, Active
<1>4. Seen' /\ Kept'                   BY <1>1 DEF Seen, Kept, Active
<1>5. ImportedWasChecked' /\ WholeFileImported'
  BY <1>1 DEF ImportedWasChecked, WholeFileImported
<1>6. VerdictIsAboutObject'            BY <1>1 DEF VerdictIsAboutObject
<1> QED  BY <1>2, <1>3, <1>4, <1>5, <1>6

LEMMA InitInv == Init => IInv
<1> SUFFICES ASSUME Init PROVE IInv  OBVIOUS
<1> USE UploadAssumption, Places DEF Init, Actors
<1>1. TypeOK                  BY DEF TypeOK
<1>2. Files                   BY DEF Files
<1>3. Solitude /\ Roles       BY DEF Solitude, Roles, Active
<1>4. Own /\ Seen /\ Kept     BY DEF Own, Seen, Kept, Active
<1>5. ImportedWasChecked /\ WholeFileImported /\ VerdictIsAboutObject
  BY DEF ImportedWasChecked, WholeFileImported, VerdictIsAboutObject
<1> QED  BY <1>1, <1>2, <1>3, <1>4, <1>5 DEF IInv

-----------------------------------------------------------------------------
(* Theorems.                                                                  *)

\* The invariant above holds throughout.
THEOREM Inductive == Spec => []IInv
<1>1. IInv /\ [Next]_vars => IInv'
  <2> SUFFICES ASSUME IInv, [Next]_vars PROVE IInv'  OBVIOUS
  <2>1. CASE ClientStep \/ UNCHANGED vars  BY <2>1, ClientInv
  <2>2. CASE \E x \in Actors : Begin(x)    BY <2>2, BeginStep
  <2>3. CASE \E x \in Actors : ActorStep(x)
    BY <2>3, TypeStep, FilesStep, SolitudeStep, OwnStep, SeenStep, KeptStep, ImportStep,
       VerdictStep DEF IInv
  <2>4. CASE \E i \in {Instance[x] : x \in Actors} : Stop(i)  BY <2>4, StopStep
  <2> QED  BY <2>1, <2>2, <2>3, <2>4, Steps
<1> QED  BY <1>1, InitInv, PTL DEF Spec

\* Every variable has its type: a download never takes a name for a file.
THEOREM TypeCorrect == Spec => []TypeOK
<1>1. IInv => TypeOK  BY DEF IInv
<1> QED  BY <1>1, Inductive, PTL

\* What is imported from a file that no other execution shared was validated by the
\* run, whatever became of the object after it was confirmed.
THEOREM Checked == Spec => []ImportedWasChecked
<1>1. IInv => ImportedWasChecked  BY DEF IInv
<1> QED  BY <1>1, Inductive, PTL

\* No part of a file is imported for the whole of it, on S3 always, on Azure by
\* executions that do not overlap.
THEOREM Whole == Spec => []WholeFileImported
<1>1. IInv => WholeFileImported  BY DEF IInv
<1> QED  BY <1>1, Inductive, PTL

\* The answers of a confirm that is alone are about contents the object had.
THEOREM TrueVerdict == Spec => []VerdictIsAboutObject
<1>1. IInv => VerdictIsAboutObject  BY DEF IInv
<1> QED  BY <1>1, Inductive, PTL

\* Whoever puts a file at the path of a confirm or an import takes it away, unless it
\* is cut short or its download fails on Azure.
THEOREM NothingLeft == Spec => []NothingLeftBehind
<1>1. IInv => NothingLeftBehind
  BY Places DEF IInv, Kept, Active, NothingLeftBehind
<1> QED  BY <1>1, Inductive, PTL
===============================================================================
