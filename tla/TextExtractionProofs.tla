------------------------- MODULE TextExtractionProofs -------------------------
(***************************************************************************)
(* Proofs about TextExtraction.tla and PageImage.tla, for any number of    *)
(* requests, edits and crashes, any sheets and any sizes: pages show their *)
(* side of the sheet, blank backs are dropped, a reply is of the page that *)
(* was asked about, and no temporary directory is left behind.             *)
(***************************************************************************)
EXTENDS TextExtraction, TLAPS, FiniteSetTheorems

-------------------------------------------------------------------------------
(* The directories: the inductive invariant *)

Fields == {"kind", "page", "img", "dir", "reply", "result"}
IsRequest(c) == c = [f \in Fields |-> c[f]]

\* Before MkdirTemp a request has no directory.
BeforeMkdirTemp ==
  \A r \in scene.requests :
    /\ at[r] \in {"read", "mkdir"} => request[r].dir = NoDir
    /\ at[r] = "read" => request[r].kind \in {"text", "pdf"}

Types == /\ at \in [scene.requests -> Places]
         /\ request = [r \in scene.requests |-> request[r]]
         /\ \A r \in scene.requests : IsRequest(request[r])
         /\ DOMAIN dirs \subseteq Dirs

IInv == Types /\ BeforeMkdirTemp /\ NoDirLeftBehind

LEMMA NoRequestFacts == IsRequest(NoRequest) /\ NoRequest.dir = NoDir
BY DEF NoRequest, IsRequest, Fields

THEOREM Initially == InitOcr => IInv
<1> SUFFICES ASSUME InitOcr PROVE IInv
  OBVIOUS
<1>1. DOMAIN dirs = {}
  BY DEF InitOcr
<1> QED
  BY <1>1, NoRequestFacts DEF InitOcr, IInv, Types, BeforeMkdirTemp, NoDirLeftBehind, Places

\* A request with a directory keeps it as long as it runs.
LEMMA Owned ==
  ASSUME NoDirLeftBehind, UNCHANGED scene, left \subseteq left',
         \A s \in scene.requests : Running(s) /\ MyDir(s) \in DOMAIN dirs' =>
           Running(s)' /\ request'[s].dir = request[s].dir,
         \A d \in DOMAIN dirs' \ DOMAIN dirs : \E s \in scene.requests : Running(s)' /\ request'[s].dir = d
  PROVE  NoDirLeftBehind'
<1> SUFFICES ASSUME NEW d \in DOMAIN dirs', d \notin left'
             PROVE  \E s \in scene.requests : Running(s)' /\ request'[s].dir = d
  BY DEF NoDirLeftBehind, MyDir
<1>1. CASE d \in DOMAIN dirs
  <2>1. PICK s \in scene.requests : Running(s) /\ MyDir(s) = d
    BY <1>1 DEF NoDirLeftBehind
  <2> QED
    BY <2>1 DEF MyDir
<1> QED
  BY <1>1

-------------------------------------------------------------------------------
(* One request's step *)

\* A step of one request leaves the others alone.
LEMMA OneRequest ==
  ASSUME Types, BeforeMkdirTemp, NEW r \in scene.requests, NEW place \in Places, Goto(r, place),
         NEW c, IsRequest(c), request' = [request EXCEPT ![r] = c],
         place \in {"read", "mkdir"} => c.dir = NoDir,
         place = "read" => c.kind \in {"text", "pdf"},
         DOMAIN dirs' \subseteq Dirs, UNCHANGED scene
  PROVE  /\ Types' /\ BeforeMkdirTemp'
         /\ \A s \in scene.requests \ {r} : at'[s] = at[s] /\ request'[s] = request[s]
         /\ at'[r] = place /\ request'[r] = c
<1>1. /\ at' \in [scene.requests -> Places]
      /\ request' = [s \in scene.requests |-> request'[s]]
      /\ \A s \in scene.requests \ {r} : at'[s] = at[s] /\ request'[s] = request[s]
      /\ at'[r] = place /\ request'[r] = c
  BY DEF Types, Goto
<1>2. Types'
  BY <1>1 DEF Types
<1>3. BeforeMkdirTemp'
  BY <1>1 DEF BeforeMkdirTemp
<1> QED
  BY <1>1, <1>2, <1>3

\* A request that goes on, with its directory.
LEMMA GoesOn ==
  ASSUME IInv, NEW r \in scene.requests, NEW place \in Places \ {"idle", "read"},
         Goto(r, place), NEW c, IsRequest(c), request' = [request EXCEPT ![r] = c],
         c.dir = request[r].dir, place = "mkdir" => c.dir = NoDir,
         DOMAIN dirs' = DOMAIN dirs, UNCHANGED <<scene, left>>
  PROVE  IInv'
<1>1. /\ Types' /\ BeforeMkdirTemp'
      /\ \A s \in scene.requests \ {r} : at'[s] = at[s] /\ request'[s] = request[s]
      /\ at'[r] = place /\ request'[r] = c
  BY OneRequest DEF IInv, Types
<1>2. NoDirLeftBehind'
  BY <1>1, Owned DEF IInv, Running
<1> QED
  BY <1>1, <1>2 DEF IInv

\* A request without a directory: it comes in, or ends.
LEMMA WithoutDir ==
  ASSUME IInv, NEW r \in scene.requests, request[r].dir = NoDir,
         NEW place \in {"idle", "read"}, Goto(r, place),
         NEW c, IsRequest(c), request' = [request EXCEPT ![r] = c],
         place = "read" => c.dir = NoDir /\ c.kind \in {"text", "pdf"},
         UNCHANGED <<scene, dirs, left>>
  PROVE  IInv'
<1>1. /\ Types' /\ BeforeMkdirTemp'
      /\ \A s \in scene.requests \ {r} : at'[s] = at[s] /\ request'[s] = request[s]
  BY OneRequest DEF IInv, Types, Places
<1>2. MyDir(r) \notin DOMAIN dirs'
  BY DirsAssumption DEF IInv, Types, MyDir
<1>3. NoDirLeftBehind'
  BY <1>1, <1>2, Owned DEF IInv, Running
<1> QED
  BY <1>1, <1>3 DEF IInv

LEMMA RepliesFacts ==
  ASSUME IInv, NEW r \in scene.requests, NEW reply, NEW result, Replies(r, reply, result)
  PROVE  \E c : IsRequest(c) /\ c.dir = request[r].dir /\ request' = [request EXCEPT ![r] = c]
<1> DEFINE c == [request[r] EXCEPT !.reply = reply, !.result = result, !.img = Torn]
<1>1. IsRequest(c) /\ c.dir = request[r].dir
  BY DEF IInv, Types, IsRequest, Fields
<1>2. request' = [request EXCEPT ![r] = c]
  BY DEF Replies
<1> QED
  BY <1>1, <1>2

LEMMA BeginStep ==
  ASSUME IInv, NEW r \in scene.requests, NEW kind \in {"text", "pdf"}, NEW p, Begin(r, kind, p)
  PROVE  IInv'
<1> DEFINE c == [NoRequest EXCEPT !.kind = kind, !.page = p]
<1>1. IsRequest(c) /\ c.dir = NoDir /\ c.kind = kind
  BY DEF NoRequest, IsRequest, Fields
<1>2. /\ request[r].dir = NoDir /\ Goto(r, "read") /\ request' = [request EXCEPT ![r] = c]
      /\ UNCHANGED <<scene, dirs, left>>
  BY NoRequestFacts DEF Begin, imageVars
<1> QED
  BY <1>1, <1>2, WithoutDir

LEMMA ReadStep == ASSUME IInv, NEW r \in scene.requests, Read(r) PROVE IInv'
<1>1. /\ at[r] = "read" /\ request[r].dir = NoDir /\ request[r].kind \in {"text", "pdf"}
      /\ UNCHANGED <<scene, dirs, left>>
  BY DEF Read, imageVars, IInv, BeforeMkdirTemp
<1>2. ASSUME NEW reply, NEW result, Goto(r, "idle"), Replies(r, reply, result) PROVE IInv'
  BY <1>1, <1>2, RepliesFacts, WithoutDir
<1>3. ASSUME NEW img, Goto(r, "mkdir"), request' = [request EXCEPT ![r].img = img] PROVE IInv'
  <2> DEFINE c == [request[r] EXCEPT !.img = img]
  <2>1. IsRequest(c) /\ c.dir = NoDir
    BY <1>1 DEF IInv, Types, IsRequest, Fields
  <2>2. request' = [request EXCEPT ![r] = c]
    BY <1>3
  <2> HIDE DEF c
  <2> QED
    BY <1>1, <1>3, <2>1, <2>2, GoesOn DEF Places
<1> DEFINE img == files[request[r].page]
<1>4. CASE img = Torn
  BY <1>2, <1>4 DEF Read
<1>5. CASE img # Torn /\ request[r].kind = "pdf"
  BY <1>2, <1>5 DEF Read
<1>6. CASE img # Torn /\ request[r].kind = "text"
  BY <1>3, <1>6 DEF Read
<1> QED
  BY <1>1, <1>4, <1>5, <1>6

LEMMA MkdirTempStep == ASSUME IInv, NEW r \in scene.requests, MkdirTemp(r) PROVE IInv'
<1>1. /\ at[r] = "mkdir" /\ request[r].dir = NoDir /\ UNCHANGED <<scene, left>>
  BY DEF MkdirTemp, imageVars, IInv, BeforeMkdirTemp
<1>2. ASSUME Replies(r, "error", Torn), Goto(r, "idle"), UNCHANGED dirs PROVE IInv'
  BY <1>1, <1>2, RepliesFacts, WithoutDir
<1>3. ASSUME NEW d \in FreshDir, DOMAIN dirs' = DOMAIN dirs \cup {d},
             request' = [request EXCEPT ![r].dir = d], Goto(r, "write")
      PROVE  IInv'
  <2> DEFINE c == [request[r] EXCEPT !.dir = d]
  <2>1. IsRequest(c) /\ c.dir = d
    BY DEF IInv, Types, IsRequest, Fields
  <2>2. request' = [request EXCEPT ![r] = c]
    BY <1>3
  <2> HIDE DEF c
  <2>3. DOMAIN dirs' \subseteq Dirs
    BY <1>3 DEF IInv, Types, FreshDir
  <2>4. /\ Types' /\ BeforeMkdirTemp'
        /\ \A s \in scene.requests \ {r} : at'[s] = at[s] /\ request'[s] = request[s]
        /\ at'[r] = "write" /\ request'[r] = c
    BY <1>1, <1>3, <2>1, <2>2, <2>3, OneRequest DEF IInv, Places
  <2>5. MyDir(r) \notin DOMAIN dirs'
    BY <1>1, <1>3, DirsAssumption DEF IInv, Types, MyDir, FreshDir
  <2>6. NoDirLeftBehind'
    BY <1>1, <1>3, <2>1, <2>4, <2>5, Owned DEF IInv, Running
  <2> QED
    BY <2>4, <2>6 DEF IInv
<1> QED
  BY <1>2, <1>3 DEF MkdirTemp

\* Every step that works in the directory leaves it to RemoveAll.
LEMMA WorkSteps ==
  ASSUME IInv, NEW r \in scene.requests, WritePPM(r) \/ RunUnpaper(r) \/ RunTesseract(r)
  PROVE  IInv'
<1>1. UNCHANGED <<scene, left>>
  BY DEF WritePPM, RunUnpaper, RunTesseract, Step, imageVars
<1>2. ASSUME NEW reply, NEW result, Replies(r, reply, result), Goto(r, ToRemove(r)), UNCHANGED dirs
      PROVE  IInv'
  BY <1>1, <1>2, RepliesFacts, GoesOn DEF ToRemove, Places
<1>3. ASSUME NEW place \in {"unpaper", "tesseract"}, Goto(r, place), UNCHANGED request,
             DOMAIN dirs' = DOMAIN dirs
      PROVE  IInv'
  <2>1. request' = [request EXCEPT ![r] = request[r]] /\ IsRequest(request[r])
    BY <1>3 DEF IInv, Types
  <2> QED
    BY <1>1, <1>3, <2>1, GoesOn DEF Places
<1>4. CASE WritePPM(r)
  BY <1>2, <1>3, <1>4 DEF WritePPM, Fails
<1>5. CASE RunUnpaper(r)
  BY <1>2, <1>3, <1>5 DEF RunUnpaper, Fails
<1>6. CASE RunTesseract(r)
  BY <1>2, <1>6 DEF RunTesseract, Fails
<1> QED
  BY <1>4, <1>5, <1>6

LEMMA RemoveAllStep == ASSUME IInv, NEW r \in scene.requests, RemoveAll(r) PROVE IInv'
<1> DEFINE c == [request[r] EXCEPT !.dir = NoDir]
<1>1. IsRequest(c)
  BY DEF IInv, Types, IsRequest, Fields
<1>2. request' = [request EXCEPT ![r] = c] /\ Goto(r, "idle") /\ UNCHANGED scene
  BY DEF RemoveAll, imageVars
<1> HIDE DEF c
<1>3. DOMAIN dirs' \subseteq DOMAIN dirs
  BY DEF RemoveAll
<1>4. /\ Types' /\ BeforeMkdirTemp'
      /\ \A s \in scene.requests \ {r} : at'[s] = at[s] /\ request'[s] = request[s]
  BY <1>1, <1>2, <1>3, OneRequest DEF IInv, Types, Places
<1>5. CASE DOMAIN dirs' = DOMAIN dirs \ {MyDir(r)} /\ UNCHANGED left
  <2>1. NoDirLeftBehind'
    BY <1>2, <1>3, <1>4, <1>5, Owned DEF IInv, Running
  <2> QED
    BY <1>4, <2>1 DEF IInv
<1>6. CASE left' = left \cup {MyDir(r)} /\ UNCHANGED dirs
  <2> SUFFICES ASSUME NEW d \in DOMAIN dirs, d \notin left, d # MyDir(r)
               PROVE  \E s \in scene.requests : Running(s)' /\ request'[s].dir = d
    BY <1>2, <1>4, <1>6 DEF IInv, NoDirLeftBehind, MyDir
  <2>1. PICK s \in scene.requests : Running(s) /\ MyDir(s) = d
    BY DEF IInv, NoDirLeftBehind
  <2> QED
    BY <1>4, <2>1 DEF Running, MyDir
<1> QED
  BY <1>5, <1>6 DEF RemoveAll

-------------------------------------------------------------------------------
(* The other steps *)

LEMMA CrashStep == ASSUME IInv, Crash PROVE IInv'
<1>1. /\ at' = [r \in scene.requests |-> "idle"] /\ request' = [r \in scene.requests |-> NoRequest]
      /\ UNCHANGED <<scene, dirs>> /\ DOMAIN dirs \subseteq left'
  BY DEF Crash
<1> QED
  BY <1>1, NoRequestFacts DEF IInv, Types, BeforeMkdirTemp, NoDirLeftBehind, Places

LEMMA OtherSteps ==
  ASSUME IInv, UNCHANGED <<scene, at, request, dirs, left>>
  PROVE  IInv'
BY DEF IInv, Types, BeforeMkdirTemp, NoDirLeftBehind, Running, MyDir

THEOREM Inductive == IInv /\ [Next]_vars => IInv'
<1> SUFFICES ASSUME IInv, [Next]_vars PROVE IInv'
  OBVIOUS
<1>1. CASE (ScanPage \/ Edit) /\ UNCHANGED ocrVars
  <2>1. UNCHANGED scene
    BY <1>1 DEF ScanPage, Edit, handleRotatePage, handleCropPage, CanEdit
  <2> QED
    BY <1>1, <2>1, OtherSteps DEF ocrVars
<1>2. CASE PageWritten
  BY <1>2, OtherSteps DEF PageWritten, WritePage
<1>3. CASE Crash
  BY <1>3, CrashStep
<1>4. ASSUME NEW r \in scene.requests,
             \/ \E kind \in {"text", "pdf"}, p \in 1 .. 2 : Begin(r, kind, p)
             \/ Read(r) \/ MkdirTemp(r) \/ WritePPM(r) \/ RunUnpaper(r) \/ RunTesseract(r)
             \/ RemoveAll(r)
      PROVE  IInv'
  BY <1>4, BeginStep, ReadStep, MkdirTempStep, WorkSteps, RemoveAllStep
<1>5. CASE UNCHANGED vars
  BY <1>5, OtherSteps DEF vars, imageVars, ocrVars
<1> QED
  BY <1>1, <1>2, <1>3, <1>4, <1>5 DEF Next

-------------------------------------------------------------------------------
(* Chunks one after the other *)

\* Induction over data goes by the least counterexample: the library's
\* induction theorems take an operator, which no prover here can instantiate.
Before == {ss \in Nat \X Nat : ss[1] < ss[2]}
LEMMA BeforeIsWellFounded == IsWellFoundedOn(Before, Nat)
BY NatLessThanWellFounded DEF OpToRel, Before

LEMMA Least == ASSUME NEW S \in SUBSET Nat, S # {} PROVE \E n \in S : \A m \in S : n <= m
<1>1. PICK x \in S : \A y \in S : ~ (<<y, x>> \in Before)
  BY BeforeIsWellFounded, WFMin
<1>2. ASSUME NEW y \in S PROVE x <= y
  <2>1. y \in Nat /\ x \in Nat
    OBVIOUS
  <2>2. ~ (y < x)
    BY <1>1, <2>1 DEF Before
  <2> QED
    BY <2>1, <2>2
<1> QED
  BY <1>2

\* Row y and column x of a grid that is w wide, as one number, and back.
LEMMA Cells ==
  ASSUME NEW w \in Nat \ {0}, NEW x \in 0 .. w - 1, NEW y \in Nat, NEW n, n = y * w + x
  PROVE  n \div w = y /\ n % w = x
OBVIOUS

LEMMA CellOf ==
  ASSUME NEW w \in Nat \ {0}, NEW n \in Nat
  PROVE  (n % w) \in 0 .. w - 1 /\ (n \div w) \in Nat /\ n = ((n \div w) * w) + (n % w)
OBVIOUS

LEMMA CellBelow ==
  ASSUME NEW w \in Nat \ {0}, NEW h \in Nat, NEW n \in 0 .. h * w - 1
  PROVE  (n % w) \in 0 .. w - 1 /\ (n \div w) \in 0 .. h - 1
<1> DEFINE q == n \div w
           r == n % w
<1>1. n \in Nat /\ n < h * w
  OBVIOUS
<1>2. r \in 0 .. w - 1 /\ q \in Nat /\ n = q * w + r
  BY <1>1, CellOf
<1> HIDE DEF q, r
<1>3. q * w < h * w
  BY <1>1, <1>2
<1>4. q < h
  BY <1>2, <1>3
<1> QED
  BY <1>2, <1>4 DEF q, r

LEMMA Index ==
  ASSUME NEW w \in Nat \ {0}, NEW h \in Nat, NEW x \in 0 .. w - 1, NEW y \in 0 .. h - 1
  PROVE  y * w + x \in 0 .. h * w - 1
<1>1. y + 1 <= h
  OBVIOUS
<1>2. (y + 1) * w <= h * w
  BY <1>1
<1>3. (y + 1) * w = y * w + w
  OBVIOUS
<1>4. y * w \in Nat /\ h * w \in Nat
  OBVIOUS
<1> QED
  BY <1>2, <1>3, <1>4

LEMMA Concatenated ==
  ASSUME NEW A, NEW m \in Nat, NEW p \in Nat, NEW s \in [1 .. m -> A], NEW t \in [1 .. p -> A]
  PROVE  /\ s \o t \in [1 .. m + p -> A]
         /\ \A k \in 1 .. m : (s \o t)[k] = s[k]
         /\ \A k \in 1 .. p : (s \o t)[m + k] = t[k]
<1>1. s \in Seq(A) /\ Len(s) = m /\ t \in Seq(A) /\ Len(t) = p
  OBVIOUS
<1>2. s \o t \in Seq(A) /\ Len(s \o t) = m + p
  BY <1>1
<1>3. /\ \A k \in 1 .. m : (s \o t)[k] = s[k]
      /\ \A k \in 1 .. p : (s \o t)[m + k] = t[k]
  BY <1>1
<1>4. \A q : q \in Seq(A) => q \in [1 .. Len(q) -> A]
  OBVIOUS
<1> QED
  BY <1>2, <1>3, <1>4

\* The first n chunks, one after the other.
Joined(chunks, L, n) ==
  [k \in 1 .. n * L |-> chunks[((k - 1) \div L) + 1][((k - 1) % L) + 1]]

LEMMA JoinedType ==
  ASSUME NEW N \in Nat \ {0}, NEW L \in Nat \ {0}, NEW A, NEW chunks \in [1 .. N -> [1 .. L -> A]],
         NEW n \in 0 .. N
  PROVE  Joined(chunks, L, n) \in [1 .. n * L -> A]
<1>1. ASSUME NEW k \in 1 .. n * L
      PROVE  chunks[((k - 1) \div L) + 1][((k - 1) % L) + 1] \in A
  <2>1. k - 1 \in 0 .. n * L - 1 /\ n \in Nat
    OBVIOUS
  <2>2. ((k - 1) % L) \in 0 .. L - 1 /\ ((k - 1) \div L) \in 0 .. n - 1
    BY <2>1, CellBelow
  <2>3. ((k - 1) % L) + 1 \in 1 .. L /\ ((k - 1) \div L) + 1 \in 1 .. N
    BY <2>2
  <2> QED
    BY <2>3
<1> QED
  BY <1>1 DEF Joined

LEMMA JoinedOne ==
  ASSUME NEW N \in Nat \ {0}, NEW L \in Nat \ {0}, NEW A, NEW chunks \in [1 .. N -> [1 .. L -> A]]
  PROVE  Joined(chunks, L, 1) = chunks[1]
<1>1. ASSUME NEW k \in 1 .. L PROVE ((k - 1) \div L) + 1 = 1 /\ ((k - 1) % L) + 1 = k
  <2>1. 0 \in Nat /\ k - 1 \in 0 .. L - 1 /\ k - 1 = 0 * L + (k - 1)
    OBVIOUS
  <2>2. (k - 1) \div L = 0 /\ (k - 1) % L = k - 1
    BY <2>1, Cells
  <2> QED
    BY <2>2
<1>2. 1 * L = L /\ chunks[1] \in [1 .. L -> A]
  OBVIOUS
<1> QED
  BY <1>1, <1>2 DEF Joined

LEMMA JoinedNext ==
  ASSUME NEW N \in Nat \ {0}, NEW L \in Nat \ {0}, NEW A, NEW chunks \in [1 .. N -> [1 .. L -> A]],
         NEW n \in 2 .. N
  PROVE  Joined(chunks, L, n) = Joined(chunks, L, n - 1) \o chunks[n]
<1> DEFINE m == (n - 1) * L
           spot(k) == chunks[((k - 1) \div L) + 1][((k - 1) % L) + 1]
<1>1. m \in Nat /\ n * L = m + L /\ n - 1 \in 0 .. N
  OBVIOUS
<1>2. /\ Joined(chunks, L, n - 1) = [k \in 1 .. m |-> spot(k)]
      /\ Joined(chunks, L, n) = [k \in 1 .. m + L |-> spot(k)]
  BY <1>1 DEF Joined
<1>3. ASSUME NEW i \in 1 .. L PROVE spot(m + i) = chunks[n][i]
  <2>1. i - 1 \in 0 .. L - 1 /\ (m + i) - 1 = (n - 1) * L + (i - 1) /\ n - 1 \in Nat
    BY <1>1
  <2>2. ((m + i) - 1) \div L = n - 1 /\ ((m + i) - 1) % L = i - 1
    <3>1. \A v : v = (n - 1) * L + (i - 1) => v \div L = n - 1 /\ v % L = i - 1
      BY <2>1, Cells
    <3> QED
      BY <2>1, <3>1
  <2>3. (((m + i) - 1) \div L) + 1 = n /\ (((m + i) - 1) % L) + 1 = i
    BY <2>2
  <2> QED
    BY <2>3
<1>4. chunks[n] \in [1 .. L -> A] /\ L \in Nat
  OBVIOUS
<1>5. Joined(chunks, L, n - 1) \in [1 .. m -> A]
  BY <1>1, JoinedType
<1> HIDE DEF spot, m
<1>6. /\ Joined(chunks, L, n - 1) \o chunks[n] \in [1 .. m + L -> A]
      /\ \A k \in 1 .. m : (Joined(chunks, L, n - 1) \o chunks[n])[k] = Joined(chunks, L, n - 1)[k]
      /\ \A k \in 1 .. L : (Joined(chunks, L, n - 1) \o chunks[n])[m + k] = chunks[n][k]
  <2> DEFINE s == Joined(chunks, L, n - 1)
             t == chunks[n]
  <2>1. m \in Nat /\ L \in Nat /\ s \in [1 .. m -> A] /\ t \in [1 .. L -> A]
    BY <1>1, <1>4, <1>5
  <2> HIDE DEF s, t
  <2>2. s \o t \in [1 .. m + L -> A]
    BY ONLY <2>1, Concatenated
  <2>3. \A k \in 1 .. m : (s \o t)[k] = s[k]
    BY ONLY <2>1, Concatenated
  <2>4. \A k \in 1 .. L : (s \o t)[m + k] = t[k]
    BY ONLY <2>1, Concatenated
  <2> QED
    BY <2>2, <2>3, <2>4 DEF s, t
<1>7. ASSUME NEW k \in 1 .. m + L
      PROVE  spot(k) = (Joined(chunks, L, n - 1) \o chunks[n])[k]
  <2>1. CASE k <= m
    <3>1. k \in 1 .. m
      BY <1>1, <2>1
    <3> QED
      BY <1>2, <1>6, <3>1
  <2>2. CASE ~ (k <= m)
    <3>1. k - m \in 1 .. L /\ m + (k - m) = k
      BY <1>1, <2>2
    <3> QED
      BY <1>3, <1>6, <3>1
  <2> QED
    BY <2>1, <2>2
<1> QED
  BY <1>2, <1>6, <1>7

LEMMA Flattened ==
  ASSUME NEW N \in Nat \ {0}, NEW L \in Nat \ {0}, NEW A, NEW chunks \in [1 .. N -> [1 .. L -> A]]
  PROVE  FlattenSeq(chunks) = Joined(chunks, L, N)
<1> DEFINE next(h, i) == IF i = 1 THEN chunks[i] ELSE h[i - 1] \o chunks[i]
           IsFlatten(h) == h = [i \in 1 .. N |-> next(h, i)]
           J(n) == Joined(chunks, L, n)
           f == [n \in 1 .. N |-> J(n)]
<1>1. FlattenSeq(chunks) = (CHOOSE h : IsFlatten(h))[N]
  <2>1. Len(chunks) = N
    OBVIOUS
  <2> QED
    BY <2>1 DEF FlattenSeq
<1>2. IsFlatten(f)
  <2>1. ASSUME NEW i \in 1 .. N PROVE J(i) = next(f, i)
    <3>1. CASE i = 1
      BY <3>1, JoinedOne
    <3>2. CASE i # 1
      <4>1. i \in 2 .. N /\ i - 1 \in 1 .. N
        BY <3>2
      <4>2. J(i) = J(i - 1) \o chunks[i]
        BY <4>1, JoinedNext
      <4>3. f[i - 1] = J(i - 1)
        BY <4>1
      <4> QED
        BY <3>2, <4>2, <4>3
    <3> QED
      BY <3>1, <3>2
  <2> HIDE DEF J, next
  <2> QED
    BY <2>1
<1> DEFINE h == CHOOSE g : IsFlatten(g)
<1>3. IsFlatten(h)
  <2> HIDE DEF IsFlatten, f
  <2> QED
    BY <1>2
<1> HIDE DEF h
<1>4. \A n \in 1 .. N : h[n] = J(n)
  <2> DEFINE wrong == {n \in 1 .. N : h[n] # J(n)}
  <2> SUFFICES ASSUME wrong # {} PROVE FALSE
    OBVIOUS
  <2>1. PICK n \in wrong : \A m \in wrong : n <= m
    <3>1. wrong \in SUBSET Nat
      OBVIOUS
    <3> HIDE DEF wrong
    <3> QED
      BY <3>1, Least
  <2>2. CASE n = 1
    <3>1. h[1] = chunks[1]
      BY <1>3
    <3> QED
      BY <2>1, <2>2, <3>1, JoinedOne
  <2>3. CASE n # 1
    <3>1. n \in 2 .. N /\ n - 1 \in 1 .. N /\ ~ (n <= n - 1)
      BY <2>1, <2>3
    <3>2. h[n - 1] = J(n - 1)
      BY <2>1, <3>1
    <3>3. h[n] = h[n - 1] \o chunks[n]
      <4>1. h[n] = next(h, n)
        <5> HIDE DEF next
        <5> QED
          BY <1>3, <3>1
      <4> QED
        BY <2>3, <4>1
    <3>4. J(n) = J(n - 1) \o chunks[n]
      BY <3>1, JoinedNext
    <3> QED
      BY <2>1, <3>2, <3>3, <3>4
  <2> QED
    BY <2>2, <2>3
<1>5. h[N] = J(N)
  <2> HIDE DEF J
  <2> QED
    BY <1>4
<1> QED
  BY <1>1, <1>5 DEF h
-------------------------------------------------------------------------------
(* Pictures *)

\* A picture with a pixel.
IsImage(img) ==
  /\ img = [w |-> img.w, h |-> img.h, px |-> img.px]
  /\ img.w \in Nat \ {0} /\ img.h \in Nat \ {0}
  /\ img.px = [spot \in (0 .. img.w - 1) \X (0 .. img.h - 1) |-> img.px[spot]]

LEMMA ImageIsNotTorn == ASSUME NEW img, IsImage(img) PROVE img # Torn /\ ImageOK(img)
BY DEF IsImage, Torn, ImageOK

\* What the pixels of a picture are.
LEMMA RotatedIsImage ==
  ASSUME NEW img, IsImage(img), NEW degrees \in {90, 180, 270}
  PROVE  IsImage(Rotate(img, degrees))
<1>1. degrees = 90 => Rotate(img, degrees) = imagingRotate270(img)
  BY DEF Rotate
<1>2. degrees = 180 => Rotate(img, degrees) = imagingRotate180(img)
  BY DEF Rotate
<1>3. degrees = 270 => Rotate(img, degrees) = imagingRotate90(img)
  BY DEF Rotate
<1>4. IsImage(imagingRotate270(img))
  BY DEF imagingRotate270, Picture, IsImage
<1>5. IsImage(imagingRotate180(img))
  BY DEF imagingRotate180, Picture, IsImage
<1>6. IsImage(imagingRotate90(img))
  BY DEF imagingRotate90, Picture, IsImage
<1> QED
  BY <1>1, <1>2, <1>3, <1>4, <1>5, <1>6

LEMMA Rotated90 ==
  ASSUME NEW img, IsImage(img), NEW turned, turned = Rotate(img, 90)
  PROVE  /\ turned.w = img.h /\ turned.h = img.w
         /\ \A x \in 0 .. img.h - 1, y \in 0 .. img.w - 1 :
              turned.px[<<x, y>>] = img.px[<<y, img.h - 1 - x>>]
<1>1. turned = imagingRotate270(img)
  BY DEF Rotate
<1>2. turned.w = img.h /\ turned.h = img.w
  BY <1>1 DEF imagingRotate270, Picture
<1>3. \A x \in 0 .. img.h - 1, y \in 0 .. img.w - 1 :
        turned.px[<<x, y>>] = img.px[<<y, img.h - 1 - x>>]
  BY <1>1 DEF imagingRotate270, Picture
<1> QED
  BY <1>2, <1>3

LEMMA Rotated180 ==
  ASSUME NEW img, IsImage(img), NEW turned, turned = Rotate(img, 180)
  PROVE  /\ turned.w = img.w /\ turned.h = img.h
         /\ \A x \in 0 .. img.w - 1, y \in 0 .. img.h - 1 :
              turned.px[<<x, y>>] = img.px[<<img.w - 1 - x, img.h - 1 - y>>]
<1>1. turned = imagingRotate180(img)
  BY DEF Rotate
<1>2. turned.w = img.w /\ turned.h = img.h
  BY <1>1 DEF imagingRotate180, Picture
<1>3. \A x \in 0 .. img.w - 1, y \in 0 .. img.h - 1 :
        turned.px[<<x, y>>] = img.px[<<img.w - 1 - x, img.h - 1 - y>>]
  BY <1>1 DEF imagingRotate180, Picture
<1> QED
  BY <1>2, <1>3

LEMMA Rotated270 ==
  ASSUME NEW img, IsImage(img), NEW turned, turned = Rotate(img, 270)
  PROVE  /\ turned.w = img.h /\ turned.h = img.w
         /\ \A x \in 0 .. img.h - 1, y \in 0 .. img.w - 1 :
              turned.px[<<x, y>>] = img.px[<<img.w - 1 - y, x>>]
<1>1. turned = imagingRotate90(img)
  BY DEF Rotate
<1>2. turned.w = img.h /\ turned.h = img.w
  BY <1>1 DEF imagingRotate90, Picture
<1>3. \A x \in 0 .. img.h - 1, y \in 0 .. img.w - 1 :
        turned.px[<<x, y>>] = img.px[<<img.w - 1 - y, x>>]
  BY <1>1 DEF imagingRotate90, Picture
<1> QED
  BY <1>2, <1>3

\* A rectangle within a picture.
Inside(r, img) == /\ r.x0 \in Nat /\ r.y0 \in Nat /\ r.x1 \in Int /\ r.y1 \in Int
                  /\ r.x0 < r.x1 /\ r.y0 < r.y1 /\ r.x1 <= img.w /\ r.y1 <= img.h

LEMMA Cropped ==
  ASSUME NEW img, IsImage(img), NEW r, Inside(r, img)
  PROVE  LET cut == imagingCrop(img, r) IN
         /\ IsImage(cut)
         /\ cut.w = r.x1 - r.x0 /\ cut.h = r.y1 - r.y0
         /\ \A x \in 0 .. r.x1 - r.x0 - 1, y \in 0 .. r.y1 - r.y0 - 1 :
              cut.px[<<x, y>>] = img.px[<<r.x0 + x, r.y0 + y>>]
<1> DEFINE cut == imagingCrop(img, r)
<1>1. cut.w = r.x1 - r.x0 /\ cut.h = r.y1 - r.y0
  BY DEF imagingCrop, Picture
<1>2. IsImage(cut)
  BY <1>1 DEF imagingCrop, Picture, IsImage, Inside
<1>3. \A x \in 0 .. r.x1 - r.x0 - 1, y \in 0 .. r.y1 - r.y0 - 1 :
              cut.px[<<x, y>>] = img.px[<<r.x0 + x, r.y0 + y>>]
  BY DEF imagingCrop, Picture, IsImage, Inside
<1> QED
  BY <1>1, <1>2, <1>3

\* The library's Min and Max, of what the code compares.
LEMMA LeastAndGreatest ==
  /\ \A a, b \in Int : /\ Min({a, b}) = IF a <= b THEN a ELSE b
                       /\ Max({a, b}) = IF a >= b THEN a ELSE b
BY DEF Min, Max

LEMMA ClampedIsInside ==
  ASSUME NEW img, IsImage(img), NEW r \in Rect, ~Empty(Clamped(r, img))
  PROVE  Inside(Clamped(r, img), img)
<1> DEFINE c == Clamped(r, img)
<1>1. /\ r.x0 \in Int /\ r.y0 \in Int /\ r.x1 \in Int /\ r.y1 \in Int
      /\ img.w \in Int /\ img.h \in Int
  BY DEF Rect, IsImage
<1>2. /\ c.x0 = Max({r.x0, 0}) /\ c.y0 = Max({r.y0, 0})
      /\ c.x1 = Min({r.x1, img.w}) /\ c.y1 = Min({r.y1, img.h})
  BY DEF Clamped
<1>3. c.x0 \in Nat /\ c.y0 \in Nat
  <2>1. 0 \in Int /\ \A a \in Int : Max({a, 0}) \in Nat
    BY LeastAndGreatest
  <2> QED
    BY ONLY <1>1, <1>2, <2>1
<1>4. c.x1 \in Int /\ c.y1 \in Int /\ c.x1 <= img.w /\ c.y1 <= img.h
  BY <1>1, <1>2, LeastAndGreatest
<1>5. c.x0 < c.x1 /\ c.y0 < c.y1
  BY <1>3, <1>4 DEF Empty
<1> QED
  BY <1>3, <1>4, <1>5 DEF Inside

LEMMA RectangleType ==
  ASSUME NEW x0 \in Int, NEW y0 \in Int, NEW x1 \in Int, NEW y1 \in Int
  PROVE  Rectangle(x0, y0, x1, y1) \in Rect
BY LeastAndGreatest DEF Rectangle, Rect

LEMMA WrappedType == ASSUME NEW n \in Int PROVE Wrapped(n) \in Int
BY WidthAssumption DEF Wrapped

LEMMA Bounds ==
  ASSUME NEW a \in Int, NEW b \in Int, a <= b
  PROVE  Min(a .. b) = a /\ Max(a .. b) = b
<1>1. \E x \in a .. b : \A y \in a .. b : x =< y
  OBVIOUS
<1>2. \E x \in a .. b : \A y \in a .. b : x >= y
  OBVIOUS
<1> QED
  BY <1>1, <1>2 DEF Min, Max

-------------------------------------------------------------------------------
(* What a picture shows of its side of the sheet *)

\* The rectangle of a side that a page shows.
Box(b) == (b.x0 .. b.x1) \X (b.y0 .. b.y1)
IsBox(b) == b \in Rect /\ b.x0 <= b.x1 /\ b.y0 <= b.y1

LEMMA Sides ==
  ASSUME NEW b, IsBox(b)
  PROVE  /\ {o[1] : o \in Box(b)} = b.x0 .. b.x1
         /\ {o[2] : o \in Box(b)} = b.y0 .. b.y1
<1>1. b.x0 \in b.x0 .. b.x1 /\ b.y0 \in b.y0 .. b.y1
  BY DEF IsBox, Rect
<1>2. ASSUME NEW x \in b.x0 .. b.x1 PROVE x \in {o[1] : o \in Box(b)}
  <2>1. <<x, b.y0>> \in Box(b) /\ <<x, b.y0>>[1] = x
    BY <1>1 DEF Box
  <2> QED
    BY <2>1
<1>3. ASSUME NEW y \in b.y0 .. b.y1 PROVE y \in {o[2] : o \in Box(b)}
  <2>1. <<b.x0, y>> \in Box(b) /\ <<b.x0, y>>[2] = y
    BY <1>1 DEF Box
  <2> QED
    BY <2>1
<1>4. \A o \in Box(b) : o[1] \in b.x0 .. b.x1 /\ o[2] \in b.y0 .. b.y1
  BY DEF Box
<1> QED
  BY <1>2, <1>3, <1>4

\* Where it shows a point of it, as far as it is turned.
Place(x, y, b, quarters) ==
  CASE quarters = 0 -> <<x - b.x0, y - b.y0>>
    [] quarters = 1 -> <<b.y1 - y, x - b.x0>>
    [] quarters = 2 -> <<b.x1 - x, b.y1 - y>>
    [] quarters = 3 -> <<y - b.y0, b.x1 - x>>

LEMMA ShownIs ==
  ASSUME NEW b, IsBox(b), NEW spot, NEW quarters \in 0 .. 3
  PROVE  Shown(spot, Box(b), quarters) = Place(spot[1], spot[2], b, quarters)
<1>1. {o[1] : o \in Box(b)} = b.x0 .. b.x1 /\ {o[2] : o \in Box(b)} = b.y0 .. b.y1
  BY Sides
<1>2. /\ Min(b.x0 .. b.x1) = b.x0 /\ Max(b.x0 .. b.x1) = b.x1
      /\ Min(b.y0 .. b.y1) = b.y0 /\ Max(b.y0 .. b.y1) = b.y1
  BY Bounds DEF IsBox, Rect
<1> QED
  BY <1>1, <1>2 DEF Shown, Place

\* The picture shows the points of the box, of the p-th page of the sheet.
ShowsBox(img, quarters, b, p) ==
  /\ quarters \in 0 .. 3
  /\ IF quarters \in {0, 2} THEN img.w = b.x1 - b.x0 + 1 /\ img.h = b.y1 - b.y0 + 1
     ELSE img.h = b.x1 - b.x0 + 1 /\ img.w = b.y1 - b.y0 + 1
  /\ \A x \in b.x0 .. b.x1, y \in b.y0 .. b.y1 :
       img.px[Place(x, y, b, quarters)] = Original(p, <<x, y>>)

\* A turn by 90 degrees; the others are turns by 90 degrees, too.
LEMMA TurnedOnce ==
  ASSUME NEW img, IsImage(img), NEW b, IsBox(b), NEW p, NEW quarters, ShowsBox(img, quarters, b, p)
  PROVE  ShowsBox(Rotate(img, 90), (quarters + 1) % 4, b, p)
<1> DEFINE turned == Rotate(img, 90)
           q == (quarters + 1) % 4
<1>1. quarters \in 0 .. 3 /\ q \in 0 .. 3 /\ b \in Rect
  BY DEF ShowsBox, IsBox
<1>2. /\ turned.w = img.h /\ turned.h = img.w
      /\ \A x \in 0 .. img.h - 1, y \in 0 .. img.w - 1 :
           turned.px[<<x, y>>] = img.px[<<y, img.h - 1 - x>>]
  BY Rotated90
<1> HIDE DEF turned
<1>3. ASSUME NEW x \in b.x0 .. b.x1, NEW y \in b.y0 .. b.y1
      PROVE  turned.px[Place(x, y, b, q)] = img.px[Place(x, y, b, quarters)]
  <2>0. /\ b.x0 \in Int /\ b.y0 \in Int /\ b.x1 \in Int /\ b.y1 \in Int
        /\ x \in Int /\ y \in Int
    BY DEF IsBox, Rect
  <2>1. CASE quarters = 0
    <3>1. q = 1 /\ img.h = b.y1 - b.y0 + 1 /\ img.w = b.x1 - b.x0 + 1
      BY <2>1 DEF ShowsBox
    <3> DEFINE u == b.y1 - y
               v == x - b.x0
    <3>2. u \in 0 .. img.h - 1 /\ v \in 0 .. img.w - 1 /\ img.h - 1 - u = y - b.y0
      BY <2>0, <3>1
    <3>3. Place(x, y, b, q) = <<u, v>> /\ Place(x, y, b, quarters) = <<v, img.h - 1 - u>>
      BY <2>1, <3>1, <3>2 DEF Place
    <3> HIDE DEF u, v
    <3> QED
      BY <1>2, <3>2, <3>3
  <2>2. CASE quarters = 1
    <3>1. q = 2 /\ img.h = b.x1 - b.x0 + 1 /\ img.w = b.y1 - b.y0 + 1
      BY <2>2 DEF ShowsBox
    <3> DEFINE u == b.x1 - x
               v == b.y1 - y
    <3>2. u \in 0 .. img.h - 1 /\ v \in 0 .. img.w - 1 /\ img.h - 1 - u = x - b.x0
      BY <2>0, <3>1
    <3>3. Place(x, y, b, q) = <<u, v>> /\ Place(x, y, b, quarters) = <<v, img.h - 1 - u>>
      BY <2>2, <3>1, <3>2 DEF Place
    <3> HIDE DEF u, v
    <3> QED
      BY <1>2, <3>2, <3>3
  <2>3. CASE quarters = 2
    <3>1. q = 3 /\ img.h = b.y1 - b.y0 + 1 /\ img.w = b.x1 - b.x0 + 1
      BY <2>3 DEF ShowsBox
    <3> DEFINE u == y - b.y0
               v == b.x1 - x
    <3>2. u \in 0 .. img.h - 1 /\ v \in 0 .. img.w - 1 /\ img.h - 1 - u = b.y1 - y
      BY <2>0, <3>1
    <3>3. Place(x, y, b, q) = <<u, v>> /\ Place(x, y, b, quarters) = <<v, img.h - 1 - u>>
      BY <2>3, <3>1, <3>2 DEF Place
    <3> HIDE DEF u, v
    <3> QED
      BY <1>2, <3>2, <3>3
  <2>4. CASE quarters = 3
    <3>1. q = 0 /\ img.h = b.x1 - b.x0 + 1 /\ img.w = b.y1 - b.y0 + 1
      BY <2>4 DEF ShowsBox
    <3> DEFINE u == x - b.x0
               v == y - b.y0
    <3>2. u \in 0 .. img.h - 1 /\ v \in 0 .. img.w - 1 /\ img.h - 1 - u = b.x1 - x
      BY <2>0, <3>1
    <3>3. Place(x, y, b, q) = <<u, v>> /\ Place(x, y, b, quarters) = <<v, img.h - 1 - u>>
      BY <2>4, <3>1, <3>2 DEF Place
    <3> HIDE DEF u, v
    <3> QED
      BY <1>2, <3>2, <3>3
  <2> QED
    BY <1>1, <2>1, <2>2, <2>3, <2>4
<1>4. IF q \in {0, 2} THEN turned.w = b.x1 - b.x0 + 1 /\ turned.h = b.y1 - b.y0 + 1
      ELSE turned.h = b.x1 - b.x0 + 1 /\ turned.w = b.y1 - b.y0 + 1
  BY <1>1, <1>2 DEF ShowsBox
<1>5. ASSUME NEW x \in b.x0 .. b.x1, NEW y \in b.y0 .. b.y1
      PROVE  turned.px[Place(x, y, b, q)] = Original(p, <<x, y>>)
  BY <1>3 DEF ShowsBox
<1> HIDE DEF q
<1> QED
  BY <1>1, <1>4, <1>5 DEF ShowsBox, turned, q

LEMMA SameImage ==
  ASSUME NEW img, IsImage(img), NEW other, IsImage(other), img.w = other.w, img.h = other.h,
         \A x \in 0 .. img.w - 1, y \in 0 .. img.h - 1 : img.px[<<x, y>>] = other.px[<<x, y>>]
  PROVE  img = other
<1>1. \A spot \in (0 .. img.w - 1) \X (0 .. img.h - 1) : img.px[spot] = other.px[spot]
  OBVIOUS
<1>2. img.px = other.px
  BY <1>1 DEF IsImage
<1> QED
  BY <1>2 DEF IsImage

LEMMA TurnedTwice ==
  ASSUME NEW img, IsImage(img)
  PROVE  Rotate(img, 180) = Rotate(Rotate(img, 90), 90)
<1> DEFINE once == Rotate(img, 90)
           twice == Rotate(once, 90)
           half == Rotate(img, 180)
<1>1. IsImage(once) /\ IsImage(twice) /\ IsImage(half)
  BY RotatedIsImage
<1>2. /\ once.w = img.h /\ once.h = img.w
      /\ \A x \in 0 .. img.h - 1, y \in 0 .. img.w - 1 :
           once.px[<<x, y>>] = img.px[<<y, img.h - 1 - x>>]
  BY Rotated90
<1>3. /\ twice.w = once.h /\ twice.h = once.w
      /\ \A x \in 0 .. once.h - 1, y \in 0 .. once.w - 1 :
           twice.px[<<x, y>>] = once.px[<<y, once.h - 1 - x>>]
  BY <1>1, Rotated90
<1>4. /\ half.w = img.w /\ half.h = img.h
      /\ \A x \in 0 .. img.w - 1, y \in 0 .. img.h - 1 :
           half.px[<<x, y>>] = img.px[<<img.w - 1 - x, img.h - 1 - y>>]
  BY Rotated180
<1> HIDE DEF once, twice, half
<1>5. ASSUME NEW x \in 0 .. img.w - 1, NEW y \in 0 .. img.h - 1
      PROVE  half.px[<<x, y>>] = twice.px[<<x, y>>]
  <2>1. img.w - 1 - x \in 0 .. img.w - 1
    BY DEF IsImage
  <2>2. twice.px[<<x, y>>] = once.px[<<y, img.w - 1 - x>>]
    BY <1>2, <1>3
  <2> QED
    BY <1>2, <1>4, <2>1, <2>2
<1> QED
  BY <1>1, <1>2, <1>3, <1>4, <1>5, SameImage DEF once, twice, half

LEMMA TurnedThrice ==
  ASSUME NEW img, IsImage(img)
  PROVE  Rotate(img, 270) = Rotate(Rotate(img, 180), 90)
<1> DEFINE half == Rotate(img, 180)
           thrice == Rotate(half, 90)
           back == Rotate(img, 270)
<1>1. IsImage(half) /\ IsImage(thrice) /\ IsImage(back)
  BY RotatedIsImage
<1>2. /\ half.w = img.w /\ half.h = img.h
      /\ \A x \in 0 .. img.w - 1, y \in 0 .. img.h - 1 :
           half.px[<<x, y>>] = img.px[<<img.w - 1 - x, img.h - 1 - y>>]
  BY Rotated180
<1>3. /\ thrice.w = half.h /\ thrice.h = half.w
      /\ \A x \in 0 .. half.h - 1, y \in 0 .. half.w - 1 :
           thrice.px[<<x, y>>] = half.px[<<y, half.h - 1 - x>>]
  BY <1>1, Rotated90
<1>4. /\ back.w = img.h /\ back.h = img.w
      /\ \A x \in 0 .. img.h - 1, y \in 0 .. img.w - 1 :
           back.px[<<x, y>>] = img.px[<<img.w - 1 - y, x>>]
  BY Rotated270
<1> HIDE DEF half, thrice, back
<1>5. ASSUME NEW x \in 0 .. img.h - 1, NEW y \in 0 .. img.w - 1
      PROVE  back.px[<<x, y>>] = thrice.px[<<x, y>>]
  <2>1. img.h - 1 - x \in 0 .. img.h - 1 /\ img.h - 1 - (img.h - 1 - x) = x
    BY DEF IsImage
  <2>2. thrice.px[<<x, y>>] = half.px[<<y, img.h - 1 - x>>]
    BY <1>2, <1>3
  <2> QED
    BY <1>2, <1>4, <2>1, <2>2
<1> QED
  BY <1>1, <1>2, <1>3, <1>4, <1>5, SameImage DEF half, thrice, back

LEMMA TurnedShows ==
  ASSUME NEW img, IsImage(img), NEW b, IsBox(b), NEW p, NEW quarters, ShowsBox(img, quarters, b, p),
         NEW degrees \in {90, 180, 270}
  PROVE  ShowsBox(Rotate(img, degrees), (quarters + degrees \div 90) % 4, b, p)
<1> DEFINE next(q) == (q + 1) % 4
<1>1. quarters \in 0 .. 3
  BY DEF ShowsBox
<1>2. ShowsBox(Rotate(img, 90), next(quarters), b, p) /\ IsImage(Rotate(img, 90))
  BY TurnedOnce, RotatedIsImage
<1>3. ShowsBox(Rotate(img, 180), next(next(quarters)), b, p) /\ IsImage(Rotate(img, 180))
  BY <1>2, TurnedOnce, TurnedTwice, RotatedIsImage
<1>4. ShowsBox(Rotate(img, 270), next(next(next(quarters))), b, p)
  BY <1>3, TurnedOnce, TurnedThrice
<1>5. /\ 90 \div 90 = 1 /\ 180 \div 90 = 2 /\ 270 \div 90 = 3
      /\ next(quarters) = (quarters + 1) % 4
      /\ next(next(quarters)) = (quarters + 2) % 4
      /\ next(next(next(quarters))) = (quarters + 3) % 4
  BY <1>1
<1> HIDE DEF next
<1> QED
  BY <1>2, <1>3, <1>4, <1>5

\* The box of what a crop leaves of it.
Cut(b, r, quarters) ==
  CASE quarters = 0 -> [x0 |-> b.x0 + r.x0, y0 |-> b.y0 + r.y0,
                        x1 |-> b.x0 + r.x1 - 1, y1 |-> b.y0 + r.y1 - 1]
    [] quarters = 1 -> [x0 |-> b.x0 + r.y0, y0 |-> b.y1 - r.x1 + 1,
                        x1 |-> b.x0 + r.y1 - 1, y1 |-> b.y1 - r.x0]
    [] quarters = 2 -> [x0 |-> b.x1 - r.x1 + 1, y0 |-> b.y1 - r.y1 + 1,
                        x1 |-> b.x1 - r.x0, y1 |-> b.y1 - r.y0]
    [] quarters = 3 -> [x0 |-> b.x1 - r.y1 + 1, y0 |-> b.y0 + r.x0,
                        x1 |-> b.x1 - r.y0, y1 |-> b.y0 + r.x1 - 1]

LEMMA CroppedShows ==
  ASSUME NEW img, IsImage(img), NEW b, IsBox(b), NEW p, NEW quarters, ShowsBox(img, quarters, b, p),
         NEW r \in Rect, ~Empty(Clamped(r, img))
  PROVE  LET c == Clamped(r, img)
             kept == Cut(b, c, quarters)
         IN  /\ IsBox(kept)
             /\ ShowsBox(imagingCrop(img, c), quarters, kept, p)
             /\ Box(kept) = {o \in Box(b) : LET spot == Shown(o, Box(b), quarters) IN
                               /\ r.x0 <= spot[1] /\ spot[1] < r.x1
                               /\ r.y0 <= spot[2] /\ spot[2] < r.y1}
<1> DEFINE c == Clamped(r, img)
           kept == Cut(b, c, quarters)
           cut == imagingCrop(img, c)
           Within(spot) == r.x0 <= spot[1] /\ spot[1] < r.x1 /\ r.y0 <= spot[2] /\ spot[2] < r.y1
<1>1. /\ b.x0 \in Int /\ b.y0 \in Int /\ b.x1 \in Int /\ b.y1 \in Int
      /\ b.x0 <= b.x1 /\ b.y0 <= b.y1 /\ quarters \in 0 .. 3
      /\ r.x0 \in Int /\ r.y0 \in Int /\ r.x1 \in Int /\ r.y1 \in Int
  BY DEF IsBox, Rect, ShowsBox
<1>2. Inside(c, img)
  BY ClampedIsInside
<1>3. /\ cut.w = c.x1 - c.x0 /\ cut.h = c.y1 - c.y0
      /\ \A x \in 0 .. c.x1 - c.x0 - 1, y \in 0 .. c.y1 - c.y0 - 1 :
           cut.px[<<x, y>>] = img.px[<<c.x0 + x, c.y0 + y>>]
  BY <1>2, Cropped
<1>4. \A x \in 0 .. img.w - 1, y \in 0 .. img.h - 1 :
        Within(<<x, y>>) <=> x \in c.x0 .. c.x1 - 1 /\ y \in c.y0 .. c.y1 - 1
  <2>1. /\ c.x0 = Max({r.x0, 0}) /\ c.y0 = Max({r.y0, 0})
        /\ c.x1 = Min({r.x1, img.w}) /\ c.y1 = Min({r.y1, img.h})
    BY DEF Clamped
  <2>2. img.w \in Int /\ img.h \in Int /\ 0 \in Int
    BY DEF IsImage
  <2>3. \A z \in Int, x \in Nat : z <= x <=> Max({z, 0}) <= x
    <3>1. \A z \in Int : Max({z, 0}) = IF z >= 0 THEN z ELSE 0
      BY <2>2, LeastAndGreatest
    <3> QED
      BY <3>1
  <2>4. \A x \in 0 .. img.w - 1 : x < r.x1 <=> x <= c.x1 - 1
    BY <1>1, <2>1, <2>2, LeastAndGreatest
  <2>5. \A y \in 0 .. img.h - 1 : y < r.y1 <=> y <= c.y1 - 1
    BY <1>1, <2>1, <2>2, LeastAndGreatest
  <2> QED
    BY <1>1, <1>2, <2>1, <2>2, <2>3, <2>4, <2>5 DEF Inside
<1> HIDE DEF c, cut, kept, Within
<1>5. IsBox(kept) /\ b.x0 <= kept.x0 /\ kept.x1 <= b.x1 /\ b.y0 <= kept.y0 /\ kept.y1 <= b.y1
  BY <1>1, <1>2 DEF kept, Cut, IsBox, Rect, Inside, ShowsBox
<1>6. ASSUME NEW x \in b.x0 .. b.x1, NEW y \in b.y0 .. b.y1
      PROVE  \E u \in 0 .. img.w - 1, v \in 0 .. img.h - 1 :
               /\ Place(x, y, b, quarters) = <<u, v>>
               /\ x \in kept.x0 .. kept.x1 /\ y \in kept.y0 .. kept.y1
                    <=> u \in c.x0 .. c.x1 - 1 /\ v \in c.y0 .. c.y1 - 1
               /\ Place(x, y, kept, quarters) = <<u - c.x0, v - c.y0>>
  <2>0. x \in Int /\ y \in Int
    BY <1>1
  <2>1. CASE quarters = 0
    <3>1. kept = [x0 |-> b.x0 + c.x0, y0 |-> b.y0 + c.y0, x1 |-> b.x0 + c.x1 - 1, y1 |-> b.y0 + c.y1 - 1]
      BY <2>1 DEF kept, Cut
    <3>2. Place(x, y, b, quarters) = <<x - b.x0, y - b.y0>>
      BY <2>1 DEF Place
    <3>3. Place(x, y, kept, quarters) = <<x - kept.x0, y - kept.y0>>
      BY <2>1 DEF Place
    <3> DEFINE u == x - b.x0
               v == y - b.y0
    <3>4. u \in 0 .. img.w - 1 /\ v \in 0 .. img.h - 1
      BY <1>1, <2>0, <2>1 DEF ShowsBox
    <3>5. x \in kept.x0 .. kept.x1 /\ y \in kept.y0 .. kept.y1
            <=> u \in c.x0 .. c.x1 - 1 /\ v \in c.y0 .. c.y1 - 1
      BY <1>1, <1>2, <2>0, <3>1 DEF Inside
    <3>6. Place(x, y, kept, quarters) = <<u - c.x0, v - c.y0>>
      BY <1>1, <1>2, <2>0, <3>1, <3>3 DEF Inside
    <3> QED
      BY <3>2, <3>4, <3>5, <3>6
  <2>2. CASE quarters = 1
    <3>1. kept = [x0 |-> b.x0 + c.y0, y0 |-> b.y1 - c.x1 + 1, x1 |-> b.x0 + c.y1 - 1, y1 |-> b.y1 - c.x0]
      BY <2>2 DEF kept, Cut
    <3>2. Place(x, y, b, quarters) = <<b.y1 - y, x - b.x0>>
      BY <2>2 DEF Place
    <3>3. Place(x, y, kept, quarters) = <<kept.y1 - y, x - kept.x0>>
      BY <2>2 DEF Place
    <3> DEFINE u == b.y1 - y
               v == x - b.x0
    <3>4. u \in 0 .. img.w - 1 /\ v \in 0 .. img.h - 1
      BY <1>1, <2>0, <2>2 DEF ShowsBox
    <3>5. x \in kept.x0 .. kept.x1 /\ y \in kept.y0 .. kept.y1
            <=> u \in c.x0 .. c.x1 - 1 /\ v \in c.y0 .. c.y1 - 1
      BY <1>1, <1>2, <2>0, <3>1 DEF Inside
    <3>6. Place(x, y, kept, quarters) = <<u - c.x0, v - c.y0>>
      BY <1>1, <1>2, <2>0, <3>1, <3>3 DEF Inside
    <3> QED
      BY <3>2, <3>4, <3>5, <3>6
  <2>3. CASE quarters = 2
    <3>1. kept = [x0 |-> b.x1 - c.x1 + 1, y0 |-> b.y1 - c.y1 + 1, x1 |-> b.x1 - c.x0, y1 |-> b.y1 - c.y0]
      BY <2>3 DEF kept, Cut
    <3>2. Place(x, y, b, quarters) = <<b.x1 - x, b.y1 - y>>
      BY <2>3 DEF Place
    <3>3. Place(x, y, kept, quarters) = <<kept.x1 - x, kept.y1 - y>>
      BY <2>3 DEF Place
    <3> DEFINE u == b.x1 - x
               v == b.y1 - y
    <3>4. u \in 0 .. img.w - 1 /\ v \in 0 .. img.h - 1
      BY <1>1, <2>0, <2>3 DEF ShowsBox
    <3>5. x \in kept.x0 .. kept.x1 /\ y \in kept.y0 .. kept.y1
            <=> u \in c.x0 .. c.x1 - 1 /\ v \in c.y0 .. c.y1 - 1
      BY <1>1, <1>2, <2>0, <3>1 DEF Inside
    <3>6. Place(x, y, kept, quarters) = <<u - c.x0, v - c.y0>>
      BY <1>1, <1>2, <2>0, <3>1, <3>3 DEF Inside
    <3> QED
      BY <3>2, <3>4, <3>5, <3>6
  <2>4. CASE quarters = 3
    <3>1. kept = [x0 |-> b.x1 - c.y1 + 1, y0 |-> b.y0 + c.x0, x1 |-> b.x1 - c.y0, y1 |-> b.y0 + c.x1 - 1]
      BY <2>4 DEF kept, Cut
    <3>2. Place(x, y, b, quarters) = <<y - b.y0, b.x1 - x>>
      BY <2>4 DEF Place
    <3>3. Place(x, y, kept, quarters) = <<y - kept.y0, kept.x1 - x>>
      BY <2>4 DEF Place
    <3> DEFINE u == y - b.y0
               v == b.x1 - x
    <3>4. u \in 0 .. img.w - 1 /\ v \in 0 .. img.h - 1
      BY <1>1, <2>0, <2>4 DEF ShowsBox
    <3>5. x \in kept.x0 .. kept.x1 /\ y \in kept.y0 .. kept.y1
            <=> u \in c.x0 .. c.x1 - 1 /\ v \in c.y0 .. c.y1 - 1
      BY <1>1, <1>2, <2>0, <3>1 DEF Inside
    <3>6. Place(x, y, kept, quarters) = <<u - c.x0, v - c.y0>>
      BY <1>1, <1>2, <2>0, <3>1, <3>3 DEF Inside
    <3> QED
      BY <3>2, <3>4, <3>5, <3>6
  <2> QED
    BY <1>1, <2>1, <2>2, <2>3, <2>4
<1>7. ASSUME NEW x \in kept.x0 .. kept.x1, NEW y \in kept.y0 .. kept.y1
      PROVE  cut.px[Place(x, y, kept, quarters)] = Original(p, <<x, y>>)
  <2>1. x \in b.x0 .. b.x1 /\ y \in b.y0 .. b.y1
    BY <1>1, <1>5 DEF IsBox, Rect
  <2>2. PICK u \in 0 .. img.w - 1, v \in 0 .. img.h - 1 :
               /\ Place(x, y, b, quarters) = <<u, v>>
               /\ u \in c.x0 .. c.x1 - 1 /\ v \in c.y0 .. c.y1 - 1
               /\ Place(x, y, kept, quarters) = <<u - c.x0, v - c.y0>>
    BY <1>6, <2>1
  <2>3. /\ u - c.x0 \in 0 .. c.x1 - c.x0 - 1 /\ v - c.y0 \in 0 .. c.y1 - c.y0 - 1
        /\ c.x0 + (u - c.x0) = u /\ c.y0 + (v - c.y0) = v
    BY <1>2, <2>2 DEF Inside
  <2>4. cut.px[<<u - c.x0, v - c.y0>>] = img.px[<<u, v>>]
    BY <1>3, <2>3
  <2> QED
    BY <2>1, <2>2, <2>4 DEF ShowsBox
<1>8. IF quarters \in {0, 2} THEN cut.w = kept.x1 - kept.x0 + 1 /\ cut.h = kept.y1 - kept.y0 + 1
      ELSE cut.h = kept.x1 - kept.x0 + 1 /\ cut.w = kept.y1 - kept.y0 + 1
  BY <1>1, <1>2, <1>3 DEF kept, Cut, Inside
<1>9. Box(kept) = {o \in Box(b) : Within(Shown(o, Box(b), quarters))}
  <2>1. ASSUME NEW o \in Box(b)
        PROVE  o \in Box(kept) <=> Within(Shown(o, Box(b), quarters))
    <3>1. o[1] \in b.x0 .. b.x1 /\ o[2] \in b.y0 .. b.y1 /\ o = <<o[1], o[2]>>
      BY DEF Box
    <3>2. PICK u \in 0 .. img.w - 1, v \in 0 .. img.h - 1 :
               /\ Place(o[1], o[2], b, quarters) = <<u, v>>
               /\ o[1] \in kept.x0 .. kept.x1 /\ o[2] \in kept.y0 .. kept.y1
                    <=> u \in c.x0 .. c.x1 - 1 /\ v \in c.y0 .. c.y1 - 1
      BY <1>6, <3>1
    <3>3. Shown(o, Box(b), quarters) = <<u, v>>
      BY <1>1, <3>2, ShownIs
    <3>4. o \in Box(kept) <=> o[1] \in kept.x0 .. kept.x1 /\ o[2] \in kept.y0 .. kept.y1
      BY <3>1 DEF Box
    <3> QED
      BY <1>4, <3>2, <3>3, <3>4
  <2>2. Box(kept) \subseteq Box(b)
    BY <1>1, <1>5 DEF Box, IsBox, Rect
  <2> QED
    BY <2>1, <2>2
<1> QED
  BY <1>1, <1>5, <1>7, <1>8, <1>9 DEF ShowsBox, c, kept, cut, Within

\* What PageShowsItsSide says of a page.
LEMMA ShowsTheSide ==
  ASSUME NEW img, NEW b, IsBox(b), NEW p, NEW quarters, ShowsBox(img, quarters, b, p)
  PROVE  /\ img.w * img.h = Cardinality(Box(b))
         /\ \A o \in Box(b) : img.px[Shown(o, Box(b), quarters)] = Original(p, o)
<1>1. /\ b.x0 \in Int /\ b.y0 \in Int /\ b.x1 \in Int /\ b.y1 \in Int
      /\ b.x0 <= b.x1 /\ b.y0 <= b.y1 /\ quarters \in 0 .. 3
  BY DEF IsBox, Rect, ShowsBox
<1> DEFINE width == b.x1 - b.x0 + 1
           height == b.y1 - b.y0 + 1
<1>2. Cardinality(Box(b)) = width * height
  <2>1. ASSUME NEW i \in Int, NEW j \in Int, i <= j
        PROVE  IsFiniteSet(i .. j) /\ Cardinality(i .. j) = j - i + 1
    <3>1. ~(i > j)
      BY <2>1
    <3> QED
      BY <3>1, FS_Interval
  <2> DEFINE S == b.x0 .. b.x1
             T == b.y0 .. b.y1
  <2>2. /\ IsFiniteSet(S) /\ Cardinality(S) = width
        /\ IsFiniteSet(T) /\ Cardinality(T) = height
    BY <1>1, <2>1
  <2> HIDE DEF S, T
  <2>3. Cardinality(S \X T) = width * height
    BY <2>2, FS_Product
  <2> QED
    BY <2>3 DEF Box, S, T
<1>3. img.w * img.h = width * height
  <2>1. width \in Int /\ height \in Int /\ width * height = height * width
    BY <1>1
  <2>2. (img.w = width /\ img.h = height) \/ (img.w = height /\ img.h = width)
    BY DEF ShowsBox
  <2> HIDE DEF width, height
  <2> QED
    BY <2>1, <2>2
<1>4. ASSUME NEW o \in Box(b) PROVE img.px[Shown(o, Box(b), quarters)] = Original(p, o)
  <2>1. o[1] \in b.x0 .. b.x1 /\ o[2] \in b.y0 .. b.y1 /\ o = <<o[1], o[2]>>
    BY DEF Box
  <2>2. Shown(o, Box(b), quarters) = Place(o[1], o[2], b, quarters)
    BY <1>1, ShownIs
  <2>3. img.px[Place(o[1], o[2], b, quarters)] = Original(p, <<o[1], o[2]>>)
    BY <2>1 DEF ShowsBox
  <2> QED
    BY <2>1, <2>2, <2>3
<1> QED
  BY <1>2, <1>3, <1>4

-------------------------------------------------------------------------------
(* The images of a sheet *)

ChunkLen == StripeLines * ImageWidth

LEMMA Sizes ==
  /\ ImageWidth \in Nat \ {0} /\ StripeLines \in Nat \ {0} /\ ChunkLen \in Nat \ {0}
BY SizeAssumption DEF ChunkLen

LEMMA ChunkType ==
  ASSUME NEW n \in Nat
  PROVE  Chunk(n) \in [1 .. ChunkLen -> Nat \X Nat \X Nat]
<1>1. ASSUME NEW i \in 1 .. ChunkLen
      PROVE  <<n, (i - 1) \div ImageWidth, (i - 1) % ImageWidth>> \in Nat \X Nat \X Nat
  <2>1. i - 1 \in Nat
    BY Sizes
  <2>2. (i - 1) \div ImageWidth \in Nat /\ (i - 1) % ImageWidth \in Nat
    BY <2>1, Sizes, CellOf
  <2> QED
    BY <2>2
<1> QED
  BY <1>1 DEF Chunk, ChunkLen

\* The n-th chunk of a side, of K, is the stripe number[n].
RawOf(raw, K, number) ==
  /\ raw \in [1 .. K * ChunkLen -> Nat \X Nat \X Nat]
  /\ \A q \in 0 .. K - 1, j \in 0 .. StripeLines - 1, x \in 0 .. ImageWidth - 1 :
       raw[(q * StripeLines + j) * ImageWidth + x + 1] = <<number[q + 1], j, x>>
PictureOf(img, K, number) ==
  /\ IsImage(img) /\ img.w = ImageWidth /\ img.h = K * StripeLines
  /\ \A q \in 0 .. K - 1, j \in 0 .. StripeLines - 1, x \in 0 .. ImageWidth - 1 :
       img.px[<<x, q * StripeLines + j>>] = <<number[q + 1], j, x>>

LEMMA RawIs ==
  ASSUME NEW K \in Nat \ {0}, NEW number \in [1 .. K -> Nat],
         NEW chunks \in [1 .. K -> [1 .. ChunkLen -> Nat \X Nat \X Nat]],
         \A n \in 1 .. K : chunks[n] = Chunk(number[n]), NEW raw, raw = FlattenSeq(chunks)
  PROVE  RawOf(raw, K, number)
<1> DEFINE A == Nat \X Nat \X Nat
<1>1. chunks \in [1 .. K -> [1 .. ChunkLen -> A]]
  OBVIOUS
<1>2. raw = Joined(chunks, ChunkLen, K)
  <2> HIDE DEF A
  <2> QED
    BY <1>1, Sizes, Flattened
<1>3. raw \in [1 .. K * ChunkLen -> A]
  <2>1. K \in 0 .. K
    OBVIOUS
  <2> HIDE DEF A
  <2>2. Joined(chunks, ChunkLen, K) \in [1 .. K * ChunkLen -> A]
    BY ONLY <1>1, <2>1, K \in Nat \ {0}, Sizes, JoinedType
  <2> QED
    BY <1>2, <2>2
<1>4. ASSUME NEW q \in 0 .. K - 1, NEW j \in 0 .. StripeLines - 1, NEW x \in 0 .. ImageWidth - 1
      PROVE  raw[(q * StripeLines + j) * ImageWidth + x + 1] = <<number[q + 1], j, x>>
  <2> DEFINE i == j * ImageWidth + x
             k == (q * StripeLines + j) * ImageWidth + x
  <2>1. i \in 0 .. ChunkLen - 1
    BY Sizes, Index DEF ChunkLen
  <2>2. k = q * ChunkLen + i /\ q \in Nat
    BY Sizes DEF ChunkLen
  <2>3. k \in 0 .. K * ChunkLen - 1
    BY <2>1, <2>2, Sizes, Index
  <2>4. i \div ImageWidth = j /\ i % ImageWidth = x
    <3>1. j \in Nat /\ i = j * ImageWidth + x
      BY Sizes
    <3> HIDE DEF i
    <3> QED
      BY <3>1, Sizes, Cells
  <2> HIDE DEF k, i
  <2>5. k \div ChunkLen = q /\ k % ChunkLen = i
    BY <2>1, <2>2, Sizes, Cells
  <2>6. k + 1 \in 1 .. K * ChunkLen /\ (k + 1) - 1 = k
    BY <2>3, Sizes
  <2>7. raw[k + 1] = chunks[q + 1][i + 1]
    BY <1>2, <2>5, <2>6 DEF Joined
  <2>8. chunks[q + 1] = Chunk(number[q + 1])
    OBVIOUS
  <2>9. Chunk(number[q + 1])[i + 1] = <<number[q + 1], j, x>>
    BY <2>1, <2>4, Sizes DEF Chunk, ChunkLen
  <2> QED
    BY <2>7, <2>8, <2>9 DEF k
<1> QED
  BY <1>3, <1>4 DEF RawOf

LEMMA SideImage ==
  ASSUME NEW K \in Nat \ {0}, NEW number \in [1 .. K -> Nat],
         NEW chunks \in [1 .. K -> [1 .. ChunkLen -> Nat \X Nat \X Nat]],
         \A n \in 1 .. K : chunks[n] = Chunk(number[n]), NEW raw, raw = FlattenSeq(chunks),
         NEW img, img = rawToImage(raw)
  PROVE  nLines(raw) = K * StripeLines /\ PictureOf(img, K, number)
<1> DEFINE h == K * StripeLines
<1>1. h \in Nat \ {0} /\ ImageWidth \in Nat \ {0}
  BY Sizes
<1>2. /\ raw \in [1 .. K * ChunkLen -> Nat \X Nat \X Nat]
      /\ \A q \in 0 .. K - 1, j \in 0 .. StripeLines - 1, x \in 0 .. ImageWidth - 1 :
              raw[(q * StripeLines + j) * ImageWidth + x + 1] = <<number[q + 1], j, x>>
  <2>1. RawOf(raw, K, number)
    BY RawIs
  <2> QED
    BY <2>1 DEF RawOf
<1>3. nLines(raw) = h
  <2>1. K * ChunkLen \in Nat /\ K * ChunkLen = h * ImageWidth + 0
    BY Sizes DEF ChunkLen
  <2>2. Len(raw) = h * ImageWidth + 0
    BY <1>2, <2>1
  <2>3. 0 \in 0 .. ImageWidth - 1 /\ h \in Nat
    BY Sizes, <1>1
  <2> HIDE DEF h
  <2>4. \A v : v = h * ImageWidth + 0 => v \div ImageWidth = h
    BY <2>3, Sizes, Cells
  <2> QED
    BY <2>2, <2>4 DEF nLines
<1>4. /\ img.w = ImageWidth /\ img.h = h
      /\ img = [w |-> img.w, h |-> img.h, px |-> img.px]
      /\ img.px = [spot \in (0 .. ImageWidth - 1) \X (0 .. h - 1) |-> raw[spot[2] * ImageWidth + spot[1] + 1]]
  <2> HIDE DEF h
  <2> QED
    BY <1>3 DEF rawToImage, Picture
<1> HIDE DEF h
<1>5. IsImage(img)
  BY <1>1, <1>4 DEF IsImage
<1>6. ASSUME NEW q \in 0 .. K - 1, NEW j \in 0 .. StripeLines - 1, NEW x \in 0 .. ImageWidth - 1
      PROVE  img.px[<<x, q * StripeLines + j>>] = <<number[q + 1], j, x>>
  <2>1. q * StripeLines + j \in 0 .. h - 1
    BY Sizes, Index DEF h
  <2>2. img.px[<<x, q * StripeLines + j>>] = raw[(q * StripeLines + j) * ImageWidth + x + 1]
    BY <1>4, <2>1
  <2> QED
    BY <1>2, <2>2
<1> QED
  BY <1>3, <1>4, <1>5, <1>6 DEF h, PictureOf

\* The sides of the sheet: how many stripes each has, which, and its pixels.
Sheeted == scene \in Scenes /\ sheet \in scene.sheets
Pages == IF sheet.duplex THEN {1, 2} ELSE {1}
Stripes(p) == IF sheet.duplex THEN (sheet.stripes + 2 - p) \div 2 ELSE sheet.stripes
Number(p) == [n \in 1 .. Stripes(p) |-> IF sheet.duplex THEN 2 * n - 2 + p ELSE n]
Raw(p) == IF sheet.duplex THEN Side(Chunks, p) ELSE joinChunks(Chunks)
Whole(p) == [x0 |-> 0, y0 |-> 0, x1 |-> ImageWidth - 1, y1 |-> Stripes(p) * StripeLines - 1]

LEMMA SheetType ==
  ASSUME Sheeted
  PROVE  sheet.duplex \in BOOLEAN /\ sheet.stripes \in Nat
BY SceneAssumption DEF Sheeted, Scene, Sheet

LEMMA StripesType ==
  ASSUME Sheeted, NEW p \in Pages
  PROVE  /\ Stripes(p) \in Nat /\ Number(p) \in [1 .. Stripes(p) -> Nat]
         /\ p \in {1, 2}
         /\ sheet.duplex => \A n \in 1 .. Stripes(p) : 2 * n - 2 + p \in 1 .. sheet.stripes
<1>1. CASE sheet.duplex
  <2>1. Stripes(p) = (sheet.stripes + 2 - p) \div 2 /\ p \in {1, 2} /\ sheet.stripes \in Nat
    BY <1>1, SheetType DEF Stripes, Pages
  <2>2. Stripes(p) \in Nat /\ 2 * Stripes(p) <= sheet.stripes + 2 - p
    BY <2>1
  <2>3. \A n \in 1 .. Stripes(p) : 2 * n - 2 + p \in 1 .. sheet.stripes
    BY <2>1, <2>2
  <2> QED
    BY <1>1, <2>1, <2>2, <2>3 DEF Number
<1>2. CASE ~sheet.duplex
  BY <1>2, SheetType DEF Stripes, Number, Pages
<1> QED
  BY <1>1, <1>2, SheetType

LEMMA RawOfSide ==
  ASSUME Sheeted, NEW p \in Pages
  PROVE  \E chunks \in [1 .. Stripes(p) -> [1 .. ChunkLen -> Nat \X Nat \X Nat]] :
           /\ Raw(p) = FlattenSeq(chunks)
           /\ \A n \in 1 .. Stripes(p) : chunks[n] = Chunk(Number(p)[n])
<1> DEFINE A == [1 .. ChunkLen -> Nat \X Nat \X Nat]
<1>1. Chunks = [n \in 1 .. sheet.stripes |-> Chunk(n)] /\ sheet.stripes \in Nat
  BY SheetType DEF Chunks
<1>2. Chunks \in [1 .. sheet.stripes -> A]
  BY <1>1, ChunkType
<1> HIDE DEF A
<1>3. CASE sheet.duplex
  <2> DEFINE chunks == [n \in 1 .. Stripes(p) |-> Chunks[2 * n - 2 + p]]
  <2>1. Len(Chunks) = sheet.stripes
    BY <1>1
  <2>2. Raw(p) = FlattenSeq(chunks)
    BY <1>3, <2>1 DEF Raw, Side, Stripes
  <2>3. \A n \in 1 .. Stripes(p) : 2 * n - 2 + p \in 1 .. sheet.stripes
    BY <1>3, StripesType
  <2>4. \A n \in 1 .. Stripes(p) : chunks[n] = Chunk(Number(p)[n])
    BY <1>1, <1>3, <2>3 DEF Number
  <2>5. chunks \in [1 .. Stripes(p) -> A]
    BY <1>2, <2>3
  <2> QED
    BY <2>2, <2>4, <2>5 DEF A
<1>4. CASE ~sheet.duplex
  <2>1. Stripes(p) = sheet.stripes /\ Number(p) = [n \in 1 .. sheet.stripes |-> n]
    BY <1>4 DEF Stripes, Number
  <2>2. Raw(p) = FlattenSeq(Chunks)
    BY <1>4 DEF Raw, joinChunks
  <2>3. \A n \in 1 .. Stripes(p) : Chunks[n] = Chunk(Number(p)[n])
    BY <1>1, <2>1
  <2> QED
    BY <1>2, <2>1, <2>2, <2>3 DEF A
<1> QED
  BY <1>3, <1>4, SheetType

LEMMA NoStripe ==
  ASSUME Sheeted, NEW p \in Pages, Stripes(p) = 0
  PROVE  nLines(Raw(p)) = 0
<1>1. PICK none \in [1 .. Stripes(p) -> [1 .. ChunkLen -> Nat \X Nat \X Nat]] :
        Raw(p) = FlattenSeq(none)
  BY RawOfSide
<1>2. Len(none) = 0 /\ Raw(p) = none
  BY <1>1 DEF FlattenSeq
<1>3. 0 \div ImageWidth = 0
  BY Sizes
<1> QED
  BY <1>1, <1>2, <1>3 DEF nLines

LEMMA SideShows ==
  ASSUME Sheeted, NEW p \in Pages, Stripes(p) # 0, NEW img, img = rawToImage(Raw(p))
  PROVE  /\ nLines(Raw(p)) = Stripes(p) * StripeLines /\ IsImage(img)
         /\ IsBox(Whole(p)) /\ ShowsBox(img, 0, Whole(p), p) /\ DOMAIN img.px = Box(Whole(p))
<1> DEFINE K == Stripes(p)
<1>1. K \in Nat \ {0} /\ Number(p) \in [1 .. K -> Nat] /\ K * StripeLines \in Nat \ {0}
  BY StripesType, Sizes
<1>2. /\ nLines(Raw(p)) = K * StripeLines
      /\ IsImage(img) /\ img.w = ImageWidth /\ img.h = K * StripeLines
      /\ \A q \in 0 .. K - 1, j \in 0 .. StripeLines - 1, x \in 0 .. ImageWidth - 1 :
           img.px[<<x, q * StripeLines + j>>] = <<Number(p)[q + 1], j, x>>
  <2>1. PICK chunks \in [1 .. K -> [1 .. ChunkLen -> Nat \X Nat \X Nat]] :
           /\ Raw(p) = FlattenSeq(chunks)
           /\ \A n \in 1 .. K : chunks[n] = Chunk(Number(p)[n])
    BY RawOfSide
  <2> HIDE DEF K
  <2>2. nLines(Raw(p)) = K * StripeLines /\ PictureOf(img, K, Number(p))
    BY <1>1, <2>1, SideImage
  <2> QED
    BY <2>2 DEF PictureOf
<1>3. IsBox(Whole(p))
  BY <1>1, Sizes DEF IsBox, Whole, Rect
<1>4. DOMAIN img.px = Box(Whole(p))
  BY <1>2 DEF Box, Whole, IsImage
<1>5. ASSUME NEW x \in 0 .. ImageWidth - 1, NEW y \in 0 .. K * StripeLines - 1
      PROVE  img.px[<<x, y>>] = Original(p, <<x, y>>)
  <2> DEFINE q == y \div StripeLines
             j == y % StripeLines
  <2>1. q \in 0 .. K - 1 /\ j \in 0 .. StripeLines - 1
    BY <1>1, Sizes, CellBelow
  <2>2. y \in Nat /\ y = q * StripeLines + j
    <3>1. y \in Nat
      BY <1>1
    <3> QED
      BY <3>1, Sizes, CellOf
  <2>3. img.px[<<x, y>>] = <<Number(p)[q + 1], j, x>>
    <3> HIDE DEF q, j
    <3> QED
      BY <1>2, <2>1, <2>2
  <2>4. q + 1 \in 1 .. K /\ Number(p)[q + 1] = IF sheet.duplex THEN 2 * q + p ELSE q + 1
    <3> HIDE DEF q
    <3>1. q + 1 \in 1 .. K /\ 2 * (q + 1) - 2 + p = 2 * q + p
      BY <1>1, <2>1, StripesType
    <3> QED
      BY <3>1 DEF Number
  <2> QED
    BY <2>3, <2>4 DEF Original
<1>6. \A x \in 0 .. ImageWidth - 1, y \in 0 .. K * StripeLines - 1 :
        Place(x, y, Whole(p), 0) = <<x, y>>
  BY <1>1, Sizes DEF Place, Whole
<1>7. ShowsBox(img, 0, Whole(p), p)
  <2>1. /\ Whole(p).x0 = 0 /\ Whole(p).y0 = 0
        /\ Whole(p).x1 = ImageWidth - 1 /\ Whole(p).y1 = K * StripeLines - 1
    BY DEF Whole
  <2>2. img.w = ImageWidth - 1 - 0 + 1 /\ img.h = K * StripeLines - 1 - 0 + 1
    BY <1>1, <1>2, Sizes
  <2> HIDE DEF K
  <2> QED
    BY <1>5, <1>6, <2>1, <2>2 DEF ShowsBox
<1> QED
  BY <1>2, <1>3, <1>4, <1>7

\* The places where f is in I.
Where(S, f, I) == {i \in S : f[i] \in I}

\* A bijection keeps the number of elements, in any set.
LEMMA SameNumber ==
  ASSUME NEW S, IsFiniteSet(S), NEW T, NEW f \in [S -> T],
         \A i, j \in S : f[i] = f[j] => i = j, \A t \in T : \E i \in S : f[i] = t
  PROVE  /\ IsFiniteSet(T) /\ Cardinality(S) = Cardinality(T)
         /\ \A I : Cardinality(Where(S, f, I)) = Cardinality(T \cap I)
<1>1. ASSUME NEW A, IsFiniteSet(A), NEW B, NEW g \in [A -> B],
             \A i, j \in A : g[i] = g[j] => i = j, \A t \in B : \E i \in A : g[i] = t
      PROVE  IsFiniteSet(B) /\ Cardinality(A) = Cardinality(B)
  <2>1. g \in Bijection(A, B)
    BY <1>1 DEF Bijection, Injection, Surjection, IsInjective
  <2>2. ExistsBijection(A, B)
    BY <2>1 DEF ExistsBijection
  <2> QED
    BY <1>1, <2>2, FS_Bijection
<1>2. ASSUME NEW I PROVE Cardinality(Where(S, f, I)) = Cardinality(T \cap I)
  <2> DEFINE A == {i \in S : f[i] \in I}
             g == [i \in A |-> f[i]]
  <2>1. IsFiniteSet(A)
    BY FS_Subset
  <2>2. g \in [A -> T \cap I] /\ \A i, j \in A : g[i] = g[j] => i = j
    OBVIOUS
  <2>3. \A t \in T \cap I : \E i \in A : g[i] = t
    OBVIOUS
  <2> HIDE DEF A, g
  <2>4. Cardinality(A) = Cardinality(T \cap I)
    BY <1>1, <2>1, <2>2, <2>3
  <2> QED
    BY <2>4 DEF A, Where
<1>3. IsFiniteSet(T) /\ Cardinality(S) = Cardinality(T)
  BY <1>1
<1> QED
  BY <1>2, <1>3

\* The pixels of the sheet's back.
BackOf == {o \in (1 .. sheet.stripes) \X (0 .. StripeLines - 1) \X (0 .. ImageWidth - 1) :
             o[1] % 2 = 0}

\* Each of them is once in the raw data of the back.
LEMMA BackPixels ==
  ASSUME Sheeted, sheet.duplex, Stripes(2) # 0, NEW raw, raw = Raw(2),
         NEW total, total = nLines(raw) * ImageWidth
  PROVE  /\ total \in Nat \ {0} /\ raw \in [1 .. total -> BackOf]
         /\ \A i, j \in 1 .. total : raw[i] = raw[j] => i = j
         /\ \A o \in BackOf : \E i \in 1 .. total : raw[i] = o
<1> DEFINE K == Stripes(2)
           lines == K * StripeLines
<1>1. /\ 2 \in Pages /\ sheet.stripes \in Nat /\ K = sheet.stripes \div 2 /\ K \in Nat \ {0}
      /\ Number(2) \in [1 .. K -> Nat]
  BY SheetType, StripesType DEF Pages, Stripes
<1>2. /\ nLines(raw) = lines /\ RawOf(raw, K, Number(2))
  <2>1. PICK chunks \in [1 .. K -> [1 .. ChunkLen -> Nat \X Nat \X Nat]] :
           /\ raw = FlattenSeq(chunks)
           /\ \A n \in 1 .. K : chunks[n] = Chunk(Number(2)[n])
    BY <1>1, RawOfSide
  <2> HIDE DEF K
  <2>2. RawOf(raw, K, Number(2))
    BY <1>1, <2>1, RawIs
  <2>3. nLines(raw) = K * StripeLines
    BY <1>1, SideShows DEF K
  <2> QED
    BY <2>2, <2>3
<1>3. total = lines * ImageWidth /\ total = K * ChunkLen /\ lines \in Nat \ {0} /\ total \in Nat \ {0}
  BY <1>1, <1>2, Sizes DEF ChunkLen
<1> DEFINE spot(q, j, x) == (q * StripeLines + j) * ImageWidth + x + 1
<1>4. ASSUME NEW q \in 0 .. K - 1, NEW j \in 0 .. StripeLines - 1, NEW x \in 0 .. ImageWidth - 1
      PROVE  /\ spot(q, j, x) \in 1 .. total
             /\ raw[spot(q, j, x)] = <<2 * q + 2, j, x>>
             /\ <<2 * q + 2, j, x>> \in BackOf
  <2>1. q * StripeLines + j \in 0 .. lines - 1
    BY <1>1, Sizes, Index
  <2>2. (q * StripeLines + j) * ImageWidth + x \in 0 .. lines * ImageWidth - 1
    <3> HIDE DEF lines
    <3> QED
      BY <1>3, <2>1, Sizes, Index
  <2>3. spot(q, j, x) \in 1 .. total
    BY <1>3, <2>2
  <2>4. Number(2)[q + 1] = 2 * q + 2
    <3>1. q + 1 \in 1 .. K /\ 2 * (q + 1) - 2 + 2 = 2 * q + 2
      BY <1>1
    <3> QED
      BY <3>1 DEF Number
  <2>5. raw[spot(q, j, x)] = <<Number(2)[q + 1], j, x>>
    BY <1>2 DEF RawOf
  <2>6. 2 * q + 2 \in 1 .. sheet.stripes /\ (2 * q + 2) % 2 = 0
    BY <1>1
  <2>7. <<2 * q + 2, j, x>> \in BackOf
    BY <2>6 DEF BackOf
  <2> QED
    BY <2>3, <2>4, <2>5, <2>7
<1>5. ASSUME NEW i \in 1 .. total
      PROVE  \E q \in 0 .. K - 1, j \in 0 .. StripeLines - 1, x \in 0 .. ImageWidth - 1 :
               i = spot(q, j, x)
  <2> DEFINE n == i - 1
             y == n \div ImageWidth
             x == n % ImageWidth
             q == y \div StripeLines
             j == y % StripeLines
  <2>1. n \in 0 .. lines * ImageWidth - 1 /\ n \in Nat
    BY <1>3
  <2>2. x \in 0 .. ImageWidth - 1 /\ y \in 0 .. lines - 1 /\ n = (y * ImageWidth) + x
    <3> HIDE DEF lines, n
    <3> QED
      BY <1>3, <2>1, Sizes, CellBelow, CellOf
  <2> HIDE DEF x, y
  <2>3. q \in 0 .. K - 1 /\ j \in 0 .. StripeLines - 1 /\ y = (q * StripeLines) + j
    <3>1. y \in Nat /\ y \in 0 .. K * StripeLines - 1
      BY <1>3, <2>2
    <3> HIDE DEF K
    <3> QED
      BY <1>1, <3>1, Sizes, CellBelow, CellOf
  <2> HIDE DEF q, j
  <2>4. i = spot(q, j, x)
    BY <2>2, <2>3
  <2> QED
    BY <2>2, <2>3, <2>4
<1> HIDE DEF spot, K
<1>6. raw \in [1 .. total -> BackOf]
  <2>1. raw \in [1 .. total -> Nat \X Nat \X Nat]
    BY <1>2, <1>3 DEF RawOf
  <2>2. ASSUME NEW i \in 1 .. total PROVE raw[i] \in BackOf
    <3>1. PICK q \in 0 .. K - 1, j \in 0 .. StripeLines - 1, x \in 0 .. ImageWidth - 1 :
            i = spot(q, j, x)
      BY <1>5
    <3> QED
      BY <1>4, <3>1
  <2> QED
    BY <2>1, <2>2
<1>7. ASSUME NEW i \in 1 .. total, NEW k \in 1 .. total, raw[i] = raw[k] PROVE i = k
  <2>1. PICK q \in 0 .. K - 1, j \in 0 .. StripeLines - 1, x \in 0 .. ImageWidth - 1 : i = spot(q, j, x)
    BY <1>5
  <2>2. PICK u \in 0 .. K - 1, v \in 0 .. StripeLines - 1, w \in 0 .. ImageWidth - 1 : k = spot(u, v, w)
    BY <1>5
  <2>3. raw[i] = <<2 * q + 2, j, x>> /\ raw[k] = <<2 * u + 2, v, w>>
    BY <1>4, <2>1, <2>2
  <2>4. 2 * q + 2 = 2 * u + 2 /\ j = v /\ x = w
    BY <1>7, <2>3
  <2>5. q = u
    BY <1>1, <2>4
  <2> QED
    BY <2>1, <2>2, <2>4, <2>5
<1>8. ASSUME NEW o \in BackOf PROVE \E i \in 1 .. total : raw[i] = o
  <2>1. /\ o = <<o[1], o[2], o[3]>> /\ o[1] \in 1 .. sheet.stripes /\ o[1] % 2 = 0
        /\ o[2] \in 0 .. StripeLines - 1 /\ o[3] \in 0 .. ImageWidth - 1
    BY DEF BackOf
  <2> DEFINE q == (o[1] \div 2) - 1
  <2>2. q \in 0 .. K - 1 /\ o[1] = 2 * q + 2
    <3>1. \A n \in 1 .. sheet.stripes :
            n % 2 = 0 => (n \div 2) - 1 \in 0 .. K - 1 /\ n = 2 * ((n \div 2) - 1) + 2
      BY <1>1
    <3> QED
      BY <2>1, <3>1
  <2> HIDE DEF q
  <2>3. spot(q, o[2], o[3]) \in 1 .. total /\ raw[spot(q, o[2], o[3])] = <<2 * q + 2, o[2], o[3]>>
    BY <1>4, <2>1, <2>2
  <2> QED
    BY <2>1, <2>2, <2>3
<1> QED
  BY <1>3, <1>6, <1>7, <1>8

\* isBlank counts the dark pixels of the back, and no others.
LEMMA BlankIs ==
  ASSUME Sheeted, sheet.duplex, sheet.stripes > 0
  PROVE  isBlank(rear(Chunks)) <=>
           \/ BackOf = {}
           \/ Cardinality(BackOf \cap sheet.ink) * InkLimit[2] < InkLimit[1] * Cardinality(BackOf)
<1> DEFINE raw == rear(Chunks)
           total == nLines(raw) * ImageWidth
<1>1. /\ 2 \in Pages /\ raw = Raw(2) /\ sheet.stripes \in Nat /\ Stripes(2) = sheet.stripes \div 2
      /\ Stripes(2) \in Nat
  BY SheetType, StripesType DEF Pages, Raw, rear, Stripes
<1>2. CASE Stripes(2) = 0
  <2>1. nLines(raw) = 0
    BY <1>1, <1>2, NoStripe
  <2>2. sheet.stripes = 1
    BY <1>1, <1>2
  <2>3. BackOf = {}
    BY <2>2 DEF BackOf
  <2> QED
    BY <2>1, <2>3 DEF isBlank
<1>3. CASE Stripes(2) # 0
  <2> HIDE DEF raw, total
  <2>1. /\ total \in Nat \ {0} /\ raw \in [1 .. total -> BackOf]
        /\ \A i, j \in 1 .. total : raw[i] = raw[j] => i = j
        /\ \A o \in BackOf : \E i \in 1 .. total : raw[i] = o
    BY <1>1, <1>3, BackPixels DEF total
  <2>2. IsFiniteSet(1 .. total) /\ Cardinality(1 .. total) = total
    BY <2>1, FS_Interval
  <2> DEFINE S == 1 .. total
             T == BackOf
  <2>3. /\ Cardinality(S) = Cardinality(T)
        /\ Cardinality(Where(S, raw, sheet.ink)) = Cardinality(T \cap sheet.ink)
    <3>1. IsFiniteSet(S) /\ raw \in [S -> T] /\ (\A i, j \in S : raw[i] = raw[j] => i = j)
          /\ \A o \in T : \E i \in S : raw[i] = o
      BY <2>1, <2>2
    <3> HIDE DEF S, T
    <3>2. Cardinality(S) = Cardinality(T)
      BY ONLY <3>1, SameNumber
    <3>3. \A I : Cardinality(Where(S, raw, I)) = Cardinality(T \cap I)
      BY ONLY <3>1, SameNumber
    <3> QED
      BY <3>2, <3>3
  <2>4. BackOf # {}
    BY <2>1
  <2>5. nLines(raw) # 0
    BY <2>1, Sizes DEF total
  <2> QED
    BY <2>2, <2>3, <2>4, <2>5 DEF isBlank, Below, Where, raw, total
<1> QED
  BY <1>2, <1>3

-------------------------------------------------------------------------------
(* The pages *)

\* A picture shows what is left of the p-th page of the sheet.
Shows(img, quarters, points, p) ==
  \E b : IsBox(b) /\ points = Box(b) /\ ShowsBox(img, quarters, b, p)

PagesAre(n) == /\ files = [p \in 1 .. n |-> files[p]]
               /\ turns = [p \in 1 .. n |-> turns[p]]
               /\ seen = [p \in 1 .. n |-> seen[p]]
PageInv(p) ==
  /\ files[p] = Torn \/ IsImage(files[p])
  /\ files[p] # Torn /\ p \notin astray => Shows(files[p], turns[p], seen[p], p)
EditInv ==
  /\ edit.page \in DOMAIN files /\ IsImage(edit.img)
  /\ ~edit.astray /\ edit.page \notin astray =>
       Shows(edit.img, edit.turns, edit.seen, edit.page)

PagesInv ==
  /\ Sheeted /\ scanned \in BOOLEAN /\ edits \in 0 .. scene.edits
  /\ \E n \in 0 .. 2 : PagesAre(n) /\ (~scanned => n = 0)
                       /\ (scanned /\ sheet.duplex /\ sheet.stripes > 0 =>
                             (n = 1 <=> isBlank(rear(Chunks))))
  /\ astray \subseteq DOMAIN files
  /\ \A p \in DOMAIN files : PageInv(p)
  /\ edit = NoEdit \/ EditInv

LEMMA PagesInitially == Init => PagesInv
<1> SUFFICES ASSUME Init PROVE PagesInv
  OBVIOUS
<1>1. scene.edits \in Nat
  BY SceneAssumption DEF Init, Scene
<1>2. PagesAre(0) /\ DOMAIN files = {}
  BY DEF Init, PagesAre
<1>3. Sheeted /\ ~scanned /\ edits = scene.edits /\ astray = {} /\ edit = NoEdit
  BY DEF Init, Sheeted
<1>4. 0 \in 0 .. 2 /\ edits \in 0 .. scene.edits
  BY <1>1, <1>3
<1>5. /\ scanned \in BOOLEAN /\ ~(scanned /\ sheet.duplex /\ sheet.stripes > 0)
      /\ astray \subseteq DOMAIN files /\ \A p \in DOMAIN files : PageInv(p)
  BY <1>2, <1>3, Zenon DEF Init
<1> QED
  BY <1>2, <1>3, <1>4, <1>5 DEF PagesInv

\* What depends on the sheet only.
LEMMA SameSheet ==
  ASSUME UNCHANGED <<scene, sheet>>
  PROVE  /\ Sheeted' = Sheeted /\ isBlank(rear(Chunks))' = isBlank(rear(Chunks))
         /\ \A img, quarters, points, p :
              Shows(img, quarters, points, p)' = Shows(img, quarters, points, p)
BY DEF Sheeted, isBlank, rear, Side, Chunks, Shows, ShowsBox, Original

LEMMA ImagesShow ==
  ASSUME Sheeted, NEW p \in DOMAIN Images, Images[p].h > 0
  PROVE  IsImage(Images[p]) /\ Shows(Images[p], 0, DOMAIN Images[p].px, p)
<1>1. p \in Pages /\ Images[p] = rawToImage(Raw(p))
  BY SheetType DEF Images, Pages, Raw, front, rear
<1>2. Stripes(p) # 0
  <2> SUFFICES ASSUME Stripes(p) = 0 PROVE FALSE
    OBVIOUS
  <2>1. nLines(Raw(p)) = 0
    BY <1>1, NoStripe
  <2>2. Images[p].h = 0
    BY <1>1, <2>1 DEF rawToImage, Picture
  <2> QED
    BY <2>2
<1> QED
  BY <1>1, <1>2, SideShows DEF Shows

LEMMA ScanStep == ASSUME PagesInv, ScanPage PROVE PagesInv'
<1>1. /\ Sheeted /\ scanned' = TRUE /\ UNCHANGED <<scene, sheet, edit, edits, astray>>
      /\ DOMAIN files = {} /\ astray = {} /\ edit = NoEdit
  <2>1. ~scanned /\ UNCHANGED <<scene, sheet, edit, edits, astray>> /\ scanned' = TRUE
    BY DEF ScanPage
  <2>2. DOMAIN files = {}
    BY <2>1 DEF PagesInv, PagesAre
  <2> QED
    BY <2>1, <2>2 DEF PagesInv, EditInv
<1>2. /\ Len(Images) \in 1 .. 2 /\ Images = [p \in 1 .. Len(Images) |-> Images[p]]
      /\ DOMAIN Images = 1 .. Len(Images)
  <2>1. CASE ~sheet.duplex
    BY <2>1 DEF Images
  <2>2. CASE sheet.duplex /\ isBlank(rear(Chunks))
    BY <2>2 DEF Images
  <2>3. CASE sheet.duplex /\ ~isBlank(rear(Chunks))
    BY <2>3 DEF Images
  <2> QED
    BY <1>1, <2>1, <2>2, <2>3, SheetType
<1>3. PICK n \in 0 .. Len(Images) :
        /\ files' = SubSeq(Images, 1, n)
        /\ \A p \in 1 .. n : Images[p].h > 0
        /\ n < Len(Images) => Images[n + 1].h = 0
  BY DEF ScanPage
<1>4. files' = [p \in 1 .. n |-> Images[p]]
  BY <1>2, <1>3
<1>5. turns' = [p \in 1 .. n |-> 0] /\ seen' = [p \in 1 .. n |-> DOMAIN Images[p].px]
  BY <1>4 DEF ScanPage
<1>6. \A p \in 1 .. n : PageInv(p)'
  BY <1>1, <1>2, <1>3, <1>4, <1>5, ImagesShow, SameSheet DEF PageInv
<1>7. ASSUME sheet.duplex, sheet.stripes > 0 PROVE n = 1 <=> isBlank(rear(Chunks))
  <2>1. Stripes(1) # 0 /\ 1 \in Pages /\ 2 \in Pages
    BY <1>1, <1>7, SheetType DEF Stripes, Pages
  <2>2. Images[1].h > 0
    <3>1. Images[1] = rawToImage(Raw(1))
      BY <1>7 DEF Images, Raw, front
    <3>2. IsImage(Images[1])
      BY <1>1, <2>1, <3>1, SideShows
    <3> QED
      BY <3>2 DEF IsImage
  <2>3. CASE isBlank(rear(Chunks))
    <3>1. Len(Images) = 1
      BY <1>7, <2>3 DEF Images
    <3> QED
      BY <1>3, <2>2, <2>3, <3>1
  <2>4. CASE ~isBlank(rear(Chunks))
    <3>1. Len(Images) = 2 /\ Images[2] = rawToImage(Raw(2))
      BY <1>7, <2>4 DEF Images, Raw, rear
    <3>2. nLines(Raw(2)) # 0
      BY <1>7, <2>4 DEF isBlank, Raw, rear
    <3>3. Images[2].h # 0
      BY <3>1, <3>2 DEF rawToImage, Picture
    <3> QED
      BY <1>3, <2>2, <2>4, <3>1, <3>3
  <2> QED
    BY <2>3, <2>4
<1> HIDE DEF Images
<1>8. PagesAre(n)' /\ n \in 0 .. 2 /\ DOMAIN files' = 1 .. n
  BY <1>2, <1>4, <1>5 DEF PagesAre
<1> QED
  BY <1>1, <1>6, <1>7, <1>8, SameSheet DEF PagesInv

\* An edit that has its picture, and has truncated the file.
LEMMA EditBegins ==
  ASSUME PagesInv, NEW p, CanEdit(p), EditInv', edit'.page = p
  PROVE  PagesInv'
<1>1. /\ p \in DOMAIN files /\ files' = [files EXCEPT ![p] = Torn]
      /\ edits > 0 /\ edits' = edits - 1
      /\ UNCHANGED <<scene, sheet, scanned, turns, seen, astray>>
  BY DEF CanEdit
<1>2. PICK n \in 0 .. 2 : PagesAre(n) /\ (~scanned => n = 0)
                       /\ (scanned /\ sheet.duplex /\ sheet.stripes > 0 =>
                             (n = 1 <=> isBlank(rear(Chunks))))
  BY DEF PagesInv
<1>3. PagesAre(n)' /\ DOMAIN files' = DOMAIN files
  BY <1>1, <1>2 DEF PagesAre
<1>4. ASSUME NEW q \in DOMAIN files PROVE PageInv(q)'
  <2>1. PageInv(q)
    BY DEF PagesInv
  <2>2. CASE q = p
    BY <1>1, <2>2 DEF PageInv
  <2>3. CASE q # p
    BY <1>1, <2>1, <2>3, SameSheet DEF PageInv
  <2> QED
    BY <2>2, <2>3
<1>5. edits' \in 0 .. scene.edits
  <2>1. scene.edits \in Nat /\ edits \in 0 .. scene.edits
    BY SceneAssumption DEF PagesInv, Sheeted, Scene
  <2> QED
    BY <1>1, <2>1
<1> QED
  BY <1>1, <1>2, <1>3, <1>4, <1>5, SameSheet DEF PagesInv

LEMMA RotateStep ==
  ASSUME PagesInv, NEW p \in scene.pages, NEW degrees \in scene.degrees, handleRotatePage(p, degrees)
  PROVE  PagesInv'
<1>1. /\ CanEdit(p) /\ p \in DOMAIN files /\ files[p] # Torn
      /\ edit' = [page |-> p, img |-> Rotate(files[p], degrees),
              turns |-> (turns[p] + degrees \div 90) % 4, seen |-> seen[p], astray |-> FALSE]
      /\ UNCHANGED <<scene, sheet, astray>> /\ DOMAIN files' = DOMAIN files
  BY DEF handleRotatePage, CanEdit
<1>2. degrees \in {90, 180, 270}
  BY SceneAssumption DEF PagesInv, Sheeted, Scene
<1>3. PageInv(p) /\ IsImage(files[p])
  BY <1>1 DEF PagesInv, PageInv
<1>4. IsImage(Rotate(files[p], degrees))
  BY <1>2, <1>3, RotatedIsImage
<1>5. p \notin astray => Shows(Rotate(files[p], degrees), (turns[p] + degrees \div 90) % 4, seen[p], p)
  BY <1>1, <1>2, <1>3, TurnedShows DEF PageInv, Shows
<1>6. EditInv' /\ edit'.page = p
  BY <1>1, <1>4, <1>5, SameSheet DEF EditInv
<1> QED
  BY <1>1, <1>6, EditBegins

LEMMA CropStep ==
  ASSUME PagesInv, NEW p \in scene.pages, NEW x \in scene.ints, NEW y \in scene.ints,
         NEW width \in scene.ints, NEW height \in scene.ints, handleCropPage(p, x, y, width, height)
  PROVE  PagesInv'
<1> DEFINE asked == Rectangle(x, y, x + width, y + height)
           rect == Rectangle(x, y, Wrapped(x + width), Wrapped(y + height))
           clamped == Clamped(rect, files[p])
           Within(spot) == /\ asked.x0 <= spot[1] /\ spot[1] < asked.x1
                         /\ asked.y0 <= spot[2] /\ spot[2] < asked.y1
           rest == {o \in seen[p] : Within(Shown(o, seen[p], turns[p]))}
<1>1. /\ CanEdit(p) /\ p \in DOMAIN files /\ files[p] # Torn /\ ~Empty(clamped)
      /\ edit' = [page |-> p, img |-> imagingCrop(files[p], clamped), turns |-> turns[p],
                  seen |-> rest, astray |-> rect # asked]
      /\ UNCHANGED <<scene, sheet, astray>> /\ DOMAIN files' = DOMAIN files
  BY DEF handleCropPage, CanEdit
<1>2. x \in Int /\ y \in Int /\ width \in Int /\ height \in Int
  BY SceneAssumption DEF PagesInv, Sheeted, Scene
<1>3. rect \in Rect
  BY <1>2, WrappedType, RectangleType
<1>4. PageInv(p) /\ IsImage(files[p])
  BY <1>1 DEF PagesInv, PageInv
<1>5. IsImage(imagingCrop(files[p], clamped))
  BY <1>1, <1>3, <1>4, ClampedIsInside, Cropped
<1>6. ASSUME rect = asked, p \notin astray
      PROVE  Shows(imagingCrop(files[p], clamped), turns[p], rest, p)
  <2>1. PICK b : IsBox(b) /\ seen[p] = Box(b) /\ ShowsBox(files[p], turns[p], b, p)
    BY <1>1, <1>4, <1>6 DEF PageInv, Shows
  <2> DEFINE kept == Cut(b, clamped, turns[p])
  <2>2. /\ IsBox(kept) /\ ShowsBox(imagingCrop(files[p], clamped), turns[p], kept, p)
        /\ Box(kept) = {o \in Box(b) : LET spot == Shown(o, Box(b), turns[p]) IN
                          /\ rect.x0 <= spot[1] /\ spot[1] < rect.x1
                          /\ rect.y0 <= spot[2] /\ spot[2] < rect.y1}
    <3> HIDE DEF rect
    <3> QED
      BY <1>1, <1>3, <1>4, <2>1, CroppedShows
  <2>3. Box(kept) = rest
    BY <1>6, <2>1, <2>2
  <2> QED
    BY <2>2, <2>3 DEF Shows
<1> HIDE DEF rect, asked, clamped, rest
<1>7. EditInv' /\ edit'.page = p
  BY <1>1, <1>5, <1>6, SameSheet DEF EditInv
<1> QED
  BY <1>1, <1>7, EditBegins

LEMMA WritePageStep == ASSUME PagesInv, WritePage PROVE PagesInv'
<1>1. /\ files' = [files EXCEPT ![edit.page] = edit.img]
      /\ turns' = [turns EXCEPT ![edit.page] = edit.turns]
      /\ seen' = [seen EXCEPT ![edit.page] = edit.seen]
      /\ astray' = IF edit.astray THEN astray \cup {edit.page} ELSE astray
      /\ edit' = NoEdit /\ UNCHANGED <<scene, sheet, scanned, edits>> /\ EditInv
  BY DEF WritePage, PagesInv
<1>2. PICK n \in 0 .. 2 : PagesAre(n) /\ (~scanned => n = 0)
                       /\ (scanned /\ sheet.duplex /\ sheet.stripes > 0 =>
                             (n = 1 <=> isBlank(rear(Chunks))))
  BY DEF PagesInv
<1>3. PagesAre(n)' /\ DOMAIN files' = DOMAIN files
  BY <1>1, <1>2 DEF PagesAre
<1>4. ASSUME NEW q \in DOMAIN files PROVE PageInv(q)'
  <2>1. PageInv(q) /\ q \in DOMAIN turns /\ q \in DOMAIN seen
    BY <1>2 DEF PagesInv, PagesAre
  <2>2. CASE q = edit.page
    BY <1>1, <2>1, <2>2, SameSheet DEF PageInv, EditInv
  <2>3. CASE q # edit.page
    BY <1>1, <2>1, <2>3, SameSheet DEF PageInv
  <2> QED
    BY <2>2, <2>3
<1>5. astray' \subseteq DOMAIN files
  BY <1>1 DEF PagesInv, EditInv
<1>6. /\ Sheeted' /\ isBlank(rear(Chunks))' = isBlank(rear(Chunks))
      /\ scanned' \in BOOLEAN /\ edits' \in 0 .. scene'.edits
  BY <1>1, SameSheet DEF PagesInv
<1> QED
  BY <1>1, <1>2, <1>3, <1>4, <1>5, <1>6 DEF PagesInv

\* A step that leaves the pages alone, but for an edit that is broken off.
LEMMA PagesUnchanged ==
  ASSUME PagesInv, UNCHANGED <<scene, sheet, scanned, files, edits, turns, seen, astray>>,
         edit' = edit \/ edit' = NoEdit
  PROVE  PagesInv'
<1>1. \A q \in DOMAIN files : PageInv(q)'
  BY SameSheet DEF PagesInv, PageInv
<1>2. edit' = NoEdit \/ EditInv'
  BY SameSheet DEF PagesInv, EditInv
<1>3. \A n : PagesAre(n)' = PagesAre(n)
  BY DEF PagesAre
<1> QED
  BY <1>1, <1>2, <1>3, SameSheet DEF PagesInv

LEMMA PagesInductive == PagesInv /\ [Next]_vars => PagesInv'
<1> SUFFICES ASSUME PagesInv, [Next]_vars PROVE PagesInv'
  OBVIOUS
<1>1. CASE ScanPage
  BY <1>1, ScanStep
<1>2. CASE Edit
  BY <1>2, RotateStep, CropStep DEF Edit
<1>3. CASE PageWritten
  BY <1>3, WritePageStep DEF PageWritten
<1>4. CASE Crash
  BY <1>4, PagesUnchanged DEF Crash
<1>5. CASE UNCHANGED imageVars
  BY <1>5, PagesUnchanged DEF imageVars
<1>6. ASSUME NEW r \in scene.requests,
             \/ \E kind \in {"text", "pdf"}, p \in 1 .. 2 : Begin(r, kind, p)
             \/ Read(r) \/ MkdirTemp(r) \/ WritePPM(r) \/ RunUnpaper(r) \/ RunTesseract(r)
             \/ RemoveAll(r)
      PROVE  UNCHANGED imageVars
  BY <1>6 DEF Begin, Read, MkdirTemp, WritePPM, RunUnpaper, RunTesseract, RemoveAll, Step
<1> QED
  BY <1>1, <1>2, <1>3, <1>4, <1>5, <1>6 DEF Next, vars

-------------------------------------------------------------------------------
(* The replies *)

\* The places where a request has a directory.
Working == {"write", "unpaper", "tesseract", "remove"}
\* What a reply may be of.
Good(r) == read[r] \ {Torn}

RequestInv(r) ==
  /\ \A img \in Good(r) : IsImage(img)
  /\ Running(r) => request[r].page \in DOMAIN files /\ files[request[r].page] \in read[r] \cup {Torn}
  /\ at[r] \in {"mkdir", "write"} => request[r].img \in Good(r)
  /\ at[r] \in Working => MyDir(r) \in DOMAIN dirs
  /\ at[r] = "unpaper" => \E img \in Good(r) : dirs[MyDir(r)].input = encodePPM(img)
  /\ at[r] = "tesseract" => \E img \in Good(r) : dirs[MyDir(r)].corrected = encodePPM(img)
  /\ at[r] \in {"idle", "remove"} /\ request[r].reply = "done" => request[r].result \in Good(r)

IsDir(d) == d = [input |-> d.input, corrected |-> d.corrected]

RepliesInv ==
  /\ read = [r \in scene.requests |-> read[r]]
  /\ dirs = [d \in DOMAIN dirs |-> dirs[d]] /\ \A d \in DOMAIN dirs : IsDir(dirs[d])
  /\ \A r \in scene.requests : RequestInv(r)
  /\ \A r, s \in scene.requests :
       at[r] \in Working /\ at[s] \in Working /\ MyDir(r) = MyDir(s) => r = s

RInv == IInv /\ PagesInv /\ RepliesInv

\* What the programs read is what was written.
LEMMA DecodedIs == ASSUME NEW img, IsImage(img) PROVE Decoded(encodePPM(img)) = img
<1> DEFINE ppm == encodePPM(img)
           d == Decoded(ppm)
<1>1. img.w \in Nat \ {0} /\ img.h \in Nat \ {0}
  BY DEF IsImage
<1>2. /\ ppm.w = img.w /\ ppm.h = img.h
      /\ ppm.body = [i \in 1 .. img.w * img.h |-> img.px[<<(i - 1) % img.w, (i - 1) \div img.w>>]]
  BY DEF encodePPM
<1> HIDE DEF ppm
<1>3. ASSUME NEW x \in 0 .. img.w - 1, NEW y \in 0 .. img.h - 1
      PROVE  ppm.body[y * img.w + x + 1] = img.px[<<x, y>>]
  <2> DEFINE k == y * img.w + x
  <2>1. k \in 0 .. img.h * img.w - 1
    BY <1>1, Index
  <2>2. y \in Nat /\ k = y * img.w + x
    BY <1>1
  <2> HIDE DEF k
  <2>3. k \div img.w = y /\ k % img.w = x
    BY <1>1, <2>2, Cells
  <2>4. k + 1 \in 1 .. img.w * img.h /\ (k + 1) - 1 = k
    BY <1>1, <2>1
  <2>5. ppm.body[k + 1] = img.px[<<x, y>>]
    BY <1>2, <2>3, <2>4
  <2> QED
    BY <2>5 DEF k
<1>4. /\ d = [w |-> d.w, h |-> d.h, px |-> d.px] /\ d.w = img.w /\ d.h = img.h
      /\ d.px = [spot \in (0 .. img.w - 1) \X (0 .. img.h - 1) |->
                   ppm.body[spot[2] * img.w + spot[1] + 1]]
  BY <1>2 DEF Decoded, Picture
<1> HIDE DEF d
<1>5. d.px = img.px
  <2>1. \A spot \in (0 .. img.w - 1) \X (0 .. img.h - 1) : d.px[spot] = img.px[spot]
    <3> SUFFICES ASSUME NEW spot \in (0 .. img.w - 1) \X (0 .. img.h - 1) PROVE d.px[spot] = img.px[spot]
      OBVIOUS
    <3>1. spot = <<spot[1], spot[2]>> /\ spot[1] \in 0 .. img.w - 1 /\ spot[2] \in 0 .. img.h - 1
      OBVIOUS
    <3>2. d.px[spot] = ppm.body[spot[2] * img.w + spot[1] + 1]
      BY <1>4
    <3> QED
      BY <1>3, <3>1, <3>2
  <2> QED
    BY <1>4, <2>1 DEF IsImage
<1> QED
  BY <1>4, <1>5 DEF IsImage, d, ppm

LEMMA DocumentIs == ASSUME NEW img, IsImage(img) PROVE Document(img) = img
BY DEF Document, IsImage

\* A step of one request, which works in its own directory.
LEMMA RequestStep ==
  ASSUME RInv, NEW r \in scene.requests, NEW place \in Places, Goto(r, place),
         NEW c, request' = [request EXCEPT ![r] = c], UNCHANGED imageVars,
         read' = [s \in scene.requests |-> read'[s]],
         \A s \in scene.requests \ {r} : read'[s] = read[s],
         dirs' = [d \in DOMAIN dirs' |-> dirs'[d]], \A d \in DOMAIN dirs' : IsDir(dirs'[d]),
         \A s \in scene.requests \ {r} : at[s] \in Working =>
           MyDir(s) \in DOMAIN dirs' /\ dirs'[MyDir(s)] = dirs[MyDir(s)],
         place \in Working =>
           \A s \in scene.requests \ {r} : at[s] \in Working => MyDir(s) # c.dir,
         RequestInv(r)'
  PROVE  RepliesInv'
<1>1. /\ at'[r] = place /\ request'[r] = c /\ UNCHANGED <<scene, files>>
      /\ \A s \in scene.requests \ {r} : at'[s] = at[s] /\ request'[s] = request[s]
  BY DEF RInv, IInv, Types, Goto, imageVars
<1>2. ASSUME NEW s \in scene.requests PROVE RequestInv(s)'
  <2>1. CASE s = r
    BY <2>1
  <2>2. CASE s # r
    <3>1. RequestInv(s)
      BY DEF RInv, RepliesInv
    <3>2. at'[s] = at[s] /\ request'[s] = request[s] /\ read'[s] = read[s]
      BY <1>1, <2>2
    <3>3. at[s] \in Working => MyDir(s) \in DOMAIN dirs' /\ dirs'[MyDir(s)] = dirs[MyDir(s)]
      BY <2>2
    <3> QED
      BY <1>1, <3>1, <3>2, <3>3 DEF RequestInv, Good, Running, MyDir, Working
  <2> QED
    BY <2>1, <2>2
<1>3. ASSUME NEW s \in scene.requests, NEW t \in scene.requests,
             at'[s] \in Working, at'[t] \in Working, MyDir(s)' = MyDir(t)'
      PROVE  s = t
  BY <1>1, <1>3 DEF RInv, RepliesInv, MyDir
<1> QED
  BY <1>1, <1>2, <1>3 DEF RepliesInv

\* A request that has its answer: it is done, or removes its directory.
LEMMA AnswerStep ==
  ASSUME RInv, NEW r \in scene.requests, Running(r), NEW place \in {"idle", "remove"}, Goto(r, place),
         place = "remove" => at[r] \in Working,
         NEW reply, NEW result, Replies(r, reply, result), reply = "done" => result \in Good(r),
         UNCHANGED <<imageVars, dirs, read>>
  PROVE  RepliesInv'
<1> DEFINE c == [request[r] EXCEPT !.reply = reply, !.result = result, !.img = Torn]
<1>1. IsRequest(request[r]) /\ RequestInv(r) /\ place \in Places
  BY DEF RInv, IInv, Types, RepliesInv, Places
<1>2. /\ c.dir = request[r].dir /\ c.page = request[r].page /\ c.reply = reply /\ c.result = result
  BY <1>1 DEF IsRequest, Fields
<1>3. request' = [request EXCEPT ![r] = c]
  BY DEF Replies
<1> HIDE DEF c
<1>4. at'[r] = place /\ request'[r] = c
  BY <1>3 DEF RInv, IInv, Types, Goto
<1>5. RequestInv(r)'
  BY <1>1, <1>2, <1>4 DEF RequestInv, Good, Running, MyDir, Working, imageVars
<1>6. /\ read' = [s \in scene.requests |-> read'[s]] /\ \A s \in scene.requests \ {r} : read'[s] = read[s]
      /\ dirs' = [d \in DOMAIN dirs' |-> dirs'[d]] /\ \A d \in DOMAIN dirs' : IsDir(dirs'[d])
      /\ \A s \in scene.requests \ {r} : at[s] \in Working =>
           MyDir(s) \in DOMAIN dirs' /\ dirs'[MyDir(s)] = dirs[MyDir(s)]
  BY DEF RInv, RepliesInv, RequestInv
<1>7. place \in Working => \A s \in scene.requests \ {r} : at[s] \in Working => MyDir(s) # c.dir
  BY <1>2 DEF RInv, RepliesInv, MyDir, Working
<1> QED
  BY <1>1, <1>3, <1>5, <1>6, <1>7, RequestStep

\* A request that goes on in its directory.
LEMMA WorkStep ==
  ASSUME RInv, NEW r \in scene.requests, at[r] \in Working, NEW place \in {"unpaper", "tesseract"},
         Goto(r, place), UNCHANGED <<imageVars, request, read>>,
         NEW e, IsDir(e), dirs' = [dirs EXCEPT ![MyDir(r)] = e],
         NEW img \in Good(r), place = "unpaper" => e.input = encodePPM(img),
         place = "tesseract" => e.corrected = encodePPM(img)
  PROVE  RepliesInv'
<1>1. RequestInv(r) /\ place \in Places /\ MyDir(r) \in DOMAIN dirs
  BY DEF RInv, RepliesInv, Places, RequestInv
<1>2. request' = [request EXCEPT ![r] = request[r]]
  BY DEF RInv, IInv, Types
<1>3. at'[r] = place
  BY DEF RInv, IInv, Types, Goto
<1>4. DOMAIN dirs' = DOMAIN dirs /\ dirs'[MyDir(r)] = e
  BY <1>1
<1>5. RequestInv(r)'
  BY <1>1, <1>3, <1>4 DEF RequestInv, Good, Running, MyDir, Working, imageVars
<1>6. /\ read' = [s \in scene.requests |-> read'[s]] /\ \A s \in scene.requests \ {r} : read'[s] = read[s]
      /\ dirs' = [d \in DOMAIN dirs' |-> dirs'[d]] /\ \A d \in DOMAIN dirs' : IsDir(dirs'[d])
  BY DEF RInv, RepliesInv
<1>7. ASSUME NEW s \in scene.requests \ {r}, at[s] \in Working
      PROVE  /\ MyDir(s) # MyDir(r) /\ MyDir(s) \in DOMAIN dirs' /\ dirs'[MyDir(s)] = dirs[MyDir(s)]
  BY <1>4, <1>7 DEF RInv, RepliesInv, RequestInv
<1> QED
  BY <1>1, <1>2, <1>5, <1>6, <1>7, RequestStep DEF MyDir

LEMMA BeginReplies ==
  ASSUME RInv, NEW r \in scene.requests, NEW kind, NEW p, Begin(r, kind, p)
  PROVE  RepliesInv'
<1> DEFINE c == [NoRequest EXCEPT !.kind = kind, !.page = p]
<1>1. /\ p \in DOMAIN files /\ Goto(r, "read") /\ request' = [request EXCEPT ![r] = c]
      /\ read' = [read EXCEPT ![r] = {files[p]}] /\ UNCHANGED <<imageVars, dirs>>
  BY DEF Begin
<1>2. c.page = p
  BY DEF NoRequest
<1> HIDE DEF c
<1>3. at'[r] = "read" /\ request'[r] = c /\ read'[r] = {files[p]}
  BY <1>1 DEF RInv, IInv, Types, Goto, RepliesInv
<1>4. files[p] = Torn \/ IsImage(files[p])
  BY <1>1 DEF RInv, PagesInv, PageInv
<1>5. RequestInv(r)'
  BY <1>1, <1>2, <1>3, <1>4 DEF RequestInv, Good, Running, Working, imageVars
<1>6. /\ read' = [s \in scene.requests |-> read'[s]] /\ \A s \in scene.requests \ {r} : read'[s] = read[s]
      /\ dirs' = [d \in DOMAIN dirs' |-> dirs'[d]] /\ \A d \in DOMAIN dirs' : IsDir(dirs'[d])
      /\ \A s \in scene.requests \ {r} : at[s] \in Working =>
           MyDir(s) \in DOMAIN dirs' /\ dirs'[MyDir(s)] = dirs[MyDir(s)]
  BY <1>1 DEF RInv, RepliesInv, RequestInv
<1>7. "read" \in Places /\ "read" \notin Working
  BY DEF Places, Working
<1> QED
  BY <1>1, <1>5, <1>6, <1>7, RequestStep

LEMMA ReadReplies == ASSUME RInv, NEW r \in scene.requests, Read(r) PROVE RepliesInv'
<1> DEFINE img == files[request[r].page]
<1>1. /\ at[r] = "read" /\ Running(r) /\ request[r].kind \in {"text", "pdf"}
      /\ UNCHANGED <<imageVars, dirs, read>>
  BY DEF Read, Running, RInv, IInv, BeforeMkdirTemp
<1>2. RequestInv(r) /\ IsRequest(request[r])
  BY DEF RInv, RepliesInv, IInv, Types
<1>3. img # Torn => img \in Good(r) /\ IsImage(img)
  BY <1>1, <1>2 DEF RequestInv, Good
<1>4. CASE img = Torn
  BY <1>1, <1>4, AnswerStep DEF Read
<1>5. CASE img # Torn /\ request[r].kind = "pdf"
  <2>1. Goto(r, "idle") /\ Replies(r, "done", Document(img))
    BY <1>5 DEF Read
  <2>2. Document(img) \in Good(r)
    BY <1>3, <1>5, DocumentIs
  <2> QED
    BY <1>1, <2>1, <2>2, AnswerStep
<1>6. CASE img # Torn /\ request[r].kind = "text"
  <2> DEFINE c == [request[r] EXCEPT !.img = img]
  <2>1. Goto(r, "mkdir") /\ request' = [request EXCEPT ![r] = c]
    BY <1>6 DEF Read
  <2>2. c.img = img /\ c.page = request[r].page
    BY <1>2 DEF IsRequest, Fields
  <2> HIDE DEF c
  <2>3. at'[r] = "mkdir" /\ request'[r] = c
    BY <2>1 DEF RInv, IInv, Types, Goto
  <2>4. RequestInv(r)'
    BY <1>1, <1>2, <1>3, <1>6, <2>2, <2>3 DEF RequestInv, Good, Running, Working, imageVars
  <2>5. /\ read' = [s \in scene.requests |-> read'[s]]
        /\ \A s \in scene.requests \ {r} : read'[s] = read[s]
        /\ dirs' = [d \in DOMAIN dirs' |-> dirs'[d]] /\ \A d \in DOMAIN dirs' : IsDir(dirs'[d])
        /\ \A s \in scene.requests \ {r} : at[s] \in Working =>
             MyDir(s) \in DOMAIN dirs' /\ dirs'[MyDir(s)] = dirs[MyDir(s)]
    BY <1>1 DEF RInv, RepliesInv, RequestInv
  <2>6. "mkdir" \in Places /\ "mkdir" \notin Working
    BY DEF Places, Working
  <2> QED
    BY <1>1, <2>1, <2>4, <2>5, <2>6, RequestStep
<1> QED
  BY <1>1, <1>4, <1>5, <1>6

LEMMA MkdirTempReplies == ASSUME RInv, NEW r \in scene.requests, MkdirTemp(r) PROVE RepliesInv'
<1>1. at[r] = "mkdir" /\ Running(r) /\ UNCHANGED <<imageVars, read>>
  BY DEF MkdirTemp, Running
<1>2. RequestInv(r) /\ IsRequest(request[r])
  BY DEF RInv, RepliesInv, IInv, Types
<1>3. CASE Replies(r, "error", Torn) /\ Goto(r, "idle") /\ UNCHANGED dirs
  BY <1>1, <1>3, AnswerStep
<1>4. ASSUME NEW d \in FreshDir,
             dirs' = [e \in DOMAIN dirs \cup {d} |->
                        IF e = d THEN [input |-> NoFile, corrected |-> NoFile] ELSE dirs[e]],
             request' = [request EXCEPT ![r].dir = d], Goto(r, "write")
      PROVE  RepliesInv'
  <2> DEFINE c == [request[r] EXCEPT !.dir = d]
  <2>1. request' = [request EXCEPT ![r] = c]
    BY <1>4
  <2>2. c.dir = d /\ c.img = request[r].img /\ c.page = request[r].page
    BY <1>2 DEF IsRequest, Fields
  <2> HIDE DEF c
  <2>3. at'[r] = "write" /\ request'[r] = c
    BY <1>4, <2>1 DEF RInv, IInv, Types, Goto
  <2>4. d \notin DOMAIN dirs /\ DOMAIN dirs' = DOMAIN dirs \cup {d}
    BY <1>4 DEF FreshDir
  <2>5. RequestInv(r)'
    BY <1>1, <1>2, <2>2, <2>3, <2>4 DEF RequestInv, Good, Running, MyDir, Working, imageVars
  <2>6. dirs' = [e \in DOMAIN dirs' |-> dirs'[e]] /\ \A e \in DOMAIN dirs' : IsDir(dirs'[e])
    BY <1>4, <2>4 DEF RInv, RepliesInv, IsDir
  <2>7. ASSUME NEW s \in scene.requests \ {r}, at[s] \in Working
        PROVE  /\ MyDir(s) # d /\ MyDir(s) \in DOMAIN dirs' /\ dirs'[MyDir(s)] = dirs[MyDir(s)]
    BY <1>4, <2>4, <2>7 DEF RInv, RepliesInv, RequestInv
  <2>8. /\ read' = [s \in scene.requests |-> read'[s]] /\ "write" \in Places
        /\ \A s \in scene.requests \ {r} : read'[s] = read[s]
    BY <1>1 DEF RInv, RepliesInv, Places
  <2> QED
    BY <1>1, <1>4, <2>1, <2>2, <2>5, <2>6, <2>7, <2>8, RequestStep
<1> QED
  BY <1>3, <1>4 DEF MkdirTemp

LEMMA WorkReplies ==
  ASSUME RInv, NEW r \in scene.requests, WritePPM(r) \/ RunUnpaper(r) \/ RunTesseract(r)
  PROVE  RepliesInv'
<1>1. at[r] \in Working /\ Running(r) /\ UNCHANGED <<imageVars, read>>
  BY DEF WritePPM, RunUnpaper, RunTesseract, Step, Working, Running
<1>2. RequestInv(r) /\ MyDir(r) \in DOMAIN dirs /\ IsDir(dirs[MyDir(r)])
  BY <1>1 DEF RInv, RepliesInv, RequestInv
<1>3. ASSUME NEW reply, NEW result, Replies(r, reply, result), Goto(r, ToRemove(r)), UNCHANGED dirs,
             reply = "done" => result \in Good(r)
      PROVE  RepliesInv'
  BY <1>1, <1>3, AnswerStep DEF ToRemove
<1>4. ASSUME NEW reply \in {"unavailable", "error"}, Fails(r, reply) PROVE RepliesInv'
  <2>1. reply # "done"
    OBVIOUS
  <2> QED
    BY <1>3, <1>4, <2>1 DEF Fails
<1> DEFINE dir == dirs[MyDir(r)]
<1>5. CASE WritePPM(r) /\ ~Fails(r, "error")
  <2> DEFINE img == request[r].img
             e == [dir EXCEPT !.input = encodePPM(img)]
  <2>1. /\ dirs' = [dirs EXCEPT ![MyDir(r)] = e] /\ Goto(r, "unpaper") /\ UNCHANGED request
        /\ at[r] = "write"
    BY <1>5 DEF WritePPM, Step
  <2>2. IsDir(e) /\ e.input = encodePPM(img)
    BY <1>2 DEF IsDir
  <2>3. img \in Good(r)
    BY <1>2, <2>1 DEF RequestInv
  <2> HIDE DEF e, img
  <2> QED
    BY <1>1, <2>1, <2>2, <2>3, WorkStep
<1>6. CASE RunUnpaper(r) /\ ~Fails(r, "error") /\ ~Fails(r, "unavailable")
  <2> DEFINE e == [dir EXCEPT !.corrected = dir.input]
  <2>1. /\ dirs' = [dirs EXCEPT ![MyDir(r)] = e] /\ Goto(r, "tesseract") /\ UNCHANGED request
        /\ at[r] = "unpaper"
    BY <1>6 DEF RunUnpaper, Step
  <2>2. IsDir(e) /\ e.corrected = dir.input
    BY <1>2 DEF IsDir
  <2>3. PICK img \in Good(r) : dir.input = encodePPM(img)
    BY <1>2, <2>1 DEF RequestInv
  <2> HIDE DEF e, dir
  <2> QED
    BY <1>1, <2>1, <2>2, <2>3, WorkStep
<1>7. CASE RunTesseract(r) /\ ~Fails(r, "error") /\ ~Fails(r, "unavailable")
  <2>1. /\ Replies(r, "done", Decoded(dir.corrected)) /\ Goto(r, ToRemove(r)) /\ UNCHANGED dirs
        /\ at[r] = "tesseract"
    BY <1>7 DEF RunTesseract, Step
  <2>2. PICK img \in Good(r) : dir.corrected = encodePPM(img)
    BY <1>2, <2>1 DEF RequestInv
  <2>3. IsImage(img)
    BY <1>2, <2>2 DEF RequestInv
  <2>4. Decoded(dir.corrected) \in Good(r)
    BY <2>2, <2>3, DecodedIs
  <2> QED
    BY <1>3, <2>1, <2>4
<1> QED
  BY <1>4, <1>5, <1>6, <1>7

LEMMA RemoveAllReplies == ASSUME RInv, NEW r \in scene.requests, RemoveAll(r) PROVE RepliesInv'
<1> DEFINE c == [request[r] EXCEPT !.dir = NoDir]
<1>1. /\ at[r] = "remove" /\ Goto(r, "idle") /\ UNCHANGED <<imageVars, read>>
      /\ request' = [request EXCEPT ![r] = c]
  BY DEF RemoveAll
<1>2. RequestInv(r) /\ IsRequest(request[r])
  BY DEF RInv, RepliesInv, IInv, Types
<1>3. c.reply = request[r].reply /\ c.result = request[r].result
  BY <1>2 DEF IsRequest, Fields
<1> HIDE DEF c
<1>4. at'[r] = "idle" /\ request'[r] = c
  BY <1>1 DEF RInv, IInv, Types, Goto
<1>5. RequestInv(r)'
  BY <1>1, <1>2, <1>3, <1>4 DEF RequestInv, Good, Running, Working, imageVars
<1>6. dirs' = [d \in DOMAIN dirs \ {MyDir(r)} |-> dirs[d]] \/ UNCHANGED dirs
  BY DEF RemoveAll
<1>7. dirs' = [d \in DOMAIN dirs' |-> dirs'[d]] /\ \A d \in DOMAIN dirs' : IsDir(dirs'[d])
  BY <1>6 DEF RInv, RepliesInv
<1>8. ASSUME NEW s \in scene.requests \ {r}, at[s] \in Working
      PROVE  MyDir(s) \in DOMAIN dirs' /\ dirs'[MyDir(s)] = dirs[MyDir(s)]
  <2>1. MyDir(s) # MyDir(r) /\ MyDir(s) \in DOMAIN dirs
    BY <1>1, <1>8 DEF RInv, RepliesInv, RequestInv, Working
  <2> QED
    BY <1>6, <2>1
<1>9. /\ read' = [s \in scene.requests |-> read'[s]]
      /\ \A s \in scene.requests \ {r} : read'[s] = read[s]
      /\ "idle" \in Places /\ "idle" \notin Working
  BY <1>1 DEF RInv, RepliesInv, Places, Working
<1> QED
  BY <1>1, <1>5, <1>7, <1>8, <1>9, RequestStep

LEMMA CrashReplies == ASSUME RInv, Crash PROVE RepliesInv'
<1>1. /\ at' = [r \in scene.requests |-> "idle"] /\ request' = [r \in scene.requests |-> NoRequest]
      /\ read' = [r \in scene.requests |-> {}] /\ UNCHANGED <<scene, dirs>>
  BY DEF Crash
<1>2. \A r \in scene.requests : RequestInv(r)'
  BY <1>1 DEF RequestInv, Good, Running, Working, NoRequest
<1> QED
  BY <1>1, <1>2 DEF RInv, RepliesInv, Working

\* A step that only writes pages: a request's page is there, and what it has had
\* of late is among its images.
LEMMA PagesReplies ==
  ASSUME RInv, UNCHANGED <<scene, at, request, dirs>>,
         read' = [r \in scene.requests |-> read'[r]],
         \A r \in scene.requests :
           /\ read[r] \subseteq read'[r] /\ \A img \in read'[r] \ {Torn} : IsImage(img)
           /\ Running(r) => /\ request[r].page \in DOMAIN files'
                            /\ files'[request[r].page] \in read'[r] \cup {Torn}
  PROVE  RepliesInv'
<1>1. ASSUME NEW r \in scene.requests PROVE RequestInv(r)'
  <2>1. RequestInv(r) /\ Good(r) \subseteq Good(r)'
    BY DEF RInv, RepliesInv, Good
  <2> QED
    BY <2>1 DEF RequestInv, Good, Running, MyDir
<1> QED
  BY <1>1 DEF RInv, RepliesInv, MyDir

LEMMA ScanReplies == ASSUME RInv, ScanPage, UNCHANGED ocrVars PROVE RepliesInv'
<1>1. UNCHANGED <<scene, at, request, dirs, read>> /\ ~scanned
  BY DEF ScanPage, ocrVars
<1>2. DOMAIN files = {}
  BY <1>1 DEF RInv, PagesInv, PagesAre
<1>3. \A r \in scene.requests : ~Running(r) /\ \A img \in read[r] \ {Torn} : IsImage(img)
  BY <1>2 DEF RInv, RepliesInv, RequestInv, Good
<1> QED
  BY <1>1, <1>3, PagesReplies DEF RInv, RepliesInv

LEMMA EditReplies == ASSUME RInv, Edit, UNCHANGED ocrVars PROVE RepliesInv'
<1>1. PICK p \in scene.pages : CanEdit(p)
  BY DEF Edit, handleRotatePage, handleCropPage
<1>2. /\ UNCHANGED <<scene, at, request, dirs, read>> /\ files' = [files EXCEPT ![p] = Torn]
  BY <1>1 DEF CanEdit, ocrVars
<1>3. ASSUME NEW r \in scene.requests
      PROVE  /\ \A img \in read[r] \ {Torn} : IsImage(img)
             /\ Running(r) => /\ request[r].page \in DOMAIN files'
                              /\ files'[request[r].page] \in read[r] \cup {Torn}
  BY <1>2 DEF RInv, RepliesInv, RequestInv, Good
<1> QED
  BY <1>2, <1>3, PagesReplies DEF RInv, RepliesInv

LEMMA PageWrittenReplies == ASSUME RInv, PageWritten PROVE RepliesInv'
<1>1. /\ UNCHANGED <<scene, at, request, dirs>> /\ files' = [files EXCEPT ![edit.page] = edit.img]
      /\ read' = [r \in scene.requests |->
                    IF Running(r) /\ request[r].page = edit.page THEN read[r] \cup {edit.img}
                    ELSE read[r]]
      /\ EditInv
  BY DEF PageWritten, WritePage, RInv, PagesInv
<1>2. ASSUME NEW r \in scene.requests
      PROVE  /\ read[r] \subseteq read'[r] /\ \A img \in read'[r] \ {Torn} : IsImage(img)
             /\ Running(r) => /\ request[r].page \in DOMAIN files'
                              /\ files'[request[r].page] \in read'[r] \cup {Torn}
  <2>1. RequestInv(r)
    BY DEF RInv, RepliesInv
  <2>2. CASE Running(r) /\ request[r].page = edit.page
    <3>1. read'[r] = read[r] \cup {edit.img} /\ IsImage(edit.img)
      BY <1>1, <2>2 DEF EditInv
    <3> QED
      BY <1>1, <2>1, <2>2, <3>1 DEF RequestInv, Good, EditInv
  <2>3. CASE ~(Running(r) /\ request[r].page = edit.page)
    <3>1. read'[r] = read[r]
      BY <1>1, <2>3
    <3> QED
      BY <1>1, <2>1, <2>3, <3>1 DEF RequestInv, Good
  <2> QED
    BY <2>2, <2>3
<1>3. read' = [r \in scene.requests |-> read'[r]]
  BY <1>1
<1> QED
  BY <1>1, <1>2, <1>3, PagesReplies

LEMMA RepliesInitially == InitOcr => RepliesInv
<1> SUFFICES ASSUME InitOcr PROVE RepliesInv
  OBVIOUS
<1>1. /\ at = [r \in scene.requests |-> "idle"] /\ request = [r \in scene.requests |-> NoRequest]
      /\ read = [r \in scene.requests |-> {}] /\ DOMAIN dirs = {} /\ dirs = <<>>
  BY DEF InitOcr
<1>2. \A r \in scene.requests : RequestInv(r)
  BY <1>1 DEF RequestInv, Good, Running, Working, NoRequest
<1> QED
  BY <1>1, <1>2 DEF RepliesInv, Working

LEMMA RepliesStep == ASSUME RInv, [Next]_vars PROVE RepliesInv'
<1>2. CASE ScanPage /\ UNCHANGED ocrVars
  BY <1>2, ScanReplies
<1>3. CASE Edit /\ UNCHANGED ocrVars
  BY <1>3, EditReplies
<1>4. CASE PageWritten
  BY <1>4, PageWrittenReplies
<1>5. CASE Crash
  BY <1>5, CrashReplies
<1>6. ASSUME NEW r \in scene.requests,
             \/ \E kind \in {"text", "pdf"}, p \in 1 .. 2 : Begin(r, kind, p)
             \/ Read(r) \/ MkdirTemp(r) \/ WritePPM(r) \/ RunUnpaper(r) \/ RunTesseract(r)
             \/ RemoveAll(r)
      PROVE  RepliesInv'
  BY <1>6, BeginReplies, ReadReplies, MkdirTempReplies, WorkReplies, RemoveAllReplies
<1>7. CASE UNCHANGED vars
  <2>1. UNCHANGED <<scene, files, at, request, dirs, read>>
    BY <1>7 DEF vars, imageVars, ocrVars
  <2>2. \A r \in scene.requests : RequestInv(r)
    BY DEF RInv, RepliesInv
  <2> QED
    BY <2>1, <2>2, PagesReplies DEF RInv, RepliesInv, RequestInv, Good
<1> QED
  BY <1>2, <1>3, <1>4, <1>5, <1>6, <1>7 DEF Next

-------------------------------------------------------------------------------
(* Theorems *)

LEMMA Always == Spec => []RInv
<1>1. InitOcr => RInv
  BY Initially, PagesInitially, RepliesInitially DEF InitOcr, RInv
<1>2. RInv /\ [Next]_vars => RInv'
  BY Inductive, PagesInductive, RepliesStep DEF RInv
<1> QED
  BY <1>1, <1>2, PTL DEF Spec

\* What else the types speak of.
Rest == left \subseteq Dirs /\ crashes \in 0 .. scene.crashes

LEMMA RestStep == ASSUME RInv, Rest, [Next]_vars PROVE Rest'
<1>1. CASE UNCHANGED <<scene, left, crashes>>
  BY <1>1 DEF Rest
<1>2. CASE Crash
  <2>1. scene.crashes \in Nat
    BY SceneAssumption DEF RInv, PagesInv, Sheeted, Scene
  <2>2. left' = left \cup DOMAIN dirs /\ crashes > 0 /\ crashes' = crashes - 1 /\ UNCHANGED scene
    BY <1>2 DEF Crash
  <2> QED
    BY <2>1, <2>2 DEF Rest, RInv, IInv, Types
<1>3. ASSUME NEW r \in scene.requests, RemoveAll(r) PROVE Rest'
  <2>1. MyDir(r) \in Dirs
    BY <1>3 DEF RemoveAll, RInv, RepliesInv, RequestInv, Working, IInv, Types
  <2>2. left' \subseteq left \cup {MyDir(r)} /\ UNCHANGED <<scene, crashes>>
    BY <1>3 DEF RemoveAll, imageVars
  <2> QED
    BY <2>1, <2>2 DEF Rest
<1>4. CASE (ScanPage \/ Edit) /\ UNCHANGED ocrVars
  <2>1. UNCHANGED scene
    BY <1>4 DEF ScanPage, Edit, handleRotatePage, handleCropPage, CanEdit
  <2> QED
    BY <1>1, <1>4, <2>1 DEF ocrVars
<1>5. CASE PageWritten
  BY <1>1, <1>5 DEF PageWritten, WritePage
<1>6. ASSUME NEW r \in scene.requests,
             \/ \E kind \in {"text", "pdf"}, p \in 1 .. 2 : Begin(r, kind, p)
             \/ Read(r) \/ MkdirTemp(r) \/ WritePPM(r) \/ RunUnpaper(r) \/ RunTesseract(r)
      PROVE  UNCHANGED <<scene, left, crashes>>
  BY <1>6 DEF Begin, Read, MkdirTemp, WritePPM, RunUnpaper, RunTesseract, Step, imageVars
<1>7. CASE UNCHANGED vars
  BY <1>1, <1>7 DEF vars, imageVars, ocrVars
<1> QED
  BY <1>1, <1>2, <1>3, <1>4, <1>5, <1>6, <1>7 DEF Next

\* The type invariant: what is stored is a picture with a pixel, or torn; what
\* an edit has in hand is one (image.go, edit.go, ocr.go).
THEOREM TypeCorrect == Spec => []TypeOK
<1>1. InitOcr => Rest
  <2> SUFFICES ASSUME InitOcr PROVE Rest
    OBVIOUS
  <2>1. scene.crashes \in Nat /\ crashes = scene.crashes /\ left = {}
    BY SceneAssumption DEF InitOcr, Init, Scene
  <2> QED
    BY <2>1 DEF Rest
<1>2. RInv /\ Rest /\ [Next]_vars => Rest'
  BY RestStep
<1>3. RInv /\ Rest => TypeOK
  <2> SUFFICES ASSUME RInv, Rest PROVE TypeOK
    OBVIOUS
  <2>1. scene \in Scenes /\ sheet \in scene.sheets /\ scanned \in BOOLEAN /\ edits \in 0 .. scene.edits
    BY DEF RInv, PagesInv, Sheeted
  <2>2. \A p \in DOMAIN files : files[p] = Torn \/ ImageOK(files[p])
    BY ImageIsNotTorn DEF RInv, PagesInv, PageInv
  <2>3. edit = NoEdit \/ ImageOK(edit.img)
    BY ImageIsNotTorn DEF RInv, PagesInv, EditInv
  <2>4. DOMAIN turns = DOMAIN files /\ DOMAIN seen = DOMAIN files /\ astray \subseteq DOMAIN files
    BY DEF RInv, PagesInv, PagesAre
  <2> QED
    BY <2>1, <2>2, <2>3, <2>4 DEF TypeOK, Rest, RInv, IInv, Types
<1> QED
  BY Always, <1>1, <1>2, <1>3, PTL DEF Spec

\* However often a page has been turned and cropped, it is its side of the sheet,
\* less what the crops have cut off, turned as often as asked for, whatever the
\* sizes (driver.go, image.go, edit.go).
THEOREM PagesShowTheirSide == Spec => []PageShowsItsSide
<1>1. RInv => PageShowsItsSide
  <2> SUFFICES ASSUME RInv, NEW p \in DOMAIN files, files[p] # Torn, p \notin astray
               PROVE  /\ files[p].w * files[p].h = Cardinality(seen[p])
                      /\ \A o \in seen[p] : files[p].px[Shown(o, seen[p], turns[p])] = Original(p, o)
    BY DEF PageShowsItsSide
  <2>1. PICK b : IsBox(b) /\ seen[p] = Box(b) /\ ShowsBox(files[p], turns[p], b, p)
    BY DEF RInv, PagesInv, PageInv, Shows
  <2>2. /\ files[p].w * files[p].h = Cardinality(Box(b))
        /\ \A o \in Box(b) : files[p].px[Shown(o, Box(b), turns[p])] = Original(p, o)
    BY <2>1, ShowsTheSide
  <2> QED
    BY <2>1, <2>2
<1> QED
  BY Always, <1>1, PTL

\* A back is dropped exactly when the share of dark pixels on that side of the
\* sheet is below the threshold, for every sheet (image.go, isBlank).
THEOREM BacksAreDropped == Spec => []BlankBacksAreDropped
<1>1. RInv => BlankBacksAreDropped
  <2> SUFFICES ASSUME RInv, scanned, sheet.duplex, sheet.stripes > 0
               PROVE  Len(files) = 1 <=>
                        \/ BackOf = {}
                        \/ Cardinality(BackOf \cap sheet.ink) * InkLimit[2]
                             < InkLimit[1] * Cardinality(BackOf)
    BY DEF BlankBacksAreDropped, BackOf
  <2>1. PICK n \in 0 .. 2 : PagesAre(n) /\ (n = 1 <=> isBlank(rear(Chunks)))
    BY DEF RInv, PagesInv
  <2>2. Len(files) = n
    BY <2>1 DEF PagesAre
  <2>3. Sheeted
    BY DEF RInv, PagesInv
  <2> QED
    BY <2>1, <2>2, <2>3, BlankIs
<1> QED
  BY Always, <1>1, PTL

\* What a request replies with is an image that its page has had since it came
\* in, whatever other requests and edits do meanwhile (ocr.go, ocr_handlers.go).
THEOREM RepliesAreOfThePage == Spec => []ReplyIsOfThePage
<1>1. RInv => ReplyIsOfThePage
  BY DEF RInv, RepliesInv, RequestInv, Good, Running, ReplyIsOfThePage
<1> QED
  BY Always, <1>1, PTL

\* A temporary directory is there for a request that is running, unless the
\* server died or the directory could not be removed: each way out of a request
\* passes its deferred RemoveAll (ocr.go:63).
THEOREM DirectoriesAreRemoved == Spec => []NoDirLeftBehind
<1>1. IInv => NoDirLeftBehind
  BY DEF IInv
<1>2. IInv /\ [Next]_vars => IInv'
  BY Inductive
<1> QED
  BY Initially, <1>1, <1>2, PTL DEF Spec
===============================================================================
