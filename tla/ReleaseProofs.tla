---------------------------- MODULE ReleaseProofs ----------------------------
(***************************************************************************)
(* Theorems about the knowledge base (Literature, Release), for any number *)
(* of subproblems, methods, works, builders, releases and crashes.         *)
(***************************************************************************)
EXTENDS Release, FiniteSetTheorems, NaturalsInduction, TLAPS

-----------------------------------------------------------------------------
(* The inductive invariant                                                 *)

(* What a command of the host may write.                                   *)
CardFiles == [kind : {"body"}, card : Cards, data : Texts \cup {Torn}]
               \cup [kind : {"meta"}, card : Cards, data : Metas \cup {Torn}]
Files == CardFiles \cup [kind : {"sources"}, card : {Missing}, data : Sources \cup {Missing, Torn}]
                   \cup [kind : {"record"}, card : {Missing}, data : {"written"}]

JobKnown ==
  job # Idle => job \in [to : {"drafts", "workspace"}, files : Seq(Files)] /\ job.files # <<>>

(* An ingest writes the body of a card before its metadata, so drafts with *)
(* metadata have a body, also when the host died.                          *)
IngestWritesBodies ==
  job.to = "drafts" =>
    \A i \in DOMAIN job.files : job.files[i].kind = "meta" =>
      \/ drafts.body[job.files[i].card] # Missing
      \/ \E j \in 1..(i - 1) : /\ job.files[j].kind = "body"
                               /\ job.files[j].card = job.files[i].card
DraftsHaveBodies == \A c \in Cards : drafts.meta[c] # Missing => drafts.body[c] # Missing

(* A promotion has each file of a card in the workspace or before it, and  *)
(* ends with the sources of the drafts.                                    *)
Coming(kind, c) == \E i \in DOMAIN job.files : job.files[i].kind = kind /\ job.files[i].card = c
PromotionGoesOn ==
  job.to = "workspace" =>
    /\ job.files[Len(job.files)].kind = "sources"
    /\ \A i \in DOMAIN job.files :
         job.files[i].kind = "sources" => i = Len(job.files) /\ job.files[i].data = drafts.sources
    /\ \A c \in Cards : drafts.meta[c] # Missing =>
         /\ workspace.meta[c] # Missing \/ Coming("meta", c)
         /\ workspace.body[c] # Missing \/ Coming("body", c)

HostFits ==
  /\ JobKnown /\ IngestWritesBodies /\ DraftsHaveBodies /\ PromotionGoesOn
  /\ workspace.sources \in Sources \cup {Torn} /\ crashes \in Nat

(* What a build has read of a workspace that was left alone since.         *)
BuildKnown(b) ==
  LET x == build[b] IN
  /\ x.at \in {"claimed", "staged"} => x.id \in Ids /\ x.content \in Contents
  /\ x.at = "published" => x.id \in Ids /\ Published(x.id)
  /\ x.calm /\ x.at \in {"valid", "claimed"} => Valid(workspace)
  /\ x.calm /\ x.at = "claimed" => /\ x.content.index = Index(workspace)
                                   /\ x.content.sources = workspace.sources
  /\ x.calm /\ x.at = "staged" => SoundRelease(x.content)
PointerFits == current # Missing => Published(current)

ReleaseInv ==
  /\ TypeOK /\ HostFits /\ (\A b \in Builders : BuildKnown(b)) /\ PointerFits
  /\ ReleasesAreSound

-----------------------------------------------------------------------------
(* Sequences of sequences                                                  *)

(* A set of naturals that is not empty has a smallest element.             *)
LEMMA SmallestNumber ==
  ASSUME NEW T \in SUBSET Nat, T # {}
  PROVE  \E x \in T : \A y \in T : x <= y
<1> DEFINE Less == {p \in Nat \X Nat : p[1] < p[2]}
<1>1. IsWellFoundedOn(Less, Nat)
  BY NatLessThanWellFounded DEF OpToRel
<1>2. T \subseteq Nat
  OBVIOUS
<1> HIDE DEF Less
<1>3. \E x \in T : \A y \in T : ~ (<<y, x>> \in Less)
  BY <1>1, <1>2, WFMin
<1>4. \A x, y \in Nat : ~ (<<y, x>> \in Less) => x <= y
  BY DEF Less
<1>5. QED  BY <1>3, <1>4

(* s stands in f behind its first o elements; f is made of the first m of  *)
(* some sequences when each of them stands in it and it has nothing else.  *)
StandsIn(s, o, f) == o + Len(s) <= Len(f) /\ \A k \in 1..Len(s) : f[o + k] = s[k]
MadeOf(f, ss, m, V) ==
  /\ f \in Seq(V)
  /\ \A i \in 1..m : \E o \in Nat : StandsIn(ss[i], o, f)
  /\ \A j \in 1..Len(f) : \E i \in 1..m, o \in Nat :
       /\ StandsIn(ss[i], o, f) /\ o < j /\ j <= o + Len(ss[i])

(* What stands in a sequence stands in a longer one.                       *)
LEMMA StandsInLonger ==
  ASSUME NEW V, NEW s \in Seq(V), NEW f \in Seq(V), NEW t \in Seq(V), NEW o \in Nat,
         StandsIn(s, o, f)
  PROVE  StandsIn(s, o, f \o t)
<1>1. Len(f \o t) = Len(f) + Len(t) /\ Len(s) \in Nat /\ Len(f) \in Nat /\ Len(t) \in Nat
  OBVIOUS
<1>2. \A k \in 1..Len(s) : o + k \in 1..Len(f) /\ f[o + k] = s[k]
  BY <1>1 DEF StandsIn
<1>3. \A k \in 1..Len(f) : (f \o t)[k] = f[k]
  OBVIOUS
<1>4. QED  BY <1>1, <1>2, <1>3 DEF StandsIn

(* One sequence more.                                                      *)
LEMMA OneMore ==
  ASSUME NEW V, NEW ss \in Seq(Seq(V)), NEW m \in 1..Len(ss), NEW f, MadeOf(f, ss, m - 1, V)
  PROVE  MadeOf(f \o ss[m], ss, m, V)
<1> DEFINE t == ss[m]
           g == f \o t
<1>1. f \in Seq(V) /\ t \in Seq(V) /\ g \in Seq(V) /\ \A i \in 1..m : ss[i] \in Seq(V)
  BY DEF MadeOf
<1>2. Len(g) = Len(f) + Len(t) /\ Len(f) \in Nat /\ Len(t) \in Nat /\ m \in Nat
  BY <1>1
<1>3. StandsIn(t, Len(f), g)
  BY <1>1, <1>2 DEF StandsIn
<1>4. \A i \in 1..(m - 1) : \A o \in Nat : StandsIn(ss[i], o, f) => StandsIn(ss[i], o, g)
  BY <1>1, StandsInLonger
<1>5. ASSUME NEW i \in 1..m PROVE \E o \in Nat : StandsIn(ss[i], o, g)
  <2>1. CASE i = m
    BY <2>1, <1>2, <1>3
  <2>2. CASE i # m
    <3>1. i \in 1..(m - 1)
      BY <2>2, <1>2
    <3>2. QED  BY <3>1, <1>4 DEF MadeOf
  <2>3. QED  BY <2>1, <2>2
<1>6. ASSUME NEW j \in 1..Len(g)
      PROVE  \E i \in 1..m, o \in Nat : StandsIn(ss[i], o, g) /\ o < j /\ j <= o + Len(ss[i])
  <2>1. CASE j <= Len(f)
    <3>1. j \in 1..Len(f)
      BY <2>1, <1>2
    <3>2. PICK i \in 1..(m - 1), o \in Nat :
             StandsIn(ss[i], o, f) /\ o < j /\ j <= o + Len(ss[i])
      BY <3>1 DEF MadeOf
    <3>3. i \in 1..m
      BY <1>2
    <3>4. QED  BY <3>2, <3>3, <1>4
  <2>2. CASE j > Len(f)
    <3>1. j <= Len(f) + Len(t) /\ m \in 1..m
      BY <1>2
    <3>2. QED  BY <2>2, <3>1, <1>2, <1>3
  <2>3. QED  BY <2>1, <2>2, <1>2
<1>7. QED  BY <1>1, <1>5, <1>6 DEF MadeOf

(* The recursive function that FlattenSeq takes exists.                    *)
Flattens(g, ss, n) == g = [i \in 1..n |-> IF i = 1 THEN ss[i] ELSE g[i - 1] \o ss[i]]

LEMMA FlattensExists ==
  ASSUME NEW ss, NEW n \in Nat
  PROVE  \E g : Flattens(g, ss, n)
<1> DEFINE Without == {m \in 0..n : ~ \E g : Flattens(g, ss, m)}
<1>1. SUFFICES ASSUME Without # {} PROVE FALSE
  OBVIOUS
<1>2. Without \in SUBSET Nat
  OBVIOUS
<1>3. PICK m \in Without : \A k \in Without : m <= k
  BY <1>1, <1>2, SmallestNumber
<1>4. CASE m = 0
  <2>1. Flattens([i \in 1..0 |-> 0], ss, 0)
    BY DEF Flattens
  <2>2. QED  BY <1>3, <1>4, <2>1
<1>5. CASE m # 0
  <2>1. m - 1 \in 0..n /\ m \in 1..n /\ m - 1 \notin Without
    BY <1>3, <1>5
  <2>2. PICK g : Flattens(g, ss, m - 1)
    BY <2>1
  <2> DEFINE last == IF m = 1 THEN ss[m] ELSE g[m - 1] \o ss[m]
             h == [i \in 1..m |-> IF i = m THEN last ELSE g[i]]
  <2>3. ASSUME NEW i \in 1..m PROVE h[i] = IF i = 1 THEN ss[i] ELSE h[i - 1] \o ss[i]
    <3>1. CASE i = m
      <4>1. i # 1 => i - 1 \in 1..m /\ i - 1 # m
        BY <3>1, <2>1
      <4>2. h[i] = last /\ (i # 1 => h[i - 1] = g[i - 1])
        BY <3>1, <4>1
      <4>3. QED  BY <3>1, <4>2
    <3>2. CASE i # m
      <4>1. i \in 1..(m - 1) /\ (i # 1 => i - 1 \in 1..m /\ i - 1 # m)
        BY <3>2, <2>1
      <4>2. g[i] = IF i = 1 THEN ss[i] ELSE g[i - 1] \o ss[i]
        BY <4>1, <2>2 DEF Flattens
      <4>3. h[i] = g[i] /\ (i # 1 => h[i - 1] = g[i - 1])
        BY <3>2, <4>1
      <4>4. QED  BY <4>2, <4>3
    <3>3. QED  BY <3>1, <3>2
  <2>4. h = [i \in 1..m |-> h[i]]
    OBVIOUS
  <2>5. Flattens(h, ss, m)
    <3> HIDE DEF h
    <3>1. QED  BY <2>3, <2>4 DEF Flattens
  <2>6. QED  BY <1>3, <2>5
<1>6. QED  BY <1>4, <1>5

(* A flattened sequence is made of its parts.                              *)
LEMMA FlattenedIsMade ==
  ASSUME NEW V, NEW ss \in Seq(Seq(V))
  PROVE  MadeOf(FlattenSeq(ss), ss, Len(ss), V)
<1> DEFINE n == Len(ss)
<1>1. n \in Nat
  OBVIOUS
<1>2. CASE n = 0
  <2>1. FlattenSeq(ss) = ss /\ ss = <<>>
    BY <1>2 DEF FlattenSeq
  <2>2. QED  BY <2>1 DEF MadeOf
<1>3. CASE n # 0
  <2> DEFINE g == CHOOSE f : Flattens(f, ss, n)
  <2>1. Flattens(g, ss, n)
    BY <1>1, FlattensExists
  <2>2. FlattenSeq(ss) = g[n]
    BY <1>3 DEF FlattenSeq, Flattens
  <2> HIDE DEF g
  <2>3. \A i \in 1..n : g[i] = IF i = 1 THEN ss[i] ELSE g[i - 1] \o ss[i]
    BY <2>1 DEF Flattens
  <2> DEFINE Odd == {m \in 1..n : ~ MadeOf(g[m], ss, m, V)}
  <2>4. SUFFICES ASSUME Odd # {} PROVE FALSE
    BY <1>1, <1>3, <2>2
  <2>5. Odd \in SUBSET Nat
    BY <1>1
  <2>6. PICK m \in Odd : \A k \in Odd : m <= k
    BY <2>4, <2>5, SmallestNumber
  <2>7. CASE m = 1
    <3>1. g[1] = ss[1] /\ ss[1] \in Seq(V) /\ Len(ss[1]) \in Nat
      BY <1>1, <1>3, <2>3
    <3>2. StandsIn(ss[1], 0, ss[1])
      BY <3>1 DEF StandsIn
    <3>3. MadeOf(ss[1], ss, 1, V)
      BY <3>1, <3>2 DEF MadeOf
    <3>4. QED  BY <2>6, <2>7, <3>1, <3>3
  <2>8. CASE m # 1
    <3>1. m - 1 \in 1..n /\ m \in 1..n /\ m - 1 \notin Odd
      BY <2>6, <2>8, <1>1
    <3>2. MadeOf(g[m - 1], ss, m - 1, V)
      BY <3>1
    <3>3. g[m] = g[m - 1] \o ss[m]
      BY <3>1, <2>3, <2>8
    <3>4. MadeOf(g[m], ss, m, V)
      BY <3>1, <3>2, <3>3, OneMore
    <3>5. QED  BY <2>6, <3>4
  <2>9. QED  BY <2>7, <2>8
<1>4. QED  BY <1>2, <1>3

-----------------------------------------------------------------------------
(* The host                                                                *)

LitTypes ==
  /\ queue \in [Subs -> (SUBSET Dois) \cup {Missing}] /\ packed \subseteq Subs
  /\ screen \in [Subs -> Screen \cup {Missing}]
  /\ drafts \in Folder /\ workspace \in Folder

(* What writing one file makes of a folder.                                *)
Puts(folder, f, data, g) ==
  /\ g \in Folder /\ f.kind \in {"meta", "body", "sources", "record"}
  /\ f.kind = "meta" =>
       /\ f.card \in Cards /\ data # Missing /\ g.meta = [folder.meta EXCEPT ![f.card] = data]
       /\ g.body = folder.body /\ g.sources = folder.sources
  /\ f.kind = "body" =>
       /\ f.card \in Cards /\ data # Missing /\ g.body = [folder.body EXCEPT ![f.card] = data]
       /\ g.meta = folder.meta /\ g.sources = folder.sources
  /\ f.kind = "sources" => g.body = folder.body /\ g.meta = folder.meta /\ g.sources = data
  /\ f.kind = "record" =>
       g.body = folder.body /\ g.meta = folder.meta /\ g.sources = folder.sources

LEMMA PutFacts ==
  ASSUME NEW folder \in Folder, NEW f \in Files, NEW data,
         data = f.data \/ data = Torn \/ (f.kind = "sources" /\ data \in Sources)
  PROVE  Puts(folder, f, data, Put(folder, f, data))
<1> DEFINE g == Put(folder, f, data)
<1>1. Missing # Torn /\ Missing \notin Texts /\ Missing \notin Metas
  BY LiteratureAssumption, FilesAssumption
<1>2. /\ folder.body \in [Cards -> Texts \cup {Missing, Torn}]
      /\ folder.meta \in [Cards -> Metas \cup {Missing, Torn}]
      /\ folder.sources \in Sources \cup {Missing, Torn}
      /\ folder.record \in {Missing, Torn, "written"}
      /\ folder = [body |-> folder.body, meta |-> folder.meta, sources |-> folder.sources,
                   record |-> folder.record]
  BY DEF Folder
<1>3. \/ f.kind = "body" /\ f.card \in Cards /\ f.data \in Texts \cup {Torn}
      \/ f.kind = "meta" /\ f.card \in Cards /\ f.data \in Metas \cup {Torn}
      \/ f.kind = "sources" /\ f.data \in Sources \cup {Missing, Torn}
      \/ f.kind = "record" /\ f.data = "written"
  BY DEF Files, CardFiles
<1>4. CASE f.kind = "meta"
  <2>1. f.card \in Cards /\ data \in Metas \cup {Torn}
    BY <1>3, <1>4
  <2>2. g = [folder EXCEPT !.meta[f.card] = data]
    BY <1>4 DEF Put
  <2>3. [folder.meta EXCEPT ![f.card] = data] \in [Cards -> Metas \cup {Missing, Torn}]
    BY <1>2, <2>1
  <2>4. /\ g.meta = [folder.meta EXCEPT ![f.card] = data] /\ g.body = folder.body
        /\ g.sources = folder.sources /\ g.record = folder.record
        /\ g = [body |-> g.body, meta |-> g.meta, sources |-> g.sources, record |-> g.record]
    BY <1>2, <2>2
  <2>5. g \in Folder
    BY <1>2, <2>3, <2>4 DEF Folder
  <2>6. QED  BY <1>1, <1>4, <2>1, <2>4, <2>5 DEF Puts
<1>5. CASE f.kind = "body"
  <2>1. f.card \in Cards /\ data \in Texts \cup {Torn}
    BY <1>3, <1>5
  <2>2. g = [folder EXCEPT !.body[f.card] = data]
    BY <1>5 DEF Put
  <2>3. [folder.body EXCEPT ![f.card] = data] \in [Cards -> Texts \cup {Missing, Torn}]
    BY <1>2, <2>1
  <2>4. /\ g.body = [folder.body EXCEPT ![f.card] = data] /\ g.meta = folder.meta
        /\ g.sources = folder.sources /\ g.record = folder.record
        /\ g = [body |-> g.body, meta |-> g.meta, sources |-> g.sources, record |-> g.record]
    BY <1>2, <2>2
  <2>5. g \in Folder
    BY <1>2, <2>3, <2>4 DEF Folder
  <2>6. QED  BY <1>1, <1>5, <2>1, <2>4, <2>5 DEF Puts
<1>6. CASE f.kind = "sources"
  <2>1. data \in Sources \cup {Missing, Torn}
    BY <1>3, <1>6
  <2>2. g = [folder EXCEPT !.sources = data]
    BY <1>6 DEF Put
  <2>3. g.sources = data /\ g.body = folder.body /\ g.meta = folder.meta /\ g \in Folder
    BY <1>2, <2>1, <2>2 DEF Folder
  <2>4. QED  BY <1>6, <2>3 DEF Puts
<1>7. CASE f.kind = "record"
  <2>1. data \in {Missing, Torn, "written"}
    BY <1>3, <1>7
  <2>2. g = [folder EXCEPT !.record = data]
    BY <1>7 DEF Put
  <2>3. /\ g.sources = folder.sources /\ g.body = folder.body /\ g.meta = folder.meta
        /\ g \in Folder
    BY <1>2, <2>1, <2>2 DEF Folder
  <2>4. QED  BY <1>7, <2>3 DEF Puts
<1>8. QED  BY <1>3, <1>4, <1>5, <1>6, <1>7

(* The head and the rest of the files of a command.                        *)
LEMMA FilesOfJob ==
  ASSUME JobKnown, job # Idle
  PROVE  /\ job.to \in {"drafts", "workspace"} /\ job.files \in Seq(Files)
         /\ Len(job.files) \in Nat \ {0}
         /\ Head(job.files) = job.files[1] /\ job.files[1] \in Files
         /\ \A i \in 1..Len(job.files) : job.files[i] \in Files
         /\ Tail(job.files) \in Seq(Files) /\ Len(Tail(job.files)) = Len(job.files) - 1
         /\ \A i \in 1..(Len(job.files) - 1) : Tail(job.files)[i] = job.files[i + 1]
<1> DEFINE fs == job.files
<1>1. job \in [to : {"drafts", "workspace"}, files : Seq(Files)] /\ fs # <<>>
  BY DEF JobKnown
<1>2. job.to \in {"drafts", "workspace"} /\ fs \in Seq(Files) /\ fs # <<>>
  BY <1>1
<1> HIDE DEF fs
<1>3. /\ Len(fs) \in Nat \ {0} /\ Head(fs) = fs[1] /\ fs[1] \in Files
      /\ (\A i \in 1..Len(fs) : fs[i] \in Files)
      /\ Tail(fs) \in Seq(Files) /\ Len(Tail(fs)) = Len(fs) - 1
      /\ (\A i \in 1..(Len(fs) - 1) : Tail(fs)[i] = fs[i + 1])
  BY <1>2
<1>4. QED  BY <1>2, <1>3 DEF fs

(* What one file of a command does, whole, torn, or passed over.           *)
HostWrites(f) ==
  /\ drafts' \in Folder /\ workspace' \in Folder /\ workspace'.sources \in Sources \cup {Torn}
  /\ \A c \in Cards :
       /\ drafts.body[c] # Missing => drafts'.body[c] # Missing
       /\ workspace.body[c] # Missing => workspace'.body[c] # Missing
       /\ workspace.meta[c] # Missing => workspace'.meta[c] # Missing
  /\ job.to = "drafts" =>
       /\ workspace' = workspace /\ (f.kind = "body" => drafts'.body[f.card] # Missing)
       /\ \A c \in Cards : drafts'.meta[c] # Missing =>
            drafts.meta[c] # Missing \/ (f.kind = "meta" /\ f.card = c)
  /\ job.to = "workspace" =>
       /\ drafts' = drafts
       /\ f.kind = "body" => workspace'.body[f.card] # Missing
       /\ f.kind = "meta" => workspace'.meta[f.card] # Missing
       /\ f.kind = "sources" =>
            workspace'.body = workspace.body /\ workspace'.meta = workspace.meta

LEMMA HostWritesFile ==
  ASSUME LitTypes, HostFits, job # Idle, NEW data,
         data = Data(Head(job.files)) \/ data = Torn,
         Pass \/ Fail \/ Write(data)
  PROVE  HostWrites(job.files[1])
<1> DEFINE f == job.files[1]
<1>1. /\ job.to \in {"drafts", "workspace"} /\ Head(job.files) = f /\ f \in Files
      /\ drafts \in Folder /\ workspace \in Folder /\ workspace.sources \in Sources \cup {Torn}
  BY FilesOfJob DEF HostFits, LitTypes
<1>2. f.kind = "sources" => f.data \in Sources \cup {Missing, Torn}
  BY <1>1 DEF Files, CardFiles
<1>3. job.to = "workspace" /\ f.kind = "sources" => f.data = drafts.sources
  <2>1. 1 \in DOMAIN job.files
    BY FilesOfJob DEF HostFits
  <2>2. QED  BY <2>1 DEF HostFits, PromotionGoesOn
<1> HIDE DEF f
<1>4. CASE Pass
  <2>1. UNCHANGED <<drafts, workspace>> /\ job.to = "workspace" /\ f.kind # "sources"
        /\ Held(workspace, f) # Missing
    BY <1>1, <1>4 DEF Pass, Skipped
  <2>2. f.kind = "body" => workspace'.body[f.card] # Missing
    BY <2>1 DEF Held
  <2>3. f.kind = "meta" => workspace'.meta[f.card] # Missing
    BY <2>1 DEF Held
  <2>4. HostWrites(f)
    BY <1>1, <2>1, <2>2, <2>3 DEF HostWrites
  <2>5. QED  BY <2>4 DEF f
<1>5. CASE Fail
  <2>1. UNCHANGED <<drafts, workspace>> /\ job.to = "workspace" /\ f.kind = "sources"
    BY <1>1, <1>5 DEF Fail
  <2>2. HostWrites(f)
    BY <1>1, <2>1 DEF HostWrites
  <2>3. QED  BY <2>2 DEF f
<1>6. CASE Write(data) /\ job.to = "drafts"
  <2>1. drafts' = Put(drafts, f, data) /\ workspace' = workspace
    BY <1>1, <1>6 DEF Write
  <2>2. data = f.data \/ data = Torn
    BY <1>1, <1>6 DEF Data
  <2>3. Puts(drafts, f, data, drafts')
    BY <1>1, <2>1, <2>2, PutFacts
  <2>4. \A c \in Cards : drafts.body[c] # Missing => drafts'.body[c] # Missing
    <3>1. CASE f.kind = "body"
      <4>1. /\ f.card \in Cards /\ data # Missing
            /\ drafts'.body = [drafts.body EXCEPT ![f.card] = data]
        BY <2>3, <3>1 DEF Puts
      <4>2. drafts.body \in [Cards -> Texts \cup {Missing, Torn}]
        BY <1>1 DEF Folder
      <4>3. QED  BY <4>1, <4>2
    <3>2. CASE f.kind # "body"
      <4>1. drafts'.body = drafts.body
        BY <2>3, <3>2 DEF Puts
      <4>2. QED  BY <4>1
    <3>3. QED  BY <3>1, <3>2
  <2>5. f.kind = "body" => drafts'.body[f.card] # Missing
    <3>1. SUFFICES ASSUME f.kind = "body" PROVE drafts'.body[f.card] # Missing
      OBVIOUS
    <3>2. f.card \in Cards /\ data # Missing /\ drafts'.body = [drafts.body EXCEPT ![f.card] = data]
      BY <2>3, <3>1 DEF Puts
    <3>3. drafts.body \in [Cards -> Texts \cup {Missing, Torn}]
      BY <1>1 DEF Folder
    <3>4. QED  BY <3>2, <3>3
  <2>6. ASSUME NEW c \in Cards, drafts'.meta[c] # Missing
        PROVE  drafts.meta[c] # Missing \/ (f.kind = "meta" /\ f.card = c)
    <3>1. CASE f.kind = "meta"
      <4>1. f.card \in Cards /\ drafts'.meta = [drafts.meta EXCEPT ![f.card] = data]
        BY <2>3, <3>1 DEF Puts
      <4>2. drafts.meta \in [Cards -> Metas \cup {Missing, Torn}]
        BY <1>1 DEF Folder
      <4>3. QED  BY <2>6, <3>1, <4>1, <4>2
    <3>2. CASE f.kind # "meta"
      <4>1. drafts'.meta = drafts.meta
        BY <2>3, <3>2 DEF Puts
      <4>2. QED  BY <2>6, <4>1
    <3>3. QED  BY <3>1, <3>2
  <2>7. HostWrites(f)
    BY <1>1, <1>6, <2>1, <2>3, <2>4, <2>5, <2>6 DEF HostWrites, Puts
  <2>8. QED  BY <2>7 DEF f
<1>7. CASE Write(data) /\ job.to = "workspace"
  <2>1. /\ workspace' = Put(workspace, f, data) /\ drafts' = drafts
        /\ f.kind = "sources" => Mergeable
    BY <1>1, <1>7 DEF Write
  <2>2. f.kind = "sources" => data \in Sources \cup {Torn}
    <3>1. SUFFICES ASSUME f.kind = "sources", data # Torn PROVE data \in Sources
      OBVIOUS
    <3>2. workspace.sources \in Sources /\ f.data \in Sources
      BY <1>1, <1>2, <1>3, <1>7, <2>1, <3>1 DEF Mergeable
    <3>3. data = Merged(workspace.sources, f.data)
      BY <1>1, <1>7, <3>1 DEF Data
    <3>4. QED  BY <3>2, <3>3 DEF Merged, Sources
  <2>3. data = f.data \/ data = Torn \/ (f.kind = "sources" /\ data \in Sources)
    BY <1>1, <2>2 DEF Data
  <2>4. Puts(workspace, f, data, workspace')
    BY <1>1, <2>1, <2>3, PutFacts
  <2>5. /\ workspace.body \in [Cards -> Texts \cup {Missing, Torn}]
        /\ workspace.meta \in [Cards -> Metas \cup {Missing, Torn}]
    BY <1>1 DEF Folder
  <2>6. CASE f.kind = "body"
    <3>1. /\ f.card \in Cards /\ data # Missing /\ workspace'.meta = workspace.meta
          /\ workspace'.body = [workspace.body EXCEPT ![f.card] = data]
          /\ workspace'.sources = workspace.sources
      BY <2>4, <2>6 DEF Puts
    <3>2. /\ workspace'.body[f.card] # Missing
          /\ \A c \in Cards : workspace.body[c] # Missing => workspace'.body[c] # Missing
      BY <2>5, <3>1
    <3>3. HostWrites(f)
      BY <1>1, <1>7, <2>1, <2>4, <2>6, <3>1, <3>2 DEF HostWrites, Puts
    <3>4. QED  BY <3>3 DEF f
  <2>7. CASE f.kind = "meta"
    <3>1. /\ f.card \in Cards /\ data # Missing /\ workspace'.body = workspace.body
          /\ workspace'.meta = [workspace.meta EXCEPT ![f.card] = data]
          /\ workspace'.sources = workspace.sources
      BY <2>4, <2>7 DEF Puts
    <3>2. /\ workspace'.meta[f.card] # Missing
          /\ \A c \in Cards : workspace.meta[c] # Missing => workspace'.meta[c] # Missing
      BY <2>5, <3>1
    <3>3. HostWrites(f)
      BY <1>1, <1>7, <2>1, <2>4, <2>7, <3>1, <3>2 DEF HostWrites, Puts
    <3>4. QED  BY <3>3 DEF f
  <2>8. CASE f.kind \in {"sources", "record"}
    <3>1. /\ workspace'.body = workspace.body /\ workspace'.meta = workspace.meta
          /\ workspace'.sources = IF f.kind = "sources" THEN data ELSE workspace.sources
      BY <2>4, <2>8 DEF Puts
    <3>2. HostWrites(f)
      BY <1>1, <1>7, <2>1, <2>2, <2>4, <2>8, <3>1 DEF HostWrites, Puts
    <3>3. QED  BY <3>2 DEF f
  <2>9. QED  BY <2>4, <2>6, <2>7, <2>8 DEF Puts
<1>8. QED  BY <1>1, <1>4, <1>5, <1>6, <1>7

(* A command goes on with its next file, or ends.                          *)
LEMMA HostStepFits ==
  ASSUME LitTypes, HostFits, HostStep
  PROVE  LitTypes' /\ HostFits'
<1> DEFINE fs == job.files
           n == Len(job.files)
           f == job.files[1]
<1>1. /\ job # Idle /\ (Pass \/ Fail \/ Write(Data(Head(job.files))))
      /\ job' = IF n = 1 THEN Idle ELSE [job EXCEPT !.files = Tail(@)]
      /\ UNCHANGED <<queue, packed, screen, loads, screens, crashes>>
  BY DEF HostStep
<1>2. /\ job.to \in {"drafts", "workspace"} /\ fs \in Seq(Files) /\ n \in Nat \ {0}
      /\ (\A i \in 1..n : fs[i] \in Files)
      /\ Tail(fs) \in Seq(Files) /\ Len(Tail(fs)) = n - 1
      /\ (\A i \in 1..(n - 1) : Tail(fs)[i] = fs[i + 1])
  BY <1>1, FilesOfJob DEF HostFits
<1>3. HostWrites(f)
  BY <1>1, HostWritesFile
<1>4. LitTypes'
  BY <1>1, <1>3 DEF LitTypes, HostWrites
<1>5. DraftsHaveBodies'
  <2> SUFFICES ASSUME NEW c \in Cards, drafts'.meta[c] # Missing PROVE drafts'.body[c] # Missing
    BY DEF DraftsHaveBodies
  <2>1. drafts.meta[c] # Missing => drafts'.body[c] # Missing
    BY <1>3 DEF HostFits, DraftsHaveBodies, HostWrites
  <2>2. CASE job.to = "workspace"
    BY <1>3, <2>1, <2>2 DEF HostWrites
  <2>3. CASE job.to = "drafts"
    <3>1. CASE f.kind = "meta" /\ f.card = c
      <4>1. 1 \in DOMAIN job.files /\ 1..0 = {}
        BY <1>2
      <4>2. drafts.body[c] # Missing
        BY <2>3, <3>1, <4>1 DEF HostFits, IngestWritesBodies
      <4>3. QED  BY <1>3, <4>2 DEF HostWrites
    <3>2. QED  BY <1>3, <2>1, <2>3, <3>1 DEF HostWrites
  <2>4. QED  BY <1>2, <2>2, <2>3
<1>6. workspace'.sources \in Sources \cup {Torn} /\ crashes' \in Nat
  BY <1>1, <1>3 DEF HostWrites, HostFits
<1>7. CASE n = 1
  <2>1. job' = Idle
    BY <1>1, <1>7
  <2>2. job'.to = "nowhere"
    BY <2>1 DEF Idle
  <2>3. QED  BY <1>4, <1>5, <1>6, <2>1, <2>2 DEF HostFits, JobKnown, IngestWritesBodies,
                PromotionGoesOn
<1>8. CASE n # 1
  <2>1. job \in [to : {"drafts", "workspace"}, files : Seq(Files)]
    BY <1>1 DEF HostFits, JobKnown
  <2>2. job' = [job EXCEPT !.files = Tail(fs)]
    BY <1>1, <1>8
  <2>3. job'.to = job.to /\ job'.files = Tail(fs)
        /\ job' \in [to : {"drafts", "workspace"}, files : Seq(Files)]
    BY <1>2, <2>1, <2>2
  <2>4. n - 1 \in Nat \ {0} /\ Tail(fs) # <<>> /\ DOMAIN (job'.files) = 1..(n - 1)
        /\ Len(job'.files) = n - 1
    <3>1. n - 1 \in Nat \ {0} /\ Len(Tail(fs)) = n - 1 /\ Tail(fs) \in Seq(Files)
      BY <1>2, <1>8
    <3> HIDE DEF n, fs
    <3>2. \A t \in Seq(Files), k \in Nat \ {0} : Len(t) = k => t # <<>> /\ DOMAIN t = 1..k
      OBVIOUS
    <3>3. QED  BY <2>3, <3>1, <3>2
  <2>5. JobKnown'
    BY <2>3, <2>4 DEF JobKnown
  <2>6. \A i \in 1..(n - 1) : job'.files[i] = job.files[i + 1]
    BY <1>2, <2>3
  <2>7. IngestWritesBodies'
    <3> SUFFICES ASSUME job.to = "drafts", NEW i \in 1..(n - 1), job'.files[i].kind = "meta"
                 PROVE  \/ drafts'.body[job'.files[i].card] # Missing
                        \/ \E j \in 1..(i - 1) : /\ job'.files[j].kind = "body"
                                                 /\ job'.files[j].card = job'.files[i].card
      BY <2>3, <2>4 DEF IngestWritesBodies
    <3> DEFINE c == job'.files[i].card
    <3>1. i + 1 \in 1..n /\ job.files[i + 1] \in Files /\ job.files[i + 1] = job'.files[i]
      BY <1>2, <2>6
    <3>2. c \in Cards
      BY <3>1 DEF Files, CardFiles
    <3>3. \/ drafts.body[c] # Missing
          \/ \E j \in 1..i : job.files[j].kind = "body" /\ job.files[j].card = c
      <4>1. i + 1 \in DOMAIN job.files /\ (i + 1) - 1 = i
        BY <1>2, <3>1
      <4>2. QED  BY <3>1, <4>1 DEF HostFits, IngestWritesBodies
    <3> HIDE DEF c
    <3>4. CASE drafts.body[c] # Missing
      BY <1>3, <3>2, <3>4 DEF HostWrites, c
    <3>5. ASSUME NEW j \in 1..i, job.files[j].kind = "body", job.files[j].card = c
          PROVE  \/ drafts'.body[c] # Missing
                 \/ \E k \in 1..(i - 1) : job'.files[k].kind = "body" /\ job'.files[k].card = c
      <4>1. CASE j = 1
        BY <1>3, <3>5, <4>1 DEF HostWrites
      <4>2. CASE j # 1
        <5>1. j - 1 \in 1..(i - 1) /\ j - 1 \in 1..(n - 1) /\ (j - 1) + 1 = j
          BY <1>2, <4>2
        <5>2. job'.files[j - 1] = job.files[j]
          BY <2>6, <5>1
        <5>3. QED  BY <3>5, <5>1, <5>2
      <4>3. QED  BY <4>1, <4>2
    <3>6. QED  BY <3>3, <3>4, <3>5 DEF c
  <2>8. PromotionGoesOn'
    <3> SUFFICES ASSUME job.to = "workspace" PROVE PromotionGoesOn'
      BY <2>3 DEF PromotionGoesOn
    <3>1. drafts' = drafts
      BY <1>3 DEF HostWrites
    <3>2. /\ job.files[n].kind = "sources"
          /\ \A i \in DOMAIN job.files :
               job.files[i].kind = "sources" => i = n /\ job.files[i].data = drafts.sources
          /\ \A c \in Cards : drafts.meta[c] # Missing =>
               /\ workspace.meta[c] # Missing \/ Coming("meta", c)
               /\ workspace.body[c] # Missing \/ Coming("body", c)
      BY DEF HostFits, PromotionGoesOn
    <3>3. job'.files[Len(job'.files)].kind = "sources"
      <4>1. n - 1 \in 1..(n - 1) /\ (n - 1) + 1 = n
        BY <2>4
      <4>2. QED  BY <2>4, <2>6, <3>2, <4>1
    <3>4. ASSUME NEW i \in DOMAIN (job'.files), job'.files[i].kind = "sources"
          PROVE  i = Len(job'.files) /\ job'.files[i].data = drafts'.sources
      <4>1. i \in 1..(n - 1) /\ i + 1 \in DOMAIN job.files /\ job'.files[i] = job.files[i + 1]
        BY <1>2, <2>4, <2>6
      <4>2. i + 1 = n /\ job.files[i + 1].data = drafts.sources
        BY <3>2, <3>4, <4>1
      <4>3. QED  BY <2>4, <3>1, <4>1, <4>2
    <3>5. ASSUME NEW kind \in {"meta", "body"}, NEW c \in Cards, Coming(kind, c)
          PROVE  \/ Coming(kind, c)'
                 \/ kind = "meta" /\ workspace'.meta[c] # Missing
                 \/ kind = "body" /\ workspace'.body[c] # Missing
      <4>1. PICK i \in DOMAIN job.files : job.files[i].kind = kind /\ job.files[i].card = c
        BY <3>5 DEF Coming
      <4>2. CASE i = 1
        BY <1>3, <4>1, <4>2 DEF HostWrites
      <4>3. CASE i # 1
        <5>1. i - 1 \in 1..(n - 1) /\ (i - 1) + 1 = i
          BY <1>2, <4>3
        <5>2. job'.files[i - 1] = job.files[i] /\ i - 1 \in DOMAIN (job'.files)
          BY <2>4, <2>6, <5>1
        <5>3. QED  BY <4>1, <5>2 DEF Coming
      <4>4. QED  BY <4>2, <4>3
    <3>6. ASSUME NEW c \in Cards, drafts'.meta[c] # Missing
          PROVE  /\ workspace'.meta[c] # Missing \/ Coming("meta", c)'
                 /\ workspace'.body[c] # Missing \/ Coming("body", c)'
      <4>1. /\ workspace.meta[c] # Missing \/ Coming("meta", c)
            /\ workspace.body[c] # Missing \/ Coming("body", c)
        BY <3>1, <3>2, <3>6
      <4>2. /\ workspace.meta[c] # Missing => workspace'.meta[c] # Missing
            /\ workspace.body[c] # Missing => workspace'.body[c] # Missing
        BY <1>3 DEF HostWrites
      <4>3. QED  BY <3>5, <4>1, <4>2
    <3>7. QED  BY <3>3, <3>4, <3>6 DEF PromotionGoesOn
  <2>9. QED  BY <1>4, <1>5, <1>6, <2>5, <2>7, <2>8 DEF HostFits
<1>9. QED  BY <1>7, <1>8

(* A host that dies leaves a file torn at most, and no command.            *)
LEMMA HostDiesFits ==
  ASSUME LitTypes, HostFits, HostDies
  PROVE  LitTypes' /\ HostFits'
<1>1. /\ job # Idle /\ crashes' = crashes + 1 /\ job' = Idle
      /\ Write(Torn) \/ UNCHANGED <<drafts, workspace>>
      /\ UNCHANGED <<queue, packed, screen, loads, screens>>
  BY DEF HostDies
<1>2. job'.to = "nowhere" /\ crashes' \in Nat
  BY <1>1 DEF Idle, HostFits
<1>3. SUFFICES /\ LitTypes' /\ DraftsHaveBodies' /\ workspace'.sources \in Sources \cup {Torn}
  BY <1>1, <1>2 DEF HostFits, JobKnown, IngestWritesBodies, PromotionGoesOn
<1>4. CASE UNCHANGED <<drafts, workspace>>
  BY <1>1, <1>4 DEF HostFits, LitTypes, DraftsHaveBodies
<1>5. CASE Write(Torn)
  <2> DEFINE f == job.files[1]
  <2>1. HostWrites(f)
    BY <1>1, <1>5, HostWritesFile
  <2>2. LitTypes' /\ workspace'.sources \in Sources \cup {Torn}
    BY <1>1, <2>1 DEF LitTypes, HostWrites
  <2>3. ASSUME NEW c \in Cards, drafts'.meta[c] # Missing PROVE drafts'.body[c] # Missing
    <3>1. drafts.meta[c] # Missing => drafts'.body[c] # Missing
      BY <2>1 DEF HostFits, DraftsHaveBodies, HostWrites
    <3>2. job.to \in {"drafts", "workspace"} /\ 1 \in DOMAIN job.files /\ 1..0 = {}
      BY <1>1, FilesOfJob DEF HostFits
    <3>3. CASE job.to = "drafts" /\ f.kind = "meta" /\ f.card = c
      <4>1. drafts.body[c] # Missing
        BY <3>2, <3>3 DEF HostFits, IngestWritesBodies
      <4>2. QED  BY <2>1, <4>1 DEF HostWrites
    <3>4. QED  BY <2>1, <2>3, <3>1, <3>2, <3>3 DEF HostWrites
  <2>4. QED  BY <2>2, <2>3 DEF DraftsHaveBodies
<1>6. QED  BY <1>1, <1>4, <1>5

(* The number of some cards is a natural number.                           *)
LEMMA CardsAreFinite ==
  /\ IsFiniteSet(Cards) /\ \A S \in SUBSET Cards : IsFiniteSet(S) /\ Cardinality(S) \in Nat
  /\ \A S \in SUBSET Names : Cardinality(S) \in Nat
<1>1. IsFiniteSet(Names \cup {Problem})
  BY LiteratureAssumption, FS_Singleton, FS_Union
<1>2. IsFiniteSet(Cards)
  BY <1>1, LiteratureAssumption, FS_Product DEF Cards
<1>3. \A S \in SUBSET Cards : IsFiniteSet(S) /\ Cardinality(S) \in Nat
  BY <1>2, FS_Subset, FS_CardinalityType
<1>4. \A S \in SUBSET Names : Cardinality(S) \in Nat
  BY LiteratureAssumption, FS_Subset, FS_CardinalityType
<1>5. QED  BY <1>2, <1>3, <1>4

(* The elements of sequences that are put together.                        *)
LEMMA JoinedAt ==
  ASSUME NEW V, NEW a \in Seq(V), NEW b \in Seq(V)
  PROVE  /\ a \o b \in Seq(V) /\ Len(a \o b) = Len(a) + Len(b)
         /\ \A i \in 1..Len(a) : (a \o b)[i] = a[i]
         /\ \A i \in 1..Len(b) : (a \o b)[Len(a) + i] = b[i]
OBVIOUS

(* The two files of a method, and the files that close an ingest.          *)
LEMMA IngestedFiles ==
  ASSUME LitTypes, NEW s \in Subs, queue[s] # Missing, Classified(s)
  PROVE  /\ DOMAIN screen[s].picks \in SUBSET Names
         /\ \A n \in DOMAIN screen[s].picks :
              /\ Method(s, n) \in Seq(Files) /\ Len(Method(s, n)) = 2
              /\ Method(s, n)[1].kind = "body" /\ Method(s, n)[1].card = <<s, n>>
              /\ Method(s, n)[2].card = <<s, n>>
         /\ File("body", <<s, Problem>>, ProblemText) \in Files
         /\ Closing(s) \in Seq(Files) /\ Len(Closing(s)) = 3
         /\ Closing(s)[1].card = <<s, Problem>>
         /\ Closing(s)[2].kind = "sources" /\ Closing(s)[3].kind = "record"
<1> DEFINE picks == screen[s].picks
<1>1. queue[s] \in SUBSET Dois /\ screen[s] \in Screen
  BY DEF LitTypes, Classified, Selects
<1>2. picks \in Offers
  BY <1>1 DEF Screen
<1>3. DOMAIN picks \in SUBSET Names /\ \A n \in DOMAIN picks : picks[n] \in Dois
  BY <1>2, LiteratureAssumption
<1> HIDE DEF picks
<1>4. ASSUME NEW n \in DOMAIN picks
      PROVE  /\ Method(s, n) \in Seq(Files) /\ Len(Method(s, n)) = 2
             /\ Method(s, n)[1].kind = "body" /\ Method(s, n)[1].card = <<s, n>>
             /\ Method(s, n)[2].card = <<s, n>>
  <2> DEFINE t == MethodText(s, n)
             m == [sha |-> t, sources |-> {picks[n]}, methods |-> {}]
             b == File("body", <<s, n>>, t)
             d == File("meta", <<s, n>>, m)
  <2>1. t \in Texts /\ <<s, n>> \in Cards
    <3> DEFINE e == picks[n] \in queue[s]
    <3>1. picks[n] \in Dois /\ n \in Names /\ e \in BOOLEAN
      BY <1>3
    <3>2. t = <<picks[n], e>>
      BY DEF MethodText, picks
    <3> HIDE DEF t, e
    <3>3. QED  BY <3>1, <3>2 DEF Texts, Cards
  <2> HIDE DEF t
  <2>2. m \in Metas
    BY <1>3, <2>1 DEF Metas
  <2> HIDE DEF m
  <2>3. b \in Files /\ d \in Files
    BY <2>1, <2>2 DEF Files, CardFiles, File
  <2>4. b.kind = "body" /\ b.card = <<s, n>> /\ d.card = <<s, n>>
    BY DEF File
  <2>5. Method(s, n) = <<b, d>>
    BY DEF Method, b, d, m, t, picks
  <2> HIDE DEF b, d
  <2>6. QED  BY <2>3, <2>4, <2>5
<1>5. /\ File("body", <<s, Problem>>, ProblemText) \in Files
      /\ ProblemText \in Texts /\ <<s, Problem>> \in Cards
  BY DEF Files, CardFiles, File, ProblemText, Texts, Cards
<1>6. /\ Closing(s) \in Seq(Files) /\ Len(Closing(s)) = 3
      /\ Closing(s)[1].card = <<s, Problem>>
      /\ Closing(s)[2].kind = "sources" /\ Closing(s)[3].kind = "record"
  <2> DEFINE m == [sha |-> ProblemText, sources |-> Cited(s), methods |-> DOMAIN picks]
             o == [d \in Dois |-> IF d \in Cited(s) THEN d \in queue[s] ELSE Missing]
             a == File("meta", <<s, Problem>>, m)
             b == File("sources", Missing, o)
             c == File("record", Missing, "written")
  <2>1. Cited(s) \subseteq Dois
    BY <1>3 DEF Cited, picks
  <2>2. m \in Metas
    BY <1>3, <1>5, <2>1 DEF Metas
  <2>3. o \in Sources
    BY <1>1 DEF Sources
  <2> HIDE DEF m, o
  <2>4. a \in Files /\ b \in Files /\ c \in Files
    BY <1>5, <2>2, <2>3 DEF Files, CardFiles, File
  <2>5. a.card = <<s, Problem>> /\ b.kind = "sources" /\ c.kind = "record"
    BY DEF File
  <2>6. Closing(s) = <<a, b, c>>
    BY DEF Closing, a, b, c, m, o, picks
  <2> HIDE DEF a, b, c
  <2>7. QED  BY <2>4, <2>5, <2>6
<1>7. QED  BY <1>3, <1>4, <1>5, <1>6 DEF picks

(* An ingest begins.                                                       *)
LEMMA IngestFits ==
  ASSUME LitTypes, HostFits, NEW s \in Subs, Ingest(s)
  PROVE  LitTypes' /\ HostFits'
<1> DEFINE D == DOMAIN screen[s].picks
           k == Cardinality(D)
<1>1. PICK l \in SetToSeqs(D) :
         job' = [to |-> "drafts",
                 files |-> << File("body", <<s, Problem>>, ProblemText) >>
                           \o FlattenSeq([i \in DOMAIN l |-> Method(s, l[i])]) \o Closing(s)]
  BY DEF Ingest
<1>2. queue[s] # Missing /\ Classified(s)
      /\ UNCHANGED <<queue, packed, screen, drafts, workspace, loads, screens, crashes>>
  BY DEF Ingest
<1> DEFINE ms == [i \in DOMAIN l |-> Method(s, l[i])]
           F == FlattenSeq(ms)
           b == File("body", <<s, Problem>>, ProblemText)
           C == Closing(s)
           fs == << b >> \o F \o C
<1>3. k \in Nat /\ l \in [1..k -> D]
  BY <1>2, IngestedFiles, CardsAreFinite DEF SetToSeqs
<1>4. /\ b \in Files /\ C \in Seq(Files) /\ Len(C) = 3 /\ C[1].card = <<s, Problem>>
      /\ C[2].kind = "sources" /\ C[3].kind = "record" /\ b.kind = "body" /\ b.card = <<s, Problem>>
  BY <1>2, IngestedFiles DEF File
<1>5. \A i \in 1..k :
         /\ ms[i] \in Seq(Files) /\ Len(ms[i]) = 2 /\ ms[i][1].kind = "body"
         /\ ms[i][1].card = <<s, l[i]>> /\ ms[i][2].card = <<s, l[i]>>
  <2> SUFFICES ASSUME NEW i \in 1..k
               PROVE  /\ ms[i] \in Seq(Files) /\ Len(ms[i]) = 2 /\ ms[i][1].kind = "body"
                      /\ ms[i][1].card = <<s, l[i]>> /\ ms[i][2].card = <<s, l[i]>>
    OBVIOUS
  <2>1. l[i] \in D /\ ms[i] = Method(s, l[i])
    BY <1>3
  <2>2. \A n \in DOMAIN screen[s].picks :
           /\ Method(s, n) \in Seq(Files) /\ Len(Method(s, n)) = 2
           /\ Method(s, n)[1].kind = "body" /\ Method(s, n)[1].card = <<s, n>>
           /\ Method(s, n)[2].card = <<s, n>>
    BY <1>2, IngestedFiles
  <2> HIDE DEF ms
  <2>3. QED  BY <2>1, <2>2
<1>6. ms \in Seq(Seq(Files)) /\ Len(ms) = k
  <2>1. DOMAIN l = 1..k
    BY <1>3
  <2>2. ms \in [1..k -> Seq(Files)]
    BY <1>5, <2>1
  <2> HIDE DEF ms, k
  <2>3. QED  BY <1>3, <2>2
<1>7. MadeOf(F, ms, k, Files)
  BY <1>6, FlattenedIsMade
<1> HIDE DEF ms, F, b, C, k
<1>8. F \in Seq(Files) /\ Len(F) \in Nat
  BY <1>7 DEF MadeOf
<1>9. /\ << b >> \o F \in Seq(Files) /\ Len(<< b >> \o F) = 1 + Len(F)
      /\ (<< b >> \o F)[1] = b /\ \A i \in 1..Len(F) : (<< b >> \o F)[1 + i] = F[i]
  <2>1. << b >> \in Seq(Files) /\ Len(<< b >>) = 1 /\ << b >>[1] = b /\ 1 \in 1..1
    BY <1>4
  <2>2. QED  BY <1>8, <2>1, JoinedAt
<1> DEFINE B == << b >> \o F
<1>10. /\ fs \in Seq(Files) /\ Len(fs) = Len(F) + 4
       /\ fs[1] = b /\ (\A i \in 1..Len(F) : fs[1 + i] = F[i])
       /\ \A i \in 1..3 : fs[1 + Len(F) + i] = C[i]
  <2>0. fs = B \o C /\ B \in Seq(Files) /\ Len(B) = 1 + Len(F)
    BY <1>9
  <2> HIDE DEF fs, B
  <2>1. /\ fs \in Seq(Files) /\ Len(fs) = 1 + Len(F) + 3
        /\ \A i \in 1..(1 + Len(F)) : fs[i] = B[i]
        /\ \A i \in 1..3 : fs[1 + Len(F) + i] = C[i]
    <3>1. /\ B \o C \in Seq(Files) /\ Len(B \o C) = Len(B) + Len(C)
          /\ \A i \in 1..Len(B) : (B \o C)[i] = B[i]
          /\ \A i \in 1..Len(C) : (B \o C)[Len(B) + i] = C[i]
      <4>1. B \in Seq(Files) /\ C \in Seq(Files)
        BY <1>4, <2>0
      <4>2. \A x, y \in Seq(Files) :
               /\ x \o y \in Seq(Files) /\ Len(x \o y) = Len(x) + Len(y)
               /\ \A i \in 1..Len(x) : (x \o y)[i] = x[i]
               /\ \A i \in 1..Len(y) : (x \o y)[Len(x) + i] = y[i]
        BY JoinedAt
      <4>3. QED  BY <4>1, <4>2, Zenon
    <3>2. /\ fs \in Seq(Files) /\ Len(fs) = Len(B) + Len(C)
          /\ \A i \in 1..Len(B) : fs[i] = B[i]
          /\ \A i \in 1..Len(C) : fs[Len(B) + i] = C[i]
      BY <2>0, <3>1
    <3>3. Len(B) = 1 + Len(F) /\ Len(C) = 3
      BY <1>4, <2>0
    <3>4. QED  BY <3>2, <3>3, Zenon
  <2>2. /\ 1 \in 1..(1 + Len(F)) /\ \A i \in 1..Len(F) : 1 + i \in 1..(1 + Len(F))
        /\ 1 + Len(F) + 3 = Len(F) + 4
    BY <1>8
  <2>3. B[1] = b /\ \A i \in 1..Len(F) : B[1 + i] = F[i]
    BY <1>9 DEF B
  <2>4. QED  BY <2>1, <2>2, <2>3
<1> HIDE DEF B
<1>11. job' = [to |-> "drafts", files |-> fs]
  BY <1>1 DEF fs, F, ms, b, C
<1> HIDE DEF fs
<1>12. job'.to = "drafts" /\ job'.files = fs
  BY <1>11
<1>13. ASSUME NEW i \in 1..Len(fs), fs[i].kind = "meta"
       PROVE  \E j \in 1..(i - 1) : fs[j].kind = "body" /\ fs[j].card = fs[i].card
  <2>1. CASE i = 1
    BY <1>4, <1>10, <1>13, <2>1
  <2>2. CASE i > 1 /\ i <= 1 + Len(F)
    <3> DEFINE q == i - 1
    <3>1. q \in 1..Len(F) /\ fs[i] = F[q] /\ i = 1 + q
      <4>1. q \in 1..Len(F) /\ 1 + q = i
        BY <1>8, <1>10, <2>2
      <4> HIDE DEF q
      <4>2. QED  BY <1>10, <4>1
    <3> HIDE DEF q
    <3>2. PICK p \in 1..k, o \in Nat :
             StandsIn(ms[p], o, F) /\ o < q /\ q <= o + Len(ms[p])
      BY <1>7, <3>1 DEF MadeOf
    <3>3. /\ Len(ms[p]) = 2 /\ ms[p][1].kind = "body" /\ ms[p][1].card = <<s, l[p]>>
          /\ ms[p][2].card = <<s, l[p]>> /\ F[o + 1] = ms[p][1] /\ F[o + 2] = ms[p][2]
          /\ o + 2 <= Len(F)
      BY <1>5, <3>2 DEF StandsIn
    <3>4. q = o + 2
      <4>1. q = o + 1 \/ q = o + 2
        BY <3>1, <3>2, <3>3
      <4>2. QED  BY <1>13, <3>1, <3>3, <4>1
    <3>5. o + 1 \in 1..Len(F) /\ 1 + (o + 1) \in 1..(i - 1)
      BY <1>8, <3>1, <3>2, <3>3, <3>4
    <3>6. fs[1 + (o + 1)] = F[o + 1]
      BY <1>10, <3>5
    <3>7. QED  BY <3>1, <3>3, <3>4, <3>5, <3>6
  <2>3. CASE i > 1 + Len(F)
    <3> DEFINE q == i - (1 + Len(F))
    <3>1. q \in 1..3 /\ i = 1 + Len(F) + q /\ 1 \in 1..(i - 1)
      BY <1>8, <1>10, <2>3
    <3> HIDE DEF q
    <3>2. fs[i] = C[q]
      BY <1>10, <3>1
    <3>3. q = 1
      BY <1>4, <1>13, <3>1, <3>2
    <3>4. QED  BY <1>4, <1>10, <3>1, <3>2, <3>3
  <2>4. QED  BY <2>1, <2>2, <2>3, <1>8, <1>10
<1>14. DOMAIN fs = 1..Len(fs) /\ fs # <<>>
  BY <1>8, <1>10
<1>15. JobKnown'
  BY <1>10, <1>11, <1>14 DEF JobKnown
<1>16. IngestWritesBodies'
  BY <1>12, <1>13, <1>14 DEF IngestWritesBodies
<1>17. QED  BY <1>2, <1>12, <1>15, <1>16 DEF LitTypes, HostFits, DraftsHaveBodies, PromotionGoesOn

(* The files of a promoted card are its metadata and its body, as drafted. *)
LEMMA CopiesHold ==
  ASSUME drafts \in Folder, NEW c \in Cards
  PROVE  /\ Copies(c) \in Seq(CardFiles)
         /\ \A kind \in {"meta", "body"} :
              (IF kind = "meta" THEN drafts.meta[c] ELSE drafts.body[c]) # Missing =>
                \E i \in 1..Len(Copies(c)) :
                  Copies(c)[i].kind = kind /\ Copies(c)[i].card = c
<1> DEFINE m == drafts.meta[c]
           b == drafts.body[c]
           M == File("meta", c, m)
           B == File("body", c, b)
           x == Copy("meta", c, m)
           y == Copy("body", c, b)
<1>1. m \in Metas \cup {Missing, Torn} /\ b \in Texts \cup {Missing, Torn}
  BY DEF Folder
<1>2. Copies(c) = x \o y
  BY DEF Copies
<1>3. /\ x = IF m = Missing THEN <<>> ELSE << M >>
      /\ y = IF b = Missing THEN <<>> ELSE << B >>
  BY DEF Copy
<1> HIDE DEF m, b, x, y
<1>4. /\ m # Missing => M \in CardFiles /\ M.kind = "meta" /\ M.card = c
      /\ b # Missing => B \in CardFiles /\ B.kind = "body" /\ B.card = c
  BY <1>1 DEF CardFiles, File
<1> HIDE DEF M, B
<1>5. x \in Seq(CardFiles) /\ y \in Seq(CardFiles)
  BY <1>3, <1>4
<1>6. /\ x \o y \in Seq(CardFiles) /\ Len(x \o y) = Len(x) + Len(y)
      /\ \A i \in 1..Len(x) : (x \o y)[i] = x[i]
      /\ \A i \in 1..Len(y) : (x \o y)[Len(x) + i] = y[i]
  <2>1. \A s, t \in Seq(CardFiles) :
           /\ s \o t \in Seq(CardFiles) /\ Len(s \o t) = Len(s) + Len(t)
           /\ \A i \in 1..Len(s) : (s \o t)[i] = s[i]
           /\ \A i \in 1..Len(t) : (s \o t)[Len(s) + i] = t[i]
    BY JoinedAt
  <2>2. QED  BY <1>5, <2>1, Zenon
<1> DEFINE z == x \o y
<1> HIDE DEF z
<1>7. /\ z \in Seq(CardFiles) /\ Len(z) = Len(x) + Len(y)
      /\ \A i \in 1..Len(x) : z[i] = x[i]
      /\ \A i \in 1..Len(y) : z[Len(x) + i] = y[i]
  BY <1>6 DEF z
<1>8. m # Missing => \E i \in 1..Len(z) : z[i].kind = "meta" /\ z[i].card = c
  <2> SUFFICES ASSUME m # Missing
               PROVE  \E i \in 1..Len(z) : z[i].kind = "meta" /\ z[i].card = c
    OBVIOUS
  <2>1. Len(x) = 1 /\ x[1] = M /\ Len(y) \in Nat
    BY <1>3, <1>5
  <2>2. 1 \in 1..Len(z) /\ z[1] = M
    BY <1>7, <2>1
  <2>3. QED  BY <1>4, <2>2
<1>9. b # Missing => \E i \in 1..Len(z) : z[i].kind = "body" /\ z[i].card = c
  <2> SUFFICES ASSUME b # Missing
               PROVE  \E i \in 1..Len(z) : z[i].kind = "body" /\ z[i].card = c
    OBVIOUS
  <2>1. Len(y) = 1 /\ y[1] = B /\ Len(x) \in Nat
    BY <1>3, <1>5
  <2>2. Len(x) + 1 \in 1..Len(z) /\ z[Len(x) + 1] = B
    BY <1>7, <2>1
  <2>3. QED  BY <1>4, <2>2
<1>10. QED  BY <1>2, <1>7, <1>8, <1>9 DEF z, m, b

(* A promotion begins.                                                     *)
LEMMA PromoteFits ==
  ASSUME LitTypes, HostFits, Promote
  PROVE  LitTypes' /\ HostFits'
<1> DEFINE D == {c \in Cards : drafts.meta[c] # Missing \/ drafts.body[c] # Missing}
           k == Cardinality(D)
           S == File("sources", Missing, drafts.sources)
<1>1. PICK l \in ByName :
         job' = [to |-> "workspace",
                 files |-> FlattenSeq([i \in DOMAIN l |-> Copies(l[i])]) \o << S >>]
  BY DEF Promote
<1>2. UNCHANGED <<queue, packed, screen, drafts, workspace, loads, screens, crashes>>
  BY DEF Promote
<1>3. drafts \in Folder /\ drafts.sources \in Sources \cup {Missing, Torn}
  BY DEF LitTypes, Folder
<1>4. D \in SUBSET Cards
  OBVIOUS
<1>5. l \in SetToSeqs(D)
  BY DEF ByName
<1> HIDE DEF D
<1>6. IsFiniteSet(D) /\ k \in Nat /\ l \in [1..k -> D]
      /\ \A i, j \in 1..k : i # j => l[i] # l[j]
  BY <1>4, <1>5, CardsAreFinite DEF SetToSeqs
<1> HIDE DEF k
<1>7. \A c \in D : \E i \in 1..k : l[i] = c
  <2>1. l \in Injection(1..k, D) /\ Cardinality(1..k) = k /\ IsFiniteSet(1..k)
    BY <1>6, FS_Interval DEF Injection, IsInjective
  <2>2. l \in Surjection(1..k, D)
    BY <1>6, <2>1, FS_Injection DEF k
  <2>3. QED  BY <2>2 DEF Surjection
<1> DEFINE ms == [i \in DOMAIN l |-> Copies(l[i])]
           F == FlattenSeq(ms)
           fs == F \o << S >>
<1>8. \A i \in 1..k : ms[i] = Copies(l[i]) /\ l[i] \in Cards
  BY <1>4, <1>6
<1>9. ms \in Seq(Seq(CardFiles)) /\ Len(ms) = k
  <2>1. DOMAIN l = 1..k /\ \A i \in 1..k : Copies(l[i]) \in Seq(CardFiles)
    BY <1>3, <1>6, <1>8, CopiesHold
  <2>2. ms \in [1..k -> Seq(CardFiles)]
    BY <2>1
  <2> HIDE DEF ms
  <2>3. QED  BY <1>6, <2>2
<1>10. MadeOf(F, ms, k, CardFiles)
  BY <1>9, FlattenedIsMade
<1> HIDE DEF ms, F
<1>11. F \in Seq(CardFiles) /\ Len(F) \in Nat /\ F \in Seq(Files)
       /\ \A i \in 1..Len(F) : F[i] \in CardFiles
  <2>1. F \in Seq(CardFiles)
    BY <1>10 DEF MadeOf
  <2>2. CardFiles \subseteq Files
    BY DEF Files
  <2>3. QED  BY <2>1, <2>2
<1>12. S \in Files /\ S.kind = "sources" /\ S.data = drafts.sources
  BY <1>3 DEF File, Files
<1> HIDE DEF S
<1>13. /\ fs \in Seq(Files) /\ Len(fs) = Len(F) + 1 /\ fs[Len(F) + 1] = S
       /\ \A i \in 1..Len(F) : fs[i] = F[i]
  BY <1>11, <1>12
<1>14. job' = [to |-> "workspace", files |-> fs]
  BY <1>1 DEF fs, F, ms
<1> HIDE DEF fs
<1>15. job'.to = "workspace" /\ job'.files = fs
  BY <1>14
<1>16. DOMAIN fs = 1..(Len(F) + 1) /\ fs # <<>>
  BY <1>11, <1>13
<1>17. JobKnown'
  BY <1>13, <1>14, <1>16 DEF JobKnown
<1>18. ASSUME NEW i \in DOMAIN fs, fs[i].kind = "sources"
       PROVE  i = Len(fs) /\ fs[i].data = drafts'.sources
  <2>1. CASE i = Len(F) + 1
    BY <1>2, <1>12, <1>13, <2>1
  <2>2. CASE i # Len(F) + 1
    <3>1. i \in 1..Len(F)
      BY <1>11, <1>16, <2>2
    <3>2. fs[i] \in CardFiles
      BY <1>11, <1>13, <3>1
    <3>3. QED  BY <1>18, <3>2 DEF CardFiles
  <2>3. QED  BY <2>1, <2>2
<1>19. ASSUME NEW c \in Cards, drafts.meta[c] # Missing, NEW kind \in {"meta", "body"}
       PROVE  Coming(kind, c)'
  <2>1. drafts.body[c] # Missing
    BY <1>19 DEF HostFits, DraftsHaveBodies
  <2>2. PICK p \in 1..k : l[p] = c
    BY <1>7, <1>19 DEF D
  <2>3. PICK q \in 1..Len(Copies(c)) : Copies(c)[q].kind = kind /\ Copies(c)[q].card = c
    BY <1>3, <1>19, <2>1, CopiesHold
  <2>4. PICK o \in Nat : StandsIn(ms[p], o, F)
    BY <1>10 DEF MadeOf
  <2>5. ms[p] = Copies(c) /\ Len(Copies(c)) \in Nat
    BY <1>3, <1>8, <2>2, CopiesHold
  <2>6. o + q \in 1..Len(F) /\ F[o + q] = Copies(c)[q]
    BY <1>11, <2>3, <2>4, <2>5 DEF StandsIn
  <2>7. o + q \in DOMAIN fs /\ fs[o + q] = Copies(c)[q]
    BY <1>11, <1>13, <1>16, <2>6
  <2>8. QED  BY <1>15, <2>3, <2>7 DEF Coming
<1>20. PromotionGoesOn'
  <2>1. fs[Len(fs)].kind = "sources"
    BY <1>12, <1>13
  <2>2. QED  BY <1>2, <1>15, <1>18, <1>19, <2>1 DEF PromotionGoesOn
<1>21. QED  BY <1>2, <1>15, <1>17, <1>20 DEF LitTypes, HostFits, DraftsHaveBodies,
               IngestWritesBodies

(* Harvests and screens touch neither the cards nor a command.             *)
LEMMA ReadingFits ==
  ASSUME LitTypes, HostFits, Reading
  PROVE  LitTypes' /\ HostFits' /\ workspace' = workspace
<1> USE DEF LitTypes
<1>1. SUFFICES UNCHANGED <<drafts, workspace, job, crashes>> /\ LitTypes'
  <2>1. UNCHANGED <<drafts, workspace, job, crashes>> => HostFits'
    BY DEF HostFits, JobKnown, IngestWritesBodies, DraftsHaveBodies, PromotionGoesOn, Coming
  <2>2. QED  BY <2>1
<1>2. ASSUME NEW s \in Subs, NEW found \in SUBSET Dois, NEW force \in BOOLEAN,
             NEW floor \in 0..Cardinality(Dois), Harvest(s, found, force, floor)
      PROVE  UNCHANGED <<drafts, workspace, job, crashes>> /\ LitTypes'
  <2>1. queue' \in [Subs -> (SUBSET Dois) \cup {Missing}]
    BY <1>2 DEF Harvest
  <2>2. screen' \in [Subs -> Screen \cup {Missing}]
    BY <1>2 DEF Harvest
  <2>3. QED  BY <1>2, <2>1, <2>2 DEF Harvest
<1>3. ASSUME NEW s \in Subs, NEW found \in SUBSET Dois, NEW onlyOpen \in BOOLEAN,
             Seed(s, found, onlyOpen)
      PROVE  UNCHANGED <<drafts, workspace, job, crashes>> /\ LitTypes'
  <2>1. Queued(s) \cup found \in SUBSET Dois
    BY DEF Queued
  <2>2. queue' \in [Subs -> (SUBSET Dois) \cup {Missing}]
    BY <1>3, <2>1 DEF Seed
  <2>3. screen' \in [Subs -> Screen \cup {Missing}]
    BY <1>3 DEF Seed
  <2>4. QED  BY <1>3, <2>2, <2>3 DEF Seed
<1>4. ASSUME NEW skip \in {"screened", "classified", "nothing"}, NEW bare \in BOOLEAN,
             Pack(skip, bare)
      PROVE  UNCHANGED <<drafts, workspace, job, crashes>> /\ LitTypes'
  BY <1>4 DEF Pack
<1>5. ASSUME NEW s \in Subs, NEW a \in Screen, Split(s, a)
      PROVE  UNCHANGED <<drafts, workspace, job, crashes>> /\ LitTypes'
  BY <1>5 DEF Split
<1>6. QED  BY <1>2, <1>3, <1>4, <1>5 DEF Reading

(* The host, whatever it does.                                             *)
LEMMA HostFitsAlways ==
  ASSUME LitTypes, HostFits, Reading \/ Writing
  PROVE  LitTypes' /\ HostFits'
BY ReadingFits, IngestFits, PromoteFits, HostStepFits, HostDiesFits DEF Writing

-----------------------------------------------------------------------------
(* Builders                                                                *)

(* What is indexed of a workspace that can be read.                        *)
LEMMA IndexKnown ==
  ASSUME workspace \in Folder, workspace.sources \in Sources \cup {Torn}, Readable(workspace)
  PROVE  /\ Index(workspace) \in [Cards -> Entry \cup {Missing}]
         /\ workspace.sources \in Sources
         /\ workspace.body \in [Cards -> Texts \cup {Missing, Torn}]
<1>1. /\ workspace.body \in [Cards -> Texts \cup {Missing, Torn}]
      /\ workspace.meta \in [Cards -> Metas \cup {Missing, Torn}]
  BY DEF Folder
<1>2. workspace.sources \in Sources
  BY DEF Readable
<1>3. ASSUME NEW c \in Cards, workspace.meta[c] # Missing, workspace.body[c] # Missing
      PROVE  [sha |-> workspace.body[c], meta |-> workspace.meta[c]] \in Entry
  <2>1. workspace.meta[c] \in Metas
    BY <1>1, <1>3 DEF Readable, Described
  <2>2. QED  BY <1>1, <1>3, <2>1 DEF Entry
<1>4. Index(workspace) \in [Cards -> Entry \cup {Missing}]
  BY <1>3 DEF Index
<1>5. QED  BY <1>1, <1>2, <1>4

(* A workspace that is valid makes a sound release: each card has the body *)
(* its metadata describes, and its works and cards are there.              *)
LEMMA ValidIsSound ==
  ASSUME workspace \in Folder, workspace.sources \in Sources \cup {Torn}, Valid(workspace),
         NEW x, x.index = Index(workspace), x.sources = workspace.sources,
         x.body = workspace.body
  PROVE  SoundRelease(x)
<1>1. Missing \notin Entry
  BY ReleaseAssumption
<1>2. Index(workspace) \in [Cards -> Entry \cup {Missing}] /\ workspace.sources \in Sources
  BY IndexKnown DEF Valid
<1>3. ASSUME NEW c \in Cards
      PROVE  /\ c \in Entries(x) <=> workspace.meta[c] # Missing
             /\ c \in Entries(x) =>
                  x.index[c] = [sha |-> workspace.body[c], meta |-> workspace.meta[c]]
  <2>1. workspace.meta[c] # Missing => workspace.body[c] # Missing
    BY DEF Valid, Described, BodyValid
  <2>2. x.index[c] = IF workspace.meta[c] = Missing \/ workspace.body[c] = Missing THEN Missing
                     ELSE [sha |-> workspace.body[c], meta |-> workspace.meta[c]]
    BY DEF Index
  <2>3. workspace.meta[c] # Missing => x.index[c] # Missing
    <3>1. SUFFICES ASSUME workspace.meta[c] # Missing PROVE x.index[c] \in Entry
      BY <1>1
    <3>2. workspace.body[c] \in Texts \cup {Torn} /\ workspace.meta[c] \in Metas
      BY <2>1, <3>1 DEF Folder, Valid, Readable, Described
    <3>3. QED  BY <2>1, <2>2, <3>1, <3>2 DEF Entry
  <2>4. QED  BY <2>2, <2>3 DEF Entries
<1>4. ASSUME NEW c \in Entries(x)
      PROVE  /\ x.body[c] = x.index[c].sha /\ x.index[c].sha = x.index[c].meta.sha
             /\ \A d \in x.index[c].meta.sources : x.sources[d] = TRUE
             /\ \A n \in x.index[c].meta.methods \cup {Problem} : <<c[1], n>> \in Entries(x)
  <2>1. c \in Cards /\ workspace.meta[c] # Missing
    BY <1>3 DEF Entries
  <2>2. x.index[c].sha = workspace.body[c] /\ x.index[c].meta = workspace.meta[c]
    <3>1. x.index[c] = [sha |-> workspace.body[c], meta |-> workspace.meta[c]]
      BY <1>3, <1>4, <2>1
    <3>2. QED  BY <3>1
  <2> DEFINE m == workspace.meta[c]
  <2>3. c \in Described(workspace)
    BY <2>1 DEF Described
  <2>4. m \in Metas /\ workspace.body[c] = m.sha
    BY <2>1, <2>3 DEF Folder, Valid, Readable, BodyValid
  <2>5. /\ \A d \in m.sources : workspace.sources[d] # Missing
        /\ \A n \in m.methods \cup {Problem} : workspace.meta[<<c[1], n>>] # Missing
    BY <2>3 DEF Valid, RefsValid
  <2>6. m.sources \subseteq Dois /\ m.methods \subseteq Names
    BY <2>4 DEF Metas
  <2>7. ASSUME NEW d \in m.sources PROVE workspace.sources[d] = TRUE
    <3>1. d \in Dois /\ workspace.sources[d] # Missing
      BY <2>5, <2>6
    <3>2. workspace.sources[d] \in BOOLEAN \cup {Missing}
      BY <1>2, <3>1 DEF Sources
    <3>3. workspace.sources[d]
      BY <3>1 DEF Valid, SourcesValid
    <3>4. QED  BY <3>1, <3>2, <3>3
  <2>8. ASSUME NEW n \in m.methods \cup {Problem} PROVE <<c[1], n>> \in Entries(x)
    <3>1. <<c[1], n>> \in Cards
      BY <2>1, <2>6 DEF Cards
    <3>2. workspace.meta[<<c[1], n>>] # Missing
      BY <2>5
    <3>3. QED  BY <1>3, <3>1, <3>2
  <2>9. QED  BY <2>2, <2>4, <2>7, <2>8
<1>5. QED  BY <1>4 DEF SoundRelease, Accepted, Entries

(* A builder keeps what it knows while nobody writes to the workspace or   *)
(* changes a release.                                                      *)
LEMMA KnownKeeps ==
  ASSUME NEW b \in Builders, BuildKnown(b), workspace' = workspace, build'[b] = build[b],
         \A r \in Ids : Published(r) => shelf'[r] = shelf[r]
  PROVE  BuildKnown(b)'
<1>1. \A r \in Ids : Published(r) => Published(r)'
  BY DEF Published
<1>2. Valid(workspace)' <=> Valid(workspace)
  BY DEF Valid, Readable, Described, SourcesValid, RefsValid, BodyValid
<1>3. Index(workspace)' = Index(workspace)
  BY DEF Index
<1>4. build[b].at = "published" => build[b].id \in Ids /\ Published(build[b].id)'
  BY <1>1 DEF BuildKnown
<1>5. QED  BY <1>2, <1>3, <1>4 DEF BuildKnown

(* One builder moves: what the others know and the shelf has is kept, if   *)
(* what it adds fits.                                                      *)
LEMMA BuilderMoves ==
  ASSUME ReleaseInv, NEW b \in Builders,
         build' = [build EXCEPT ![b] = build'[b]], build'[b] \in BuildRow, BuildKnown(b)',
         UNCHANGED <<queue, packed, screen, drafts, workspace, job>>, crashes' \in Nat,
         shelf' \in [Ids -> Contents \cup {Missing}], litter' \subseteq Ids,
         \A r \in Ids : Published(r) => shelf'[r] = shelf[r],
         \A r \in Ids : shelf'[r] # shelf[r] /\ shelf'[r].calm => SoundRelease(shelf'[r]),
         current' # current => current' \in Ids /\ Published(current)'
  PROVE  ReleaseInv'
<1>1. TypeOK /\ HostFits /\ (\A c \in Builders : BuildKnown(c)) /\ PointerFits
      /\ ReleasesAreSound
  BY DEF ReleaseInv
<1>2. \A c \in Builders : c # b => build'[c] = build[c]
  BY <1>1 DEF TypeOK
<1>3. build' \in [Builders -> BuildRow]
  BY <1>1 DEF TypeOK
<1>4. TypeOK'
  BY <1>1, <1>3 DEF TypeOK
<1>5. HostFits'
  BY <1>1 DEF HostFits, JobKnown, IngestWritesBodies, DraftsHaveBodies, PromotionGoesOn, Coming
<1>6. ASSUME NEW c \in Builders PROVE BuildKnown(c)'
  <2>1. CASE c = b
    BY <2>1
  <2>2. CASE c # b
    BY <1>1, <1>2, <2>2, KnownKeeps
  <2>3. QED  BY <2>1, <2>2
<1>7. \A r \in Ids : Published(r) => Published(r)'
  BY DEF Published
<1>8. PointerFits'
  <2>1. CASE current' = current
    BY <1>1, <1>4, <1>7, <2>1 DEF PointerFits, TypeOK, Published
  <2>2. CASE current' # current
    BY <2>2 DEF PointerFits, Published
  <2>3. QED  BY <2>1, <2>2
<1>9. ReleasesAreSound'
  <2> SUFFICES ASSUME NEW r \in Ids, shelf'[r] # Missing, shelf'[r].calm
               PROVE  SoundRelease(shelf'[r])
    BY DEF ReleasesAreSound, Published
  <2>1. CASE shelf'[r] = shelf[r]
    BY <1>1, <2>1 DEF ReleasesAreSound, Published
  <2>2. QED  BY <2>1
<1>10. QED  BY <1>4, <1>5, <1>6, <1>8, <1>9 DEF ReleaseInv

(* What a builder's next row is.                                           *)
LEMMA Goes ==
  ASSUME build \in [Builders -> BuildRow], NEW b \in Builders, NEW row, Goto(b, row)
  PROVE  build'[b] = row /\ build' = [build EXCEPT ![b] = build'[b]]
BY DEF Goto

(* A builder that has nothing has nothing to know.                         *)
LEMMA NothingKnown ==
  ASSUME NEW b \in Builders, build'[b] = NoBuild
  PROVE  BuildKnown(b)' /\ NoBuild \in BuildRow
BY DEF BuildKnown, NoBuild, BuildRow

(* A build that begins knows that the workspace is valid.                  *)
LEMMA CheckKeeps ==
  ASSUME ReleaseInv, NEW b \in Builders, Check(b)
  PROVE  ReleaseInv'
<1> DEFINE row == [NoBuild EXCEPT !.at = "valid"]
<1>1. TypeOK /\ HostFits
  BY DEF ReleaseInv
<1>2. /\ Valid(workspace) /\ Goto(b, row) /\ UNCHANGED <<shelf, current, litter>>
      /\ UNCHANGED <<queue, packed, screen, drafts, workspace, job, crashes>>
  BY DEF Check, LitFrame, litVars
<1>3. build'[b] = row /\ build' = [build EXCEPT ![b] = build'[b]]
  BY <1>1, <1>2, Goes DEF TypeOK
<1>4. /\ row \in BuildRow /\ row.at = "valid"
  BY DEF BuildRow, NoBuild
<1> HIDE DEF row
<1>5. Valid(workspace)'
  BY <1>2 DEF Valid, Readable, Described, SourcesValid, RefsValid, BodyValid
<1>6. BuildKnown(b)'
  BY <1>3, <1>4, <1>5 DEF BuildKnown
<1>7. /\ shelf' \in [Ids -> Contents \cup {Missing}] /\ litter' \subseteq Ids /\ crashes' \in Nat
  BY <1>1, <1>2 DEF TypeOK, HostFits
<1>8. QED  BY <1>2, <1>3, <1>4, <1>6, <1>7, BuilderMoves

(* What it indexes is the valid workspace, if nobody wrote to it.          *)
LEMMA ClaimKeeps ==
  ASSUME ReleaseInv, NEW b \in Builders, NEW r \in Ids, Claim(b, r)
  PROVE  ReleaseInv'
<1> DEFINE c == [index |-> Index(workspace), sources |-> workspace.sources,
                 body |-> NoFiles, before |-> Missing, calm |-> FALSE]
           row == [build[b] EXCEPT !.at = "claimed", !.id = r, !.content = c]
<1>1. TypeOK /\ HostFits /\ BuildKnown(b)
  BY DEF ReleaseInv
<1>2. /\ Readable(workspace) /\ build[b].at = "valid" /\ (Goto(b, row) \/ Goto(b, NoBuild))
      /\ UNCHANGED <<shelf, current, litter>>
      /\ UNCHANGED <<queue, packed, screen, drafts, workspace, job, crashes>>
  BY DEF Claim, Frame, LitFrame, litVars
<1>3. /\ shelf' \in [Ids -> Contents \cup {Missing}] /\ litter' \subseteq Ids /\ crashes' \in Nat
  BY <1>1, <1>2 DEF TypeOK, HostFits
<1>4. CASE Goto(b, NoBuild)
  <2>1. build'[b] = NoBuild /\ build' = [build EXCEPT ![b] = build'[b]]
    BY <1>1, <1>4, Goes DEF TypeOK
  <2>2. BuildKnown(b)' /\ NoBuild \in BuildRow
    BY <2>1, NothingKnown
  <2>3. QED  BY <1>2, <1>3, <2>1, <2>2, BuilderMoves
<1>5. CASE Goto(b, row)
  <2>1. /\ Index(workspace) \in [Cards -> Entry \cup {Missing}]
        /\ workspace.sources \in Sources
    BY <1>1, <1>2, IndexKnown DEF TypeOK, HostFits
  <2>2. NoFiles \in [Cards -> Texts \cup {Missing, Torn}]
    BY DEF NoFiles
  <2>3. c \in Contents /\ c.index = Index(workspace) /\ c.sources = workspace.sources
    BY <2>1, <2>2 DEF Contents
  <2> HIDE DEF c
  <2>4. build[b] \in BuildRow
    BY <1>1 DEF TypeOK
  <2>5. /\ row \in BuildRow /\ row.at = "claimed" /\ row.id = r /\ row.content = c
        /\ row.calm = build[b].calm
    BY <2>3, <2>4 DEF BuildRow
  <2> HIDE DEF row
  <2>6. build'[b] = row /\ build' = [build EXCEPT ![b] = build'[b]]
    BY <1>1, <1>5, Goes DEF TypeOK
  <2>7. /\ Index(workspace)' = Index(workspace)
        /\ Valid(workspace) => Valid(workspace)'
    BY <1>2 DEF Index, Valid, Readable, Described, SourcesValid, RefsValid, BodyValid
  <2>8. row.calm => Valid(workspace)'
    BY <1>1, <1>2, <2>5, <2>7 DEF BuildKnown
  <2>9. BuildKnown(b)'
    BY <1>2, <2>3, <2>5, <2>6, <2>7, <2>8 DEF BuildKnown
  <2>10. QED  BY <1>2, <1>3, <2>5, <2>6, <2>9, BuilderMoves
<1>6. QED  BY <1>2, <1>4, <1>5

(* What it stages is sound, if nobody wrote to the workspace so far.       *)
LEMMA StageKeeps ==
  ASSUME ReleaseInv, NEW b \in Builders, Stage(b)
  PROVE  ReleaseInv'
<1>1. TypeOK /\ HostFits /\ BuildKnown(b)
  BY DEF ReleaseInv
<1>2. PICK p \in Previous(build[b].id) :
         Goto(b, [build[b] EXCEPT !.at = "staged", !.content.body = workspace.body,
                                  !.content.before = p])
  BY DEF Stage
<1> DEFINE old == build[b].content
           new == [old EXCEPT !.body = workspace.body, !.before = p]
           row == [build[b] EXCEPT !.at = "staged", !.content = new]
<1>3. /\ build[b].at = "claimed" /\ UNCHANGED <<shelf, current, litter>>
      /\ UNCHANGED <<queue, packed, screen, drafts, workspace, job, crashes>>
  BY DEF Stage, Frame, LitFrame, litVars
<1>4. /\ shelf' \in [Ids -> Contents \cup {Missing}] /\ litter' \subseteq Ids /\ crashes' \in Nat
  BY <1>1, <1>3 DEF TypeOK, HostFits
<1>5. build[b] \in BuildRow /\ build[b].id \in Ids /\ old \in Contents
  BY <1>1, <1>3 DEF TypeOK, BuildKnown
<1>6. p \in Ids \cup {Missing}
  BY <1>1 DEF Previous, TypeOK
<1>7. workspace.body \in [Cards -> Texts \cup {Missing, Torn}]
  BY <1>1 DEF TypeOK, Folder
<1>8. [build[b] EXCEPT !.at = "staged", !.content.body = workspace.body,
                       !.content.before = p] = row
  BY <1>5 DEF BuildRow, Contents
<1>9. /\ new \in Contents /\ new.index = old.index /\ new.sources = old.sources
      /\ new.body = workspace.body
  BY <1>5, <1>6, <1>7 DEF Contents
<1> HIDE DEF new, old
<1>10. /\ row \in BuildRow /\ row.at = "staged" /\ row.id = build[b].id /\ row.content = new
       /\ row.calm = build[b].calm
  BY <1>5, <1>9 DEF BuildRow
<1>11. Goto(b, row)
  BY <1>2, <1>8
<1> HIDE DEF row
<1>12. build'[b] = row /\ build' = [build EXCEPT ![b] = build'[b]]
  BY <1>1, <1>11, Goes DEF TypeOK
<1>13. row.calm => SoundRelease(new)
  <2> SUFFICES ASSUME row.calm PROVE SoundRelease(new)
    OBVIOUS
  <2>1. /\ Valid(workspace) /\ old.index = Index(workspace)
        /\ old.sources = workspace.sources
    BY <1>1, <1>3, <1>10 DEF BuildKnown, old
  <2>2. workspace \in Folder /\ workspace.sources \in Sources \cup {Torn}
    BY <1>1 DEF TypeOK, HostFits
  <2>3. QED  BY <1>9, <2>1, <2>2, ValidIsSound
<1>14. BuildKnown(b)'
  BY <1>5, <1>9, <1>10, <1>12, <1>13 DEF BuildKnown
<1>15. QED  BY <1>3, <1>4, <1>10, <1>12, <1>14, BuilderMoves

(* What it publishes is what it staged, under a name that was free.        *)
LEMMA PublishKeeps ==
  ASSUME ReleaseInv, NEW b \in Builders, Publish(b)
  PROVE  ReleaseInv'
<1> DEFINE r == build[b].id
           x == [build[b].content EXCEPT !.calm = build[b].calm]
           row == [NoBuild EXCEPT !.at = "published", !.id = r]
<1>1. TypeOK /\ HostFits /\ BuildKnown(b)
  BY DEF ReleaseInv
<1>2. /\ build[b].at = "staged" /\ UNCHANGED <<current, litter>>
      /\ UNCHANGED <<queue, packed, screen, drafts, workspace, job, crashes>>
      /\ \/ ~Published(r) /\ shelf' = [shelf EXCEPT ![r] = x] /\ Goto(b, row)
         \/ shelf' = shelf /\ Goto(b, NoBuild)
  BY DEF Publish, Frame, LitFrame, litVars, Renames
<1>3. litter' \subseteq Ids /\ crashes' \in Nat
  BY <1>1, <1>2 DEF TypeOK, HostFits
<1>4. shelf \in [Ids -> Contents \cup {Missing}]
  BY <1>1 DEF TypeOK
<1>5. CASE shelf' = shelf /\ Goto(b, NoBuild)
  <2>1. build'[b] = NoBuild /\ build' = [build EXCEPT ![b] = build'[b]]
    BY <1>1, <1>5, Goes DEF TypeOK
  <2>2. BuildKnown(b)' /\ NoBuild \in BuildRow
    BY <2>1, NothingKnown
  <2>3. QED  BY <1>2, <1>3, <1>4, <1>5, <2>1, <2>2, BuilderMoves
<1>6. CASE ~Published(r) /\ shelf' = [shelf EXCEPT ![r] = x] /\ Goto(b, row)
  <2>1. build[b] \in BuildRow /\ r \in Ids /\ build[b].content \in Contents
    BY <1>1, <1>2 DEF TypeOK, BuildKnown
  <2>2. build[b].calm \in BOOLEAN
    BY <2>1 DEF BuildRow
  <2>3. /\ x \in Contents /\ x.calm = build[b].calm /\ x.index = build[b].content.index
        /\ x.sources = build[b].content.sources /\ x.body = build[b].content.body
    BY <2>1, <2>2 DEF Contents
  <2>4. x.calm => SoundRelease(x)
    <3>1. x.calm => SoundRelease(build[b].content)
      BY <1>1, <1>2, <2>3 DEF BuildKnown
    <3> HIDE DEF x
    <3>2. QED  BY <2>3, <3>1 DEF SoundRelease, Accepted, Entries
  <2>5. /\ row \in BuildRow /\ row.at = "published" /\ row.id = r
    BY <2>1 DEF BuildRow, NoBuild
  <2> HIDE DEF x, row
  <2>6. build'[b] = row /\ build' = [build EXCEPT ![b] = build'[b]]
    BY <1>1, <1>6, Goes DEF TypeOK
  <2>7. /\ shelf' \in [Ids -> Contents \cup {Missing}] /\ shelf'[r] = x
        /\ \A i \in Ids : i # r => shelf'[i] = shelf[i]
    BY <1>4, <1>6, <2>1, <2>3
  <2>8. shelf'[r] # Missing
    BY <2>3, <2>7, ReleaseAssumption
  <2>9. BuildKnown(b)'
    BY <2>1, <2>5, <2>6, <2>8 DEF BuildKnown, Published
  <2>10. \A i \in Ids : Published(i) => shelf'[i] = shelf[i]
    BY <1>6, <2>7
  <2>11. \A i \in Ids : shelf'[i] # shelf[i] /\ shelf'[i].calm => SoundRelease(shelf'[i])
    BY <2>4, <2>7
  <2>12. QED  BY <1>2, <1>3, <2>5, <2>6, <2>7, <2>9, <2>10, <2>11, BuilderMoves
<1>7. QED  BY <1>2, <1>5, <1>6

(* The pointer is moved to a release that is there.                        *)
LEMMA RepointKeeps ==
  ASSUME ReleaseInv, NEW b \in Builders, Repoint(b)
  PROVE  ReleaseInv'
<1>1. TypeOK /\ HostFits /\ BuildKnown(b)
  BY DEF ReleaseInv
<1>2. /\ build[b].at = "published" /\ current' = build[b].id /\ Goto(b, NoBuild)
      /\ UNCHANGED <<shelf, litter>>
      /\ UNCHANGED <<queue, packed, screen, drafts, workspace, job, crashes>>
  BY DEF Repoint, Frame, LitFrame, litVars
<1>3. /\ shelf' \in [Ids -> Contents \cup {Missing}] /\ litter' \subseteq Ids /\ crashes' \in Nat
  BY <1>1, <1>2 DEF TypeOK, HostFits
<1>4. build'[b] = NoBuild /\ build' = [build EXCEPT ![b] = build'[b]]
  BY <1>1, <1>2, Goes DEF TypeOK
<1>5. BuildKnown(b)' /\ NoBuild \in BuildRow
  BY <1>4, NothingKnown
<1>6. current' \in Ids /\ Published(current)'
  BY <1>1, <1>2 DEF BuildKnown, Published
<1>7. QED  BY <1>2, <1>3, <1>4, <1>5, <1>6, BuilderMoves

(* A build that ends with an error or dies.                                *)
LEMMA EndKeeps ==
  ASSUME ReleaseInv, NEW b \in Builders, BuildFails(b) \/ BuildDies(b)
  PROVE  ReleaseInv'
<1>1. TypeOK /\ HostFits /\ BuildKnown(b)
  BY DEF ReleaseInv
<1>2. /\ Goto(b, NoBuild) /\ UNCHANGED <<shelf, current>>
      /\ UNCHANGED <<queue, packed, screen, drafts, workspace, job>>
      /\ crashes' = crashes \/ crashes' = crashes + 1
      /\ litter' = litter \/ (build[b].at = "staged" /\ litter' = litter \cup {build[b].id})
  BY DEF BuildFails, BuildDies, Frame, LitFrame, litVars
<1>3. litter' \subseteq Ids
  BY <1>1, <1>2 DEF TypeOK, BuildKnown
<1>4. shelf' \in [Ids -> Contents \cup {Missing}] /\ crashes' \in Nat
  BY <1>1, <1>2 DEF TypeOK, HostFits
<1>5. build'[b] = NoBuild /\ build' = [build EXCEPT ![b] = build'[b]]
  BY <1>1, <1>2, Goes DEF TypeOK
<1>6. BuildKnown(b)' /\ NoBuild \in BuildRow
  BY <1>5, NothingKnown
<1>7. QED  BY <1>2, <1>3, <1>4, <1>5, <1>6, BuilderMoves

(* Going back, by hand.                                                    *)
LEMMA RollbackKeeps ==
  ASSUME ReleaseInv, Rollback
  PROVE  ReleaseInv'
<1>1. PICK r \in Ids : Published(r) /\ current' = r
  BY DEF Rollback
<1>2. UNCHANGED <<litVars, build, shelf, litter>>
  BY DEF Rollback, Frame, LitFrame
<1>3. TypeOK' /\ HostFits'
  BY <1>1, <1>2 DEF ReleaseInv, TypeOK, HostFits, JobKnown, IngestWritesBodies,
                    DraftsHaveBodies, PromotionGoesOn, Coming, litVars
<1>4. \A b \in Builders : BuildKnown(b)'
  <2>1. workspace' = workspace /\ shelf' = shelf
    BY <1>2 DEF litVars
  <2>2. QED  BY <1>2, <2>1, KnownKeeps DEF ReleaseInv
<1>5. PointerFits' /\ ReleasesAreSound'
  BY <1>1, <1>2 DEF ReleaseInv, PointerFits, ReleasesAreSound, Published
<1>6. QED  BY <1>3, <1>4, <1>5 DEF ReleaseInv

(* A build beside which the workspace was written to is not calm any more. *)
LEMMA BesideKeeps ==
  ASSUME ReleaseInv, Beside
  PROVE  ReleaseInv'
<1>1. /\ Reading \/ Writing
      /\ build' = [b \in Builders |->
                     IF workspace' = workspace \/ build[b].at = "idle" THEN build[b]
                     ELSE [build[b] EXCEPT !.calm = FALSE]]
      /\ UNCHANGED <<shelf, current, litter, builds>>
  BY DEF Beside
<1>2. TypeOK /\ HostFits /\ LitTypes /\ build \in [Builders -> BuildRow]
  BY DEF ReleaseInv, TypeOK, LitTypes
<1>3. LitTypes' /\ HostFits'
  BY <1>1, <1>2, HostFitsAlways
<1>4. ASSUME NEW b \in Builders
      PROVE  /\ build'[b] \in BuildRow /\ build'[b].at = build[b].at /\ build'[b].id = build[b].id
             /\ build'[b].content = build[b].content
             /\ build'[b] = build[b] \/ build[b].at = "idle" \/ build'[b].calm = FALSE
             /\ workspace' = workspace => build'[b] = build[b]
  <2>1. build[b] \in BuildRow
    BY <1>2
  <2>2. CASE workspace' = workspace \/ build[b].at = "idle"
    <3>1. build'[b] = build[b]
      BY <1>1, <2>2
    <3>2. QED  BY <2>1, <3>1
  <2>3. CASE ~ (workspace' = workspace \/ build[b].at = "idle")
    <3>1. build'[b] = [build[b] EXCEPT !.calm = FALSE]
      BY <1>1, <2>3
    <3>2. QED  BY <2>1, <2>3, <3>1 DEF BuildRow
  <2>4. QED  BY <2>2, <2>3
<1>5. build' \in [Builders -> BuildRow]
  <2>1. build' = [b \in Builders |-> build'[b]]
    BY <1>1
  <2>2. QED  BY <1>4, <2>1
<1>6. TypeOK'
  BY <1>1, <1>2, <1>3, <1>5 DEF TypeOK, LitTypes
<1>7. ASSUME NEW b \in Builders PROVE BuildKnown(b)'
  <2>1. BuildKnown(b)
    BY DEF ReleaseInv
  <2>2. CASE workspace' = workspace
    BY <1>1, <1>4, <2>1, <2>2, KnownKeeps
  <2>3. CASE workspace' # workspace
    <3>1. build'[b].at = "idle" \/ build'[b].calm = FALSE
      BY <1>1, <1>4, <2>3
    <3>2. QED  BY <1>1, <1>4, <2>1, <3>1 DEF BuildKnown, Published
  <2>4. QED  BY <2>2, <2>3
<1>8. PointerFits' /\ ReleasesAreSound'
  BY <1>1 DEF ReleaseInv, PointerFits, ReleasesAreSound, Published
<1>9. QED  BY <1>3, <1>6, <1>7, <1>8 DEF ReleaseInv

(* Nothing is there at first.                                              *)
LEMMA ReleaseInit ==
  ASSUME Init
  PROVE  ReleaseInv
<1> USE DEF Init, LitInit
<1>1. Missing # Torn
  BY LiteratureAssumption
<1>2. Empty \in Folder /\ drafts \in Folder
  <2>1. /\ NoFiles \in [Cards -> Texts \cup {Missing, Torn}]
        /\ NoFiles \in [Cards -> Metas \cup {Missing, Torn}] /\ NoSource \in Sources
    BY DEF NoFiles, NoSource, Sources
  <2>2. QED  BY <2>1 DEF Empty, Folder
<1>3. workspace.sources \in Sources \cup {Torn} /\ job.to = "nowhere" /\ job = Idle
  BY DEF Empty, NoSource, Sources, Idle
<1>4. NoBuild \in BuildRow
  BY DEF NoBuild, BuildRow
<1>5. TypeOK
  BY <1>2, <1>4 DEF TypeOK
<1>6. DraftsHaveBodies
  BY DEF DraftsHaveBodies, Empty, NoFiles
<1>7. HostFits
  BY <1>3, <1>6 DEF HostFits, JobKnown, IngestWritesBodies, PromotionGoesOn
<1>8. \A b \in Builders : BuildKnown(b)
  BY DEF BuildKnown, NoBuild
<1>9. PointerFits /\ ReleasesAreSound
  BY DEF PointerFits, ReleasesAreSound, Published
<1>10. QED  BY <1>5, <1>7, <1>8, <1>9 DEF ReleaseInv

(* Every step keeps the invariant.                                         *)
LEMMA ReleaseStep ==
  ASSUME ReleaseInv, [Next]_vars
  PROVE  ReleaseInv'
<1>1. CASE Beside
  BY <1>1, BesideKeeps
<1>2. CASE Building
  BY <1>2, CheckKeeps, ClaimKeeps, StageKeeps, PublishKeeps, RepointKeeps, EndKeeps
     DEF Building
<1>3. CASE Rollback
  BY <1>3, RollbackKeeps
<1>4. CASE UNCHANGED vars
  <2>1. UNCHANGED <<litVars, build, shelf, current, litter>>
    BY <1>4 DEF vars
  <2>2. TypeOK' /\ HostFits'
    BY <2>1 DEF ReleaseInv, TypeOK, HostFits, JobKnown, IngestWritesBodies,
                DraftsHaveBodies, PromotionGoesOn, Coming, litVars
  <2>3. workspace' = workspace /\ shelf' = shelf
    BY <2>1 DEF litVars
  <2>4. \A b \in Builders : BuildKnown(b)'
    BY <2>1, <2>3, KnownKeeps DEF ReleaseInv
  <2>5. PointerFits' /\ ReleasesAreSound'
    BY <2>1 DEF ReleaseInv, PointerFits, ReleasesAreSound, Published
  <2>6. QED  BY <2>2, <2>4, <2>5 DEF ReleaseInv
<1>5. QED  BY <1>1, <1>2, <1>3, <1>4 DEF Next

-----------------------------------------------------------------------------
(* The theorems                                                            *)

(* The invariant holds in every run of the knowledge base.                 *)
THEOREM ReleaseInvariant == Spec => []ReleaseInv
<1>1. Init => ReleaseInv
  BY ReleaseInit
<1>2. ReleaseInv /\ [Next]_vars => ReleaseInv'
  BY ReleaseStep
<1>3. QED  BY <1>1, <1>2, PTL DEF Spec

(* Queues, drafts, the workspace, builds and releases have their types:    *)
(* what a command of the host writes is a file of a card, the sources or   *)
(* the record, also when the host dies in the middle of it.                *)
THEOREM ReleaseTypes == Spec => []TypeOK
<1>1. ReleaseInv => TypeOK
  BY DEF ReleaseInv
<1>2. QED  BY <1>1, ReleaseInvariant, PTL

(* A release that was built from a workspace nobody wrote to meanwhile is  *)
(* sound, whatever harvests, screens, ingests, promotions, crashes, rival  *)
(* builds and rollbacks came before: each entry has the body that its      *)
(* metadata describes, and the works and the cards it refers to are there. *)
THEOREM CalmReleasesAreSound == Spec => []ReleasesAreSound
<1>1. ReleaseInv => ReleasesAreSound
  BY DEF ReleaseInv
<1>2. QED  BY <1>1, ReleaseInvariant, PTL

(* A step of the knowledge base puts one release on the shelf where none   *)
(* was, points at one that is there, or leaves the shelf alone.            *)
LEMMA ShelfStep ==
  ASSUME ReleaseInv, [Next]_vars
  PROVE  [Shelf!Next]_<<shelf, current>>
<1>1. TypeOK /\ \A b \in Builders : BuildKnown(b)
  BY DEF ReleaseInv
<1>2. CASE Beside \/ UNCHANGED vars
  BY <1>2 DEF Beside, vars
<1>3. CASE Rollback
  <2>1. PICK r \in Ids : Published(r) /\ current' = r
    BY <1>3 DEF Rollback
  <2>2. Shelf!Point(r)
    BY <1>3, <2>1 DEF Rollback, Published, Shelf!Point
  <2>3. QED  BY <2>2 DEF Shelf!Next
<1>4. ASSUME NEW b \in Builders, Publish(b)
      PROVE  [Shelf!Next]_<<shelf, current>>
  <2> DEFINE r == build[b].id
             x == [build[b].content EXCEPT !.calm = build[b].calm]
  <2>1. r \in Ids /\ build[b].content \in Contents /\ build[b].calm \in BOOLEAN
        /\ shelf \in [Ids -> Contents \cup {Missing}]
    BY <1>1, <1>4 DEF TypeOK, BuildRow, BuildKnown, Publish
  <2>2. current' = current
    BY <1>4 DEF Publish
  <2>3. CASE Renames(r)
    <3>1. shelf' = [shelf EXCEPT ![r] = x]
      BY <1>4, <2>3 DEF Publish
    <3>2. x \in Contents
      BY <2>1 DEF Contents
    <3> HIDE DEF x, r
    <3>3. shelf'[r] = x /\ x # Missing /\ shelf[r] = Missing
      BY <2>1, <2>3, <3>1, <3>2, ReleaseAssumption DEF Renames, Published, r
    <3>4. Shelf!Publish(r)
      BY <2>2, <3>1, <3>3 DEF Shelf!Publish
    <3>5. QED  BY <2>1, <3>4 DEF Shelf!Next, r
  <2>4. CASE ~Renames(r)
    BY <1>4, <2>2, <2>4 DEF Publish
  <2>5. QED  BY <2>3, <2>4
<1>5. ASSUME NEW b \in Builders, Repoint(b)
      PROVE  [Shelf!Next]_<<shelf, current>>
  <2>1. build[b].id \in Ids /\ Published(build[b].id)
    BY <1>1, <1>5 DEF BuildKnown, Repoint
  <2>2. Shelf!Point(build[b].id)
    BY <1>5, <2>1 DEF Repoint, Published, Shelf!Point
  <2>3. QED  BY <2>1, <2>2 DEF Shelf!Next
<1>6. ASSUME NEW b \in Builders, NEW r \in Ids,
             Check(b) \/ Claim(b, r) \/ Stage(b) \/ BuildFails(b) \/ BuildDies(b)
      PROVE  UNCHANGED <<shelf, current>>
  BY <1>6 DEF Check, Claim, Stage, BuildFails, BuildDies
<1>7. CASE Building
  <2>1. PICK b \in Builders :
           \/ Check(b) \/ Stage(b) \/ Publish(b) \/ Repoint(b) \/ BuildFails(b) \/ BuildDies(b)
           \/ \E r \in Ids : Claim(b, r)
    BY <1>7 DEF Building
  <2>2. CASE Publish(b) \/ Repoint(b)
    BY <1>4, <1>5, <2>2
  <2>3. CASE Check(b) \/ Stage(b) \/ BuildFails(b) \/ BuildDies(b)
    BY <2>3 DEF Check, Stage, BuildFails, BuildDies
  <2>4. CASE \E r \in Ids : Claim(b, r)
    BY <1>6, <2>4
  <2>5. QED  BY <2>1, <2>2, <2>3, <2>4
<1>8. QED  BY <1>2, <1>3, <1>7 DEF Next

(* The knowledge base implements the shelf of its readers: a release is    *)
(* put there once and never changes, and current names one that is there,  *)
(* however many builds race, fail and die and whoever goes back.           *)
THEOREM KnowledgeImplementsShelf == Spec => ImplementsShelf
<1>1. Init => Shelf!Init
  BY DEF Init, Shelf!Init
<1>2. ReleaseInv /\ [Next]_vars => [Shelf!Next]_<<shelf, current>>
  BY ShelfStep
<1>3. QED  BY <1>1, <1>2, ReleaseInvariant, PTL DEF Spec, ImplementsShelf, Shelf!Spec

(* The last step of a promotion finds, or has just written, both files of  *)
(* every card of the drafts.                                               *)
LEMMA PromotedIsWhole ==
  ASSUME ReleaseInv, [Next]_vars, Promoted, NEW c \in Cards, drafts.meta[c] # Missing
  PROVE  workspace'.meta[c] # Missing /\ workspace'.body[c] # Missing
<1>1. job.to = "workspace" /\ job' = Idle /\ crashes' = crashes
  BY DEF Promoted
<1>2. job # Idle /\ job' # job
  BY <1>1 DEF Idle
<1>3. TypeOK /\ HostFits /\ LitTypes
  BY DEF ReleaseInv, TypeOK, LitTypes
<1>4. HostStep
  <2>1. ~ UNCHANGED job
    BY <1>2
  <2>2. CASE Building \/ Rollback \/ UNCHANGED vars
    <3>1. UNCHANGED job
      BY <2>2 DEF Building, Rollback, Check, Claim, Stage, Publish, Repoint, BuildFails, BuildDies,
                  Frame, LitFrame, litVars, vars
    <3>2. QED  BY <2>1, <3>1
  <2>3. CASE Beside
    <3>1. ~ Reading
      BY <1>2 DEF Reading
    <3>2. \A s \in Subs : ~ Ingest(s)
      BY <1>2 DEF Ingest
    <3>3. ~ Promote
      BY <1>2 DEF Promote
    <3>4. ~ HostDies
      BY <1>1, <1>3 DEF HostDies, HostFits
    <3>5. QED  BY <2>3, <3>1, <3>2, <3>3, <3>4 DEF Beside, Writing
  <2>4. QED  BY <2>2, <2>3 DEF Next
<1>5. Len(job.files) = 1 /\ job.files[1] \in Files
  <2>1. job.files \in Seq(Files) /\ Len(job.files) \in Nat \ {0} /\ job.files[1] \in Files
    BY <1>2, <1>3, FilesOfJob DEF HostFits
  <2>2. CASE Len(job.files) # 1
    <3>1. job' = [job EXCEPT !.files = Tail(@)]
      BY <1>4, <2>2 DEF HostStep
    <3>2. job \in [to : {"drafts", "workspace"}, files : Seq(Files)]
      BY <1>2, <1>3 DEF HostFits, JobKnown
    <3>3. job'.to = "workspace"
      BY <1>1, <3>1, <3>2
    <3>4. QED  BY <1>1, <3>3 DEF Idle
  <2>3. QED  BY <2>1, <2>2
<1>6. HostWrites(job.files[1])
  BY <1>2, <1>3, <1>4, HostWritesFile DEF HostStep
<1>7. job.files[1].kind = "sources" /\ DOMAIN job.files = {1}
  <2>1. job.files \in Seq(Files)
    BY <1>2, <1>3, FilesOfJob DEF HostFits
  <2>2. DOMAIN job.files = {1}
    BY <1>5, <2>1
  <2>3. QED  BY <1>1, <1>3, <1>5, <2>2 DEF HostFits, PromotionGoesOn
<1>8. ~ Coming("meta", c) /\ ~ Coming("body", c)
  BY <1>7 DEF Coming
<1>9. workspace.meta[c] # Missing /\ workspace.body[c] # Missing
  BY <1>1, <1>3, <1>8 DEF HostFits, PromotionGoesOn
<1>10. QED  BY <1>6, <1>9 DEF HostWrites

(* A promotion that comes to its end leaves every card of the drafts whole *)
(* in the workspace, whatever an earlier one that died left there.         *)
THEOREM PromotionsAreWhole == Spec => PromotionIsWhole
<1>1. ReleaseInv /\ [Next]_vars
        => [Promoted => \A c \in Cards : drafts.meta[c] # Missing =>
              Missing \notin {workspace'.meta[c], workspace'.body[c]}]_litVars
  BY PromotedIsWhole
<1>2. QED  BY <1>1, ReleaseInvariant, PTL DEF Spec, PromotionIsWhole

=============================================================================
