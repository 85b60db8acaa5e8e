------------------------- MODULE CrashUploadProofs --------------------------
(***************************************************************************)
(* Proofs about CrashUpload, for every list of context files, every set of *)
(* compression levels, every number of uploads and every body that another *)
(* client may send.                                                        *)
(***************************************************************************)
EXTENDS CrashUpload, NaturalsInduction, WellFoundedInduction, TLAPS

File == [name: Names, data: Data]

\* A set of indices has a greatest one.
LEMMA GreatestIndex ==
  ASSUME NEW n \in Nat, NEW S \in SUBSET (1 .. n), S # {}
  PROVE  \E i \in S : \A j \in S : j <= i
  <1> DEFINE R == {ij \in Nat \X Nat : ij[1] < ij[2]}
             B == {n - i : i \in S}
  <1>1. IsWellFoundedOn(R, Nat)
    BY NatLessThanWellFounded, Zenon DEF OpToRel
  <1>2. \A i \in S : i \in Nat /\ n - i \in Nat
    OBVIOUS
  <1>3. B \subseteq Nat /\ B # {}
    BY <1>2, Zenon
  <1>4. PICK m \in B : \A y \in B : ~ (<<y, m>> \in R)
    <2> HIDE DEF R, B
    <2> QED BY <1>1, <1>3, WFMin, Zenon
  <1>5. PICK i \in S : m = n - i
    BY <1>4, Zenon
  <1>6. ASSUME NEW j \in S PROVE j <= i
    <2>1. n - j \in Nat /\ m \in Nat /\ ~ (<<n - j, m>> \in R)
      BY <1>2, <1>3, <1>4, Zenon
    <2>2. ~ (n - j < m)
      BY <2>1
    <2> QED BY <2>2, <1>5, <1>2
  <1> QED BY <1>6, Zenon

\* Two sequences, one after the other.
LEMMA ConcatFacts ==
  ASSUME NEW S, NEW s \in Seq(S), NEW t \in Seq(S), NEW w, w = s \o t
  PROVE  /\ w \in Seq(S) /\ Len(w) = Len(s) + Len(t)
         /\ Len(s) \in Nat /\ Len(t) \in Nat
         /\ DOMAIN w = 1 .. Len(s) + Len(t)
         /\ \A i \in 1 .. Len(s) : w[i] = s[i]
         /\ \A i \in 1 .. Len(t) : w[Len(s) + i] = t[i]
OBVIOUS

\* The last write to a name is what is left of it.
LEMMA LeftIs ==
  ASSUME NEW w, DOMAIN w \subseteq Nat, NEW i \in DOMAIN w,
         \A j \in DOMAIN w : w[j].name = w[i].name => j <= i
  PROVE  Left(w)[w[i].name] = w[i].data
  <1>1. ASSUME NEW k \in DOMAIN w, w[k].name = w[i].name,
               \A j \in DOMAIN w : w[j].name = w[i].name => j <= k
        PROVE  k = i
    <2>1. k <= i /\ i <= k /\ i \in Nat /\ k \in Nat
      BY <1>1, Zenon
    <2> QED BY <2>1
  <1>2. i = CHOOSE k \in DOMAIN w : /\ w[k].name = w[i].name
                                    /\ \A j \in DOMAIN w : w[j].name = w[i].name => j <= k
    BY <1>1, Zenon
  <1>3. w[i].name \in {w[k].name : k \in DOMAIN w}
    BY Zenon
  <1> QED BY <1>2, <1>3, Zenon DEF Left

\* Whatever is left of a name was written.
LEMMA LeftWasWritten ==
  ASSUME NEW n \in Nat, NEW w, DOMAIN w = 1 .. n, NEW k \in DOMAIN w
  PROVE  \E i \in DOMAIN w : w[i].name = w[k].name /\ Left(w)[w[k].name] = w[i].data
  <1> DEFINE S == {i \in DOMAIN w : w[i].name = w[k].name}
  <1>1. S \subseteq 1 .. n /\ S # {}
    BY Zenon
  <1>2. PICK i \in S : \A j \in S : j <= i
    <2> HIDE DEF S
    <2> QED BY <1>1, GreatestIndex, Zenon
  <1>3. i \in DOMAIN w /\ w[i].name = w[k].name /\ \A j \in DOMAIN w : w[j].name = w[i].name => j <= i
    BY <1>2, Zenon
  <1>4. DOMAIN w \subseteq Nat
    OBVIOUS
  <1>5. Left(w)[w[i].name] = w[i].data
    BY <1>3, <1>4, LeftIs, Zenon
  <1> QED BY <1>3, <1>5, Zenon

\* The last three writes are those of the entry itself.
LEMMA WritesFacts ==
  ASSUME NEW files \in Seq(File)
  PROVE  /\ Len(files) \in Nat /\ DOMAIN files = 1 .. Len(files)
         /\ DOMAIN Writes(files) = 1 .. Len(files) + 3
         /\ \A i \in 1 .. Len(files) : Writes(files)[i] = files[i]
         /\ Writes(files)[Len(files) + 1].name = "metadata.json"
         /\ Writes(files)[Len(files) + 1].data = "metadata"
         /\ Writes(files)[Len(files) + 2].name = "dump.bin"
         /\ Writes(files)[Len(files) + 2].data = "dump"
         /\ Writes(files)[Len(files) + 3].name = "sdk-config.json"
         /\ Writes(files)[Len(files) + 3].data = "config"
  <1>1. PICK a, b, c : /\ a = [name |-> "metadata.json", data |-> "metadata"]
                       /\ b = [name |-> "dump.bin", data |-> "dump"]
                       /\ c = [name |-> "sdk-config.json", data |-> "config"]
    BY Zenon
  <1>2. a \in File /\ b \in File /\ c \in File
    <2>1. ASSUME NEW x \in Names, NEW y \in Data PROVE [name |-> x, data |-> y] \in File
      BY Zenon DEF File
    <2>2. /\ "metadata.json" \in Names /\ "dump.bin" \in Names /\ "sdk-config.json" \in Names
          /\ "metadata" \in Data /\ "dump" \in Data /\ "config" \in Data
      BY Zenon DEF Names, Data, Reserved
    <2> QED BY <1>1, <2>1, <2>2, Zenon
  <1>3. PICK t : t = <<a, b, c>>
    BY Zenon
  <1>31. t \in Seq(File)
    BY <1>2, <1>3
  <1>32. Len(t) = 3
    BY <1>3
  <1>4. Writes(files) = files \o t
    BY <1>1, <1>3, Zenon DEF Writes
  <1>5. /\ Len(files) \in Nat /\ DOMAIN Writes(files) = 1 .. Len(files) + 3
        /\ \A i \in 1 .. Len(files) : Writes(files)[i] = files[i]
        /\ \A i \in 1 .. 3 : Writes(files)[Len(files) + i] = t[i]
    <2>1. PICK w : w = Writes(files)
      BY Zenon
    <2>2. w = files \o t
      BY <1>4, <2>1, Zenon
    <2>3. /\ Len(files) \in Nat /\ DOMAIN w = 1 .. Len(files) + Len(t)
          /\ \A i \in 1 .. Len(files) : w[i] = files[i]
          /\ \A i \in 1 .. Len(t) : w[Len(files) + i] = t[i]
      BY <1>31, <2>2, ConcatFacts, SMT
    <2> QED BY <2>1, <2>3, <1>32, Zenon
  <1>6. 1 \in 1 .. 3 /\ 2 \in 1 .. 3 /\ 3 \in 1 .. 3
    OBVIOUS
  <1>7. t[1] = a /\ t[2] = b /\ t[3] = c
    BY <1>3
  <1>8. DOMAIN files = 1 .. Len(files)
    OBVIOUS
  <1>9. /\ a.name = "metadata.json" /\ a.data = "metadata" /\ b.name = "dump.bin" /\ b.data = "dump"
        /\ c.name = "sdk-config.json" /\ c.data = "config"
    BY <1>1, Zenon
  <1> QED BY <1>9, <1>5, <1>6, <1>7, <1>8, Zenon

\* What a function on the first n numbers is as a sequence.
LEMMA SeqOf ==
  ASSUME NEW S, NEW n \in Nat, NEW f \in [1 .. n -> S]
  PROVE  f \in Seq(S) /\ Len(f) = n /\ DOMAIN f = 1 .. n
OBVIOUS

\* The entry of a context file.
ContextEntry(files, j) ==
    [key |-> <<"context", j>>, filename |-> files[j].name, ctype |-> "application/json"]

\* The manifest of a captured entry.
ManifestOf(files, k) ==
    (IF k = "panic" THEN <<SdkConfig>> ELSE <<>>) \o ContextManifest(files)

\* A manifest that lists the context files in order, after skip other entries.
Lists(m, files, k, skip) ==
    /\ k = "panic" <=> skip = 1
    /\ Len(files) \in Nat /\ Len(m) \in Nat /\ Len(m) = skip + Len(files) /\ DOMAIN m = 1 .. Len(m)
    /\ skip = 1 => m[1] = SdkConfig
    /\ \A i \in 1 .. Len(files) : m[skip + i] = ContextEntry(files, i)

\* It lists the context files in order, after sdk-config.json if that is there.
LEMMA ManifestFacts ==
  ASSUME NEW files \in Seq(File), NEW k
  PROVE  \E skip \in {0, 1} : Lists(ManifestOf(files, k), files, k, skip)
  <1>0. PICK m : m = ManifestOf(files, k)
    BY Zenon
  <1>1. PICK c : c = ContextManifest(files)
    BY Zenon
  <1>2. Len(files) \in Nat
    OBVIOUS
  <1>3. c = [i \in 1 .. Len(files) |-> ContextEntry(files, i)]
    BY <1>1, Zenon DEF ContextManifest, ContextKey, ContextEntry
  <1>4. PICK S : S = {SdkConfig} \cup {c[i] : i \in 1 .. Len(files)}
    BY Zenon
  <1>5. c \in [1 .. Len(files) -> S]
    BY <1>3, <1>4, Zenon
  <1>6. c \in Seq(S) /\ Len(c) = Len(files)
    BY <1>2, <1>5, SeqOf, Zenon
  <1>61. c \in Seq(S)
    BY <1>6, Zenon
  <1>7. CASE k = "panic"
    <2>1. PICK x : x = SdkConfig
      BY Zenon
    <2>2. PICK s : s = <<x>>
      BY Zenon
    <2>3. s \in Seq(S)
      <3>1. x \in S
        BY <2>1, <1>4, Zenon
      <3> QED BY <2>2, <3>1
    <2>4. Len(s) = 1 /\ s[1] = x /\ 1 \in 1 .. 1
      BY <2>2
    <2>5. m = s \o c
      BY <1>0, <1>1, <1>7, <2>1, <2>2, Zenon DEF ManifestOf
    <2>6. /\ Len(m) = Len(s) + Len(c) /\ DOMAIN m = 1 .. Len(s) + Len(c)
          /\ \A i \in 1 .. Len(s) : m[i] = s[i]
          /\ \A i \in 1 .. Len(c) : m[Len(s) + i] = c[i]
      BY <1>61, <2>3, <2>5, ConcatFacts, SMT
    <2>7. 1 + Len(files) \in Nat
      BY <1>2
    <2>8. /\ Len(m) = 1 + Len(files) /\ DOMAIN m = 1 .. 1 + Len(files)
          /\ m[1] = SdkConfig
          /\ \A i \in 1 .. Len(files) : m[1 + i] = c[i]
      BY <2>1, <2>4, <2>6, <1>6, Zenon
    <2>9. 1 \in {0, 1} /\ k = "panic"
      BY <1>7, Zenon
    <2>10. \A i \in 1 .. Len(files) : m[1 + i] = ContextEntry(files, i)
      BY <1>3, <2>8, Zenon
    <2>11. Lists(m, files, k, 1)
      BY <1>2, <2>7, <2>8, <2>9, <2>10, Zenon DEF Lists
    <2> QED BY <1>0, <2>9, <2>11, Zenon
  <1>8. CASE k # "panic"
    <2>2. PICK s : s = << >>
      BY Zenon
    <2>3. s \in Seq(S)
      BY <2>2
    <2>4. Len(s) = 0
      BY <2>2
    <2>5. m = s \o c
      BY <1>0, <1>1, <1>8, <2>2, Zenon DEF ManifestOf
    <2>6. /\ Len(m) = Len(s) + Len(c) /\ DOMAIN m = 1 .. Len(s) + Len(c)
          /\ \A i \in 1 .. Len(c) : m[Len(s) + i] = c[i]
      BY <1>61, <2>3, <2>5, ConcatFacts, SMT
    <2>7. 0 + Len(files) \in Nat
      BY <1>2
    <2>8. /\ Len(m) = 0 + Len(files) /\ DOMAIN m = 1 .. 0 + Len(files)
          /\ \A i \in 1 .. Len(files) : m[0 + i] = c[i]
      BY <2>4, <2>6, <1>6, Zenon
    <2>9. 0 \in {0, 1} /\ 0 # 1
      OBVIOUS
    <2>10. \A i \in 1 .. Len(files) : m[0 + i] = ContextEntry(files, i)
      BY <1>3, <2>8, Zenon
    <2>11. Lists(m, files, k, 0)
      BY <1>2, <1>8, <2>7, <2>8, <2>9, <2>10, Zenon DEF Lists
    <2> QED BY <1>0, <2>9, <2>11, Zenon
  <1> QED BY <1>7, <1>8, Zenon

\* With keys that differ, each attachment is compressed in its own place.
LEMMA CompressedIs ==
  ASSUME NEW A, NEW n \in Nat, DOMAIN A = 1 .. n,
         \A i, j \in DOMAIN A : A[i].key = A[j].key => i = j,
         NEW config, NEW i \in DOMAIN A
  PROVE  /\ DOMAIN Compressed(A, config) = DOMAIN A
         /\ Compressed(A, config)[i] =
                IF Encoding(A[i], config) = "zstd"
                THEN [A[i] EXCEPT !.bytes = Compress(A[i].bytes, config.level)]
                ELSE A[i]
  <1> DEFINE first(key) == CHOOSE x \in DOMAIN A :
                             /\ A[x].key = key
                             /\ \A j \in DOMAIN A : A[j].key = key => x <= j
             onto(x) == {j \in DOMAIN A : Encoding(A[j], config) = "zstd" /\ first(A[j].key) = x}
             put(x) == LET last == CHOOSE j \in onto(x) : \A y \in onto(x) : y <= j
                       IN  [A[x] EXCEPT !.bytes = Compress(A[last].bytes, config.level)]
  <1>1. Compressed(A, config) = [x \in DOMAIN A |-> IF onto(x) = {} THEN A[x] ELSE put(x)]
    BY Zenon DEF Compressed
  <1>2. \A x \in DOMAIN A : x <= x
    OBVIOUS
  <1>3. \A j \in DOMAIN A : first(A[j].key) = j
    BY <1>2, ZenonT(40)
  <1> HIDE DEF first
  <1>4. onto(i) = IF Encoding(A[i], config) = "zstd" THEN {i} ELSE {}
    BY <1>3, Zenon
  <1>5. ASSUME Encoding(A[i], config) = "zstd"
        PROVE  put(i) = [A[i] EXCEPT !.bytes = Compress(A[i].bytes, config.level)]
    <2>1. onto(i) = {i}
      BY <1>4, <1>5, Zenon
    <2> HIDE DEF onto
    <2>2. i = CHOOSE j \in onto(i) : \A y \in onto(i) : y <= j
      BY <2>1, <1>2, Zenon
    <2> QED BY <2>2, Zenon
  <1> HIDE DEF onto, put
  <1>6. Compressed(A, config)[i] = IF onto(i) = {} THEN A[i] ELSE put(i)
    BY <1>1, Zenon
  <1>7. DOMAIN Compressed(A, config) = DOMAIN A
    BY <1>1, Zenon
  <1>8. CASE Encoding(A[i], config) = "zstd"
    <2>1. onto(i) # {}
      BY <1>4, <1>8, Zenon
    <2> QED BY <2>1, <1>5, <1>6, <1>7, <1>8, Zenon
  <1>9. CASE Encoding(A[i], config) # "zstd"
    <2>1. onto(i) = {}
      BY <1>4, <1>9, Zenon
    <2> QED BY <2>1, <1>6, <1>7, <1>9, Zenon
  <1> QED BY <1>8, <1>9, Zenon

\* The fields of the entries.
LEMMA EntryFields ==
  /\ SdkConfig.key = <<"sdk-config", 0>> /\ SdkConfig.filename = "sdk-config.json"
  /\ SdkConfig.ctype = "application/json"
  /\ \A files, j : /\ ContextEntry(files, j).key = <<"context", j>>
                   /\ ContextEntry(files, j).filename = files[j].name
                   /\ ContextEntry(files, j).ctype = "application/json"
BY Zenon DEF SdkConfig, ContextEntry

\* What is in a manifest, in any order: its keys differ.
IsManifest(m, files, k) ==
    /\ Len(m) \in Nat /\ DOMAIN m = 1 .. Len(m)
    /\ \A i \in DOMAIN m : \/ k = "panic" /\ m[i] = SdkConfig
                           \/ \E j \in 1 .. Len(files) : m[i] = ContextEntry(files, j)
    /\ \A i, j \in DOMAIN m : m[i].key = m[j].key => i = j
    /\ k = "panic" => \E i \in DOMAIN m : m[i] = SdkConfig
    /\ \A j \in 1 .. Len(files) : \E i \in DOMAIN m : m[i] = ContextEntry(files, j)

\* The manifest of a captured entry is such a manifest.
LEMMA ManifestEntries ==
  ASSUME NEW files \in Seq(File), NEW k, NEW m, m = ManifestOf(files, k)
  PROVE  IsManifest(m, files, k)
  <1>1. PICK skip \in {0, 1} :
            /\ k = "panic" <=> skip = 1
            /\ Len(files) \in Nat /\ Len(m) \in Nat /\ Len(m) = skip + Len(files) /\ DOMAIN m = 1 .. Len(m)
            /\ skip = 1 => m[1] = SdkConfig
            /\ \A i \in 1 .. Len(files) : m[skip + i] = ContextEntry(files, i)
    <2>1. PICK skip \in {0, 1} : Lists(m, files, k, skip)
      BY ManifestFacts, Zenon
    <2> QED BY <2>1, Zenon DEF Lists
  <1>2. PICK n \in Nat : n = Len(files)
    BY <1>1, Zenon
  <1>3. DOMAIN m = 1 .. skip + n
    BY <1>1, <1>2, Zenon
  <1>4. \A i \in 1 .. skip + n : \/ skip = 1 /\ i = 1
                                 \/ \E j \in 1 .. n : i = skip + j
    <2> SUFFICES ASSUME NEW i \in 1 .. skip + n, ~ (skip = 1 /\ i = 1)
                 PROVE  \E j \in 1 .. n : i = skip + j
      BY Zenon
    <2>1. i - skip \in 1 .. n /\ i = skip + (i - skip)
      BY SMT
    <2> QED BY <2>1, Zenon
  <1>5. ASSUME NEW i \in DOMAIN m
        PROVE  \/ k = "panic" /\ skip = 1 /\ i = 1 /\ m[i] = SdkConfig
               \/ \E j \in 1 .. n : i = skip + j /\ m[i] = ContextEntry(files, j)
    <2>1. CASE skip = 1 /\ i = 1
      BY <1>1, <2>1, Zenon
    <2>2. CASE \E j \in 1 .. n : i = skip + j
      <3>1. PICK j \in 1 .. n : i = skip + j
        BY <2>2, Zenon
      <3>2. m[skip + j] = ContextEntry(files, j)
        BY <1>1, <1>2, Zenon
      <3> QED BY <3>1, <3>2, Zenon
    <2> QED BY <1>3, <1>4, <2>1, <2>2, Zenon
  <1>6. SdkConfig.key = <<"sdk-config", 0>> /\ \A j : ContextEntry(files, j).key = <<"context", j>>
    BY Zenon DEF SdkConfig, ContextEntry
  <1>7. \A j, l : <<"context", j>> = <<"context", l>> => j = l
    BY SMT
  <1>8. \A j : <<"context", j>> # <<"sdk-config", 0>>
    BY SMT
  <1>9. \A i, j \in DOMAIN m : m[i].key = m[j].key => i = j
    <2> SUFFICES ASSUME NEW i \in DOMAIN m, NEW j \in DOMAIN m, m[i].key = m[j].key
                 PROVE  i = j
      BY Zenon
    <2>1. CASE i = 1 /\ m[i] = SdkConfig
      <3>1. CASE j = 1
        BY <2>1, <3>1, Zenon
      <3>2. CASE \E l \in 1 .. n : m[j] = ContextEntry(files, l)
        BY <2>1, <3>2, <1>6, <1>8, Zenon
      <3> QED BY <3>1, <3>2, <1>5, Zenon
    <2>2. CASE \E l \in 1 .. n : i = skip + l /\ m[i] = ContextEntry(files, l)
      <3>1. CASE m[j] = SdkConfig
        BY <2>2, <3>1, <1>6, <1>8, Zenon
      <3>2. CASE \E l \in 1 .. n : j = skip + l /\ m[j] = ContextEntry(files, l)
        <4>1. PICK l \in 1 .. n : i = skip + l /\ m[i] = ContextEntry(files, l)
          BY <2>2, Zenon
        <4>2. PICK o \in 1 .. n : j = skip + o /\ m[j] = ContextEntry(files, o)
          BY <3>2, Zenon
        <4>3. l = o
          <5>1. m[i].key = <<"context", l>>
            BY <4>1, <1>6, Zenon
          <5>2. m[j].key = <<"context", o>>
            BY <4>2, <1>6, Zenon
          <5>3. <<"context", l>> = <<"context", o>>
            BY <5>1, <5>2, Zenon
          <5> QED BY <5>3, SMT
        <4> QED BY <4>1, <4>2, <4>3, Zenon
      <3> QED BY <3>1, <3>2, <1>5, Zenon
    <2> QED BY <2>1, <2>2, <1>5, Zenon
  <1>10. skip = 1 => 1 \in 1 .. skip + n
    BY SMT
  <1>11. \A j \in 1 .. n : skip + j \in 1 .. skip + n
    BY SMT
  <1> QED BY <1>1, <1>2, <1>3, <1>5, <1>9, <1>10, <1>11, Zenon DEF IsManifest

\* The spool entry is what the hook wrote for its context files.
SpoolOK ==
    context # None =>
        /\ context \in ContextLists /\ kind \in {"panic", "minidump"}
        /\ dir = Left(Writes(context))
        /\ manifest = ManifestOf(context, kind)

\* A list of context files is a sequence of files.
LEMMA ContextFiles ==
  ASSUME NEW files \in ContextLists
  PROVE  files \in Seq(File)
BY CrashUploadAssumption, Zenon DEF File

\* What the entry yields: the dump under its name, something of what was
\* written under every name of the manifest.
LEMMA DirFacts ==
  ASSUME NEW files \in Seq(File), NEW k, NEW m, IsManifest(m, files, k)
  PROVE  /\ Left(Writes(files))["dump.bin"] = "dump"
         /\ Left(Writes(files))["sdk-config.json"] = "config"
         /\ \A i \in DOMAIN m : Left(Writes(files))[m[i].filename] \in Data
  <1>1. PICK w : w = Writes(files)
    BY Zenon
  <1>2. PICK n \in Nat : n = Len(files)
    BY WritesFacts, Zenon
  <1>3. /\ DOMAIN w = 1 .. n + 3 /\ DOMAIN files = 1 .. n
        /\ \A i \in 1 .. n : w[i] = files[i]
        /\ w[n + 1].data = "metadata"
        /\ w[n + 2].name = "dump.bin" /\ w[n + 2].data = "dump"
        /\ w[n + 3].name = "sdk-config.json" /\ w[n + 3].data = "config"
    BY <1>1, <1>2, WritesFacts, Zenon
  <1>4. \A i \in 1 .. n + 3 : i \in 1 .. n \/ i = n + 1 \/ i = n + 2 \/ i = n + 3
    BY SMT
  <1>5. n + 2 \in 1 .. n + 3 /\ n + 3 \in 1 .. n + 3 /\ n + 3 \in Nat /\ 1 .. n + 3 \subseteq Nat
    BY SMT
  <1>6. \A i \in 1 .. n + 3 : i <= n + 3 /\ (i <= n + 2 \/ i = n + 3)
    BY SMT
  <1>7. Left(w)["dump.bin"] = "dump"
    <2>1. w[n + 3].name # w[n + 2].name
      BY <1>3
    <2>2. \A j \in DOMAIN w : w[j].name = w[n + 2].name => j <= n + 2
      BY <1>3, <1>6, <2>1, Zenon
    <2>3. Left(w)[w[n + 2].name] = w[n + 2].data
      BY <1>3, <1>5, <2>2, LeftIs, ZenonT(40)
    <2> QED BY <1>3, <2>3, Zenon
  <1>8. Left(w)["sdk-config.json"] = "config"
    <2>2. \A j \in DOMAIN w : w[j].name = w[n + 3].name => j <= n + 3
      BY <1>3, <1>6, Zenon
    <2>3. Left(w)[w[n + 3].name] = w[n + 3].data
      BY <1>3, <1>5, <2>2, LeftIs, ZenonT(40)
    <2> QED BY <1>3, <2>3, Zenon
  <1>9. \A i \in DOMAIN w : w[i].data \in Data
    <2>1. \A i \in 1 .. n : files[i].data \in Data
      <3>1. \A i \in 1 .. n : files[i] \in File
        BY <1>3
      <3> QED BY <3>1, Zenon DEF File
    <2>2. "metadata" \in Data /\ "dump" \in Data /\ "config" \in Data
      BY Zenon DEF Data
    <2>3. \A i \in 1 .. n : w[i].data \in Data
      BY <1>3, <2>1, Zenon
    <2>4. w[n + 1].data \in Data /\ w[n + 2].data \in Data /\ w[n + 3].data \in Data
      BY <1>3, <2>2, Zenon
    <2> QED BY <1>3, <1>4, <2>3, <2>4, Zenon
  <1>10. ASSUME NEW i \in DOMAIN m PROVE \E x \in DOMAIN w : w[x].name = m[i].filename
    <2>1. CASE m[i] = SdkConfig
      <3>1. m[i].filename = "sdk-config.json"
        BY <2>1, EntryFields, Zenon
      <3> QED BY <3>1, <1>3, <1>5, Zenon
    <2>2. CASE \E j \in 1 .. n : m[i] = ContextEntry(files, j)
      <3>1. PICK j \in 1 .. n : m[i] = ContextEntry(files, j)
        BY <2>2, Zenon
      <3>2. m[i].filename = files[j].name
        BY <3>1, EntryFields, Zenon
      <3>3. j \in 1 .. n + 3
        BY SMT
      <3> QED BY <3>2, <3>3, <1>3, Zenon
    <2>3. m[i] = SdkConfig \/ \E j \in 1 .. Len(files) : m[i] = ContextEntry(files, j)
      BY Zenon DEF IsManifest
    <2> QED BY <2>1, <2>2, <2>3, <1>2, Zenon
  <1>11. ASSUME NEW i \in DOMAIN m PROVE Left(w)[m[i].filename] \in Data
    <2>1. PICK x \in DOMAIN w : w[x].name = m[i].filename
      BY <1>10, Zenon
    <2>2. n + 3 \in Nat
      BY <1>5, Zenon
    <2>3. \E y \in DOMAIN w : w[y].name = w[x].name /\ Left(w)[w[x].name] = w[y].data
      <3>1. DOMAIN w = 1 .. n + 3
        BY <1>3, Zenon
      <3> QED BY <3>1, <2>2, LeftWasWritten, ZenonT(40)
    <2> QED BY <2>1, <2>3, <1>9, Zenon
  <1> QED BY <1>1, <1>7, <1>8, <1>11, Zenon

\* A body carries the report of an entry with manifest m and content d: its
\* dump, compressed, and every file of the manifest, so that it is decoded to
\* what is in the entry.
OurBody(body, m, d) ==
    /\ Len(m) \in Nat /\ DOMAIN m = 1 .. Len(m)
    /\ Len(body) = Len(m) + 2 /\ DOMAIN body = 1 .. Len(body)
    /\ body[1].name = "metadata" /\ body[2].name = "dump"
    /\ body[2].bytes.data = "dump" /\ body[2].bytes.level # 0 /\ body[2].encoding = "zstd"
    /\ \A i \in DOMAIN body : body[i].bytes \in Bytes /\ body[i].encoding \in Encodings
    /\ \A i \in DOMAIN m :
        /\ body[i + 2].name = "attach" /\ body[i + 2].key = m[i].key
        /\ Decoded(Pointer(body[i + 2])) = d[m[i].filename]

\* What the entry yields, from what the hook wrote.
LEMMA SpoolFacts ==
  ASSUME SpoolOK, context # None
  PROVE  /\ IsManifest(manifest, context, kind) /\ context \in Seq(File)
         /\ dir["dump.bin"] = "dump" /\ dir["sdk-config.json"] = "config"
         /\ \A i \in DOMAIN manifest : dir[manifest[i].filename] \in Data
         /\ \A i \in DOMAIN manifest : manifest[i].ctype = "application/json"
  <1>1. context \in Seq(File)
    BY ContextFiles, Zenon DEF SpoolOK
  <1>2. manifest = ManifestOf(context, kind) /\ dir = Left(Writes(context))
    BY Zenon DEF SpoolOK
  <1>3. IsManifest(manifest, context, kind)
    BY <1>1, <1>2, ManifestEntries, Zenon
  <1>4. /\ Left(Writes(context))["dump.bin"] = "dump"
        /\ Left(Writes(context))["sdk-config.json"] = "config"
        /\ \A i \in DOMAIN manifest : Left(Writes(context))[manifest[i].filename] \in Data
    BY <1>1, <1>3, DirFacts, Zenon
  <1>5. \A i \in DOMAIN manifest : manifest[i].ctype = "application/json"
    <2> TAKE i \in DOMAIN manifest
    <2>1. CASE manifest[i] = SdkConfig
      BY <2>1, EntryFields, Zenon
    <2>2. CASE \E j \in 1 .. Len(context) : manifest[i] = ContextEntry(context, j)
      BY <2>2, EntryFields, Zenon
    <2> QED BY <2>1, <2>2, <1>3, Zenon DEF IsManifest
  <1> QED BY <1>1, <1>2, <1>3, <1>4, <1>5, Zenon

\* The part of an attachment with content d.
AttachPart(key, ctype, zip, d, level) ==
    Part("attach", key, ctype, IF zip THEN "zstd" ELSE None,
         IF zip THEN Compress(Raw(d), level) ELSE Raw(d))

\* Compressed or not, it carries its key and is decoded to what was captured.
Carries(part, key, d) ==
    /\ part.name = "attach" /\ part.key = key /\ part.bytes \in Bytes /\ part.encoding \in Encodings
    /\ Decoded(Pointer(part)) = d

\* The parts of attachments do.
LEMMA AttachPartCarries ==
  ASSUME NEW d \in Data, NEW level \in Levels, NEW key, NEW ctype, NEW zip \in BOOLEAN
  PROVE  Carries(AttachPart(key, ctype, zip, d, level), key, d)
  <1>0. PICK part : part = AttachPart(key, ctype, zip, d, level)
    BY Zenon
  <1>1. level # 0 /\ None # "zstd"
    BY CrashUploadAssumption
  <1>2. "zstd" \in Encodings /\ None \in Encodings
    BY Zenon DEF Encodings
  <1>3. Raw(d) \in Bytes /\ Raw(d).data = d /\ Raw(d).level = 0
    BY Zenon DEF Raw, Bytes
  <1>4. Compress(Raw(d), level) \in Bytes /\ Compress(Raw(d), level).data = d /\ Compress(Raw(d), level).level = level
    BY Zenon DEF Raw, Bytes, Compress
  <1>5. /\ part.name = "attach" /\ part.key = key
        /\ part.encoding = (IF zip THEN "zstd" ELSE None)
        /\ part.bytes = (IF zip THEN Compress(Raw(d), level) ELSE Raw(d))
    BY <1>0, Zenon DEF Part, AttachPart
  <1>6. Pointer(part).sha = part.bytes /\ Pointer(part).encoding = part.encoding
    BY Zenon DEF Pointer
  <1>7. CASE zip
    <2>1. part.encoding = "zstd" /\ part.bytes = Compress(Raw(d), level)
      BY <1>5, <1>7, Zenon
    <2>2. Pointer(part).encoding = "zstd" /\ Pointer(part).sha.level # 0 /\ Pointer(part).sha.data = d
      BY <1>1, <1>4, <1>6, <2>1, Zenon
    <2>3. Decoded(Pointer(part)) = d
      BY <2>2, Zenon DEF Decoded
    <2> QED BY <2>1, <2>3, <1>0, <1>2, <1>4, <1>5, Zenon DEF Carries
  <1>8. CASE ~ zip
    <2>1. part.encoding = None /\ part.bytes = Raw(d)
      BY <1>5, <1>8, Zenon
    <2>2. Pointer(part).encoding # "zstd" /\ Pointer(part).sha.level = 0 /\ Pointer(part).sha.data = d
      BY <1>1, <1>3, <1>6, <2>1, Zenon
    <2>3. Decoded(Pointer(part)) = d
      BY <2>2, Zenon DEF Decoded
    <2> QED BY <2>1, <2>3, <1>0, <1>2, <1>3, <1>5, Zenon DEF Carries
  <1> QED BY <1>7, <1>8, Zenon

\* What post_envelope sends carries the report, at the level of its settings.
LEMMA WrittenIsOurs ==
  ASSUME SpoolOK, context # None, NEW config \in ShipConfigs, NEW body,
         body = WriteTo(ReadEnvelope, config)
  PROVE  OurBody(body, manifest, dir) /\ body[2].bytes.level = config.level
  <1>1. PICK n \in Nat : n = Len(manifest)
    BY SpoolFacts, Zenon DEF IsManifest
  <1>2. DOMAIN manifest = 1 .. n
    BY <1>1, SpoolFacts, Zenon DEF IsManifest
  <1>3. config.level \in Levels /\ config.attach \in BOOLEAN
    BY Zenon DEF ShipConfigs
  <1>4. PICK A : A = ReadEnvelope.attachments
    BY Zenon
  <1>5. A = [i \in 1 .. n |-> [key |-> manifest[i].key, ctype |-> manifest[i].ctype,
                               bytes |-> Raw(dir[manifest[i].filename])]]
    BY <1>1, <1>4, Zenon DEF ReadEnvelope
  <1>6. ReadEnvelope.dump = Raw("dump")
    BY SpoolFacts, Zenon DEF ReadEnvelope
  <1>7. DOMAIN A = 1 .. n
    BY <1>5, Zenon
  <1>8. ASSUME NEW i \in 1 .. n
        PROVE  /\ A[i] = [key |-> manifest[i].key, ctype |-> "application/json",
                          bytes |-> Raw(dir[manifest[i].filename])]
               /\ dir[manifest[i].filename] \in Data
    BY <1>2, <1>5, SpoolFacts, Zenon
  <1>9. ASSUME NEW i \in 1 .. n
        PROVE  /\ A[i].key = manifest[i].key /\ A[i].ctype = "application/json"
               /\ A[i].bytes = Raw(dir[manifest[i].filename])
    <2>1. PICK k, b : k = manifest[i].key /\ b = Raw(dir[manifest[i].filename])
      BY Zenon
    <2>2. A[i] = [key |-> k, ctype |-> "application/json", bytes |-> b]
      BY <1>8, <2>1, Zenon
    <2>3. A[i].key = k /\ A[i].ctype = "application/json" /\ A[i].bytes = b
      BY <2>2, SMT
    <2> QED BY <2>1, <2>3, Zenon
  <1>10. \A i, j \in DOMAIN A : A[i].key = A[j].key => i = j
    BY <1>2, <1>7, <1>9, SpoolFacts, Zenon DEF IsManifest
  <1>11. ASSUME NEW i \in 1 .. n
         PROVE  Encoding(A[i], config) = IF config.attach THEN "zstd" ELSE None
    BY <1>9, Zenon DEF Encoding, ShouldCompressContentType
  <1>12. PICK C : C = Compressed(A, config)
    BY Zenon
  <1>13. DOMAIN C = 1 .. n
    BY <1>7, <1>12, Zenon DEF Compressed
  <1>14. ASSUME NEW i \in 1 .. n
         PROVE  /\ C[i].key = manifest[i].key
                /\ C[i].bytes = IF config.attach
                                THEN Compress(Raw(dir[manifest[i].filename]), config.level)
                                ELSE Raw(dir[manifest[i].filename])
    <2>1. C[i] = IF Encoding(A[i], config) = "zstd"
                 THEN [A[i] EXCEPT !.bytes = Compress(A[i].bytes, config.level)]
                 ELSE A[i]
      BY <1>7, <1>10, <1>12, CompressedIs, ZenonT(40)
    <2>2. None # "zstd"
      BY CrashUploadAssumption, Zenon
    <2>3. A[i].bytes = Raw(dir[manifest[i].filename])
      BY <1>9, Zenon
    <2>4. CASE config.attach
      <3>1. C[i] = [A[i] EXCEPT !.bytes = Compress(A[i].bytes, config.level)]
        BY <2>1, <2>4, <1>11, Zenon
      <3>2. C[i].key = A[i].key /\ C[i].bytes = Compress(A[i].bytes, config.level)
        BY <3>1, <1>8, Zenon
      <3> QED BY <3>2, <2>3, <2>4, <1>9, Zenon
    <2>5. CASE ~ config.attach
      <3>1. C[i] = A[i]
        BY <2>1, <2>2, <2>5, <1>11, Zenon
      <3> QED BY <3>1, <2>3, <2>5, <1>9, Zenon
    <2> QED BY <2>4, <2>5, Zenon
  <1>15. PICK T : T = [i \in 1 .. n |-> Part("attach", C[i].key, C[i].ctype, Encoding(A[i], config), C[i].bytes)]
    BY Zenon
  <1>16. PICK p, q : /\ p = Part("metadata", None, "application/json", None, Raw("metadata"))
                     /\ q = Part("dump", None, "application/octet-stream", "zstd",
                                 Compress(ReadEnvelope.dump, config.level))
    BY Zenon
  <1>17. body = <<p, q>> \o T
    BY <1>4, <1>12, <1>13, <1>15, <1>16, Zenon DEF WriteTo
  <1>18. PICK S : S = {p, q} \cup {T[i] : i \in 1 .. n}
    BY Zenon
  <1>19. T \in Seq(S) /\ Len(T) = n
    <2>1. T \in [1 .. n -> S]
      BY <1>15, <1>18, Zenon
    <2> QED BY <2>1, SeqOf, Zenon
  <1>20. PICK s : s = <<p, q>>
    BY Zenon
  <1>21. s \in Seq(S)
    <2>1. p \in S /\ q \in S
      BY <1>18, Zenon
    <2> QED BY <1>20, <2>1
  <1>22. Len(s) = 2 /\ s[1] = p /\ s[2] = q /\ 1 \in 1 .. 2 /\ 2 \in 1 .. 2
    BY <1>20
  <1>23. /\ Len(body) = 2 + n /\ DOMAIN body = 1 .. 2 + n
         /\ body[1] = p /\ body[2] = q
         /\ \A i \in 1 .. n : body[2 + i] = T[i]
    <2>1. T \in Seq(S) /\ body = s \o T
      BY <1>17, <1>19, <1>20, Zenon
    <2>2. T \in Seq(S)
      BY <2>1, Zenon
    <2>3. body = s \o T
      BY <2>1, Zenon
    <2>4. /\ Len(body) = Len(s) + Len(T) /\ DOMAIN body = 1 .. Len(s) + Len(T)
          /\ \A i \in 1 .. Len(s) : body[i] = s[i]
          /\ \A i \in 1 .. Len(T) : body[Len(s) + i] = T[i]
      BY ONLY <1>21, <2>2, <2>3, ConcatFacts, SMT
    <2>5. /\ Len(body) = 2 + n /\ DOMAIN body = 1 .. 2 + n
      BY <2>4, <1>19, <1>22, Zenon
    <2>6. body[1] = s[1] /\ body[2] = s[2]
      BY <2>4, <1>22, Zenon
    <2>7. \A i \in 1 .. n : body[2 + i] = T[i]
      BY <2>4, <1>19, <1>22, Zenon
    <2> QED BY <2>5, <2>6, <2>7, <1>22, Zenon
  <1>24. /\ p.name = "metadata" /\ p.bytes \in Bytes /\ p.encoding \in Encodings
         /\ q.name = "dump" /\ q.bytes \in Bytes /\ q.encoding = "zstd" /\ q.encoding \in Encodings
         /\ q.bytes.data = "dump" /\ q.bytes.level = config.level /\ q.bytes.level # 0
    <2>1. "metadata" \in Data /\ "dump" \in Data
      BY Zenon DEF Data
    <2>2. Raw("metadata") \in Bytes
      BY <2>1, Zenon DEF Raw, Bytes
    <2>3. PICK d \in Data : d = "dump"
      BY <2>1, Zenon
    <2>4. /\ Compress(Raw(d), config.level) \in Bytes
          /\ Compress(Raw(d), config.level).data = d
          /\ Compress(Raw(d), config.level).level = config.level
      BY <1>3, Zenon DEF Raw, Bytes, Compress
    <2>5. "zstd" \in Encodings /\ None \in Encodings
      BY Zenon DEF Encodings
    <2>6. p.name = "metadata" /\ p.bytes = Raw("metadata") /\ p.encoding = None
      BY <1>16, Zenon DEF Part
    <2>7. q.name = "dump" /\ q.bytes = Compress(Raw(d), config.level) /\ q.encoding = "zstd"
      BY <1>6, <1>16, <2>3, Zenon DEF Part
    <2>8. config.level # 0
      BY <1>3, CrashUploadAssumption
    <2> QED BY <2>2, <2>3, <2>4, <2>5, <2>6, <2>7, <2>8, Zenon
  <1>25. ASSUME NEW i \in 1 .. n
         PROVE  /\ T[i].name = "attach" /\ T[i].key = manifest[i].key
                /\ T[i].bytes \in Bytes /\ T[i].encoding \in Encodings
                /\ Decoded(Pointer(T[i])) = dir[manifest[i].filename]
    <2>1. PICK d \in Data : d = dir[manifest[i].filename]
      BY <1>8, Zenon
    <2>2. T[i] = Part("attach", C[i].key, C[i].ctype, Encoding(A[i], config), C[i].bytes)
      BY <1>15, Zenon
    <2>3. /\ Encoding(A[i], config) = IF config.attach THEN "zstd" ELSE None
          /\ C[i].bytes = IF config.attach THEN Compress(Raw(d), config.level) ELSE Raw(d)
          /\ C[i].key = manifest[i].key
      BY <1>11, <1>14, <2>1, Zenon
    <2>4. T[i] = AttachPart(manifest[i].key, C[i].ctype, config.attach, d, config.level)
      BY <2>2, <2>3, Zenon DEF AttachPart
    <2>5. Carries(AttachPart(manifest[i].key, C[i].ctype, config.attach, d, config.level), manifest[i].key, d)
      BY <1>3, AttachPartCarries, Zenon
    <2>6. Carries(T[i], manifest[i].key, d)
      BY <2>4, <2>5, Zenon
    <2> QED BY <2>1, <2>6, Zenon DEF Carries
  <1>26. \A i \in 1 .. n : 2 + i = i + 2
    BY SMT
  <1>27. 2 + n = n + 2
    BY SMT
  <1>28. \A i \in 1 .. 2 + n : i = 1 \/ i = 2 \/ \E j \in 1 .. n : i = 2 + j
    <2> SUFFICES ASSUME NEW i \in 1 .. 2 + n, i # 1, i # 2
                 PROVE  \E j \in 1 .. n : i = 2 + j
      BY Zenon
    <2>1. i - 2 \in 1 .. n /\ i = 2 + (i - 2)
      BY SMT
    <2> QED BY <2>1, Zenon
  <1>29. ASSUME NEW i \in DOMAIN body PROVE body[i].bytes \in Bytes /\ body[i].encoding \in Encodings
    <2>1. CASE i = 1 \/ i = 2
      BY <2>1, <1>23, <1>24, Zenon
    <2>2. CASE \E j \in 1 .. n : i = 2 + j
      BY <2>2, <1>23, <1>25, ZenonT(40)
    <2> QED BY <2>1, <2>2, <1>23, <1>28, Zenon
  <1>30. ASSUME NEW i \in DOMAIN manifest
         PROVE  /\ body[i + 2].name = "attach" /\ body[i + 2].key = manifest[i].key
                /\ Decoded(Pointer(body[i + 2])) = dir[manifest[i].filename]
    <2>1. i \in 1 .. n /\ body[i + 2] = T[i]
      BY <1>2, <1>23, <1>26, Zenon
    <2> QED BY <2>1, <1>25, Zenon
  <1>31. Len(manifest) \in Nat /\ Len(body) = Len(manifest) + 2 /\ DOMAIN body = 1 .. Len(body)
    BY <1>1, <1>23, <1>27, Zenon
  <1>32. /\ body[1].name = "metadata" /\ body[2].name = "dump"
         /\ body[2].bytes.data = "dump" /\ body[2].bytes.level # 0 /\ body[2].encoding = "zstd"
         /\ body[2].bytes.level = config.level
    BY <1>23, <1>24, Zenon
  <1> QED BY <1>1, <1>2, <1>29, <1>30, <1>31, <1>32, Zenon DEF OurBody

-----------------------------------------------------------------------------
(* The handlers                                                            *)

\* A handler is a record with these fields.
IsHandler(r) ==
    r = [pc |-> r.pc, ours |-> r.ours, body |-> r.body, at |-> r.at, dump |-> r.dump,
         attachments |-> r.attachments]

\* A body that the handler can read through.
GoodBody(body) ==
    /\ Len(body) \in Nat \ {0} /\ DOMAIN body = 1 .. Len(body)
    /\ \A i \in DOMAIN body : body[i].bytes \in Bytes /\ body[i].encoding \in Encodings

AttachmentsOf(body) == {Attachment(body[i]) : i \in DOMAIN body}

\* How far it has come with the parts: what it has of an upload of ours is what
\* the parts before the next one carry.
Progress(r) ==
    /\ r.at \in Nat /\ 2 <= r.at /\ r.at <= Len(r.body) + 1 /\ r.body[1].name = "metadata"
    /\ r.attachments \in Seq(AttachmentsOf(r.body))
    /\ r.dump # None => \E i \in DOMAIN r.body : r.body[i].name = "dump" /\ r.dump = Pointer(r.body[i])
    /\ r.ours /\ r.at = 2 => r.dump = None /\ Len(r.attachments) = 0
    /\ r.ours /\ r.at > 2 => /\ r.dump = Pointer(r.body[2]) /\ Len(r.attachments) = r.at - 3
                             /\ \A i \in 1 .. r.at - 3 : r.attachments[i] = Attachment(r.body[i + 2])

\* A handler, when the entry is captured or not (c), its manifest is m, its
\* content d and the levels used are s.
RecOK(r, c, m, d, s) ==
    /\ IsHandler(r) /\ r.ours \in BOOLEAN
    /\ r.pc # "idle" => GoodBody(r.body)
    /\ r.ours => c /\ OurBody(r.body, m, d) /\ r.body[2].bytes.level \in s /\ r.pc # "rejected"
    /\ ~ r.ours => \A i \in DOMAIN r.body : r.body[i].name = "dump" => r.body[i].bytes.data = "other"
    /\ r.pc = "first" => r.dump = None /\ r.attachments = <<>>
    /\ r.pc \in {"parts", "fill", "created"} => Progress(r)
    /\ r.pc \in {"fill", "created"} => r.dump # None /\ r.at = Len(r.body) + 1

\* More levels do no harm.
LEMMA RecGrows ==
  ASSUME NEW r, NEW c, NEW m, NEW d, NEW s, NEW t, RecOK(r, c, m, d, s), s \subseteq t
  PROVE  RecOK(r, c, m, d, t)
BY Zenon DEF RecOK

\* A handler of another client's upload does not depend on the entry.
LEMMA RecOther ==
  ASSUME NEW r, NEW c, NEW m, NEW d, NEW s, NEW c2, NEW m2, NEW d2, NEW s2,
         RecOK(r, c, m, d, s), ~ c
  PROVE  RecOK(r, c2, m2, d2, s2) /\ ~ r.ours
BY Zenon DEF RecOK

\* A handler with these fields.
HasFields(q, p, o, b, a, e, t) ==
    /\ IsHandler(q) /\ q.pc = p /\ q.ours = o /\ q.body = b /\ q.at = a /\ q.dump = e
    /\ q.attachments = t

\* The fields after a change of pc.
LEMMA ToFields ==
  ASSUME NEW r, IsHandler(r), NEW x
  PROVE  HasFields([r EXCEPT !.pc = x], x, r.ours, r.body, r.at, r.dump, r.attachments)
  <1>1. PICK p, o, b, a, e, t : r = [pc |-> p, ours |-> o, body |-> b, at |-> a, dump |-> e, attachments |-> t]
    BY Zenon DEF IsHandler
  <1>2. PICK q : q = [r EXCEPT !.pc = x]
    BY Zenon
  <1>3. q = [pc |-> x, ours |-> o, body |-> b, at |-> a, dump |-> e, attachments |-> t]
    BY <1>1, <1>2, Zenon
  <1> QED BY <1>1, <1>2, <1>3, Zenon DEF IsHandler, HasFields

\* The fields after the first part.
LEMMA FirstFields ==
  ASSUME NEW r, IsHandler(r), NEW x, NEW n
  PROVE  HasFields([r EXCEPT !.pc = x, !.at = n], x, r.ours, r.body, n, r.dump, r.attachments)
  <1>1. PICK p, o, b, a, e, t : r = [pc |-> p, ours |-> o, body |-> b, at |-> a, dump |-> e, attachments |-> t]
    BY Zenon DEF IsHandler
  <1>2. PICK q : q = [r EXCEPT !.pc = x, !.at = n]
    BY Zenon
  <1>3. q = [pc |-> x, ours |-> o, body |-> b, at |-> n, dump |-> e, attachments |-> t]
    BY <1>1, <1>2, Zenon
  <1> QED BY <1>1, <1>2, <1>3, Zenon DEF IsHandler, HasFields

\* The fields after a dump part.
LEMMA DumpFields ==
  ASSUME NEW r, IsHandler(r), NEW n, NEW x
  PROVE  HasFields([r EXCEPT !.at = n, !.dump = x], r.pc, r.ours, r.body, n, x, r.attachments)
  <1>1. PICK p, o, b, a, e, t : r = [pc |-> p, ours |-> o, body |-> b, at |-> a, dump |-> e, attachments |-> t]
    BY Zenon DEF IsHandler
  <1>2. PICK q : q = [r EXCEPT !.at = n, !.dump = x]
    BY Zenon
  <1>3. q = [pc |-> p, ours |-> o, body |-> b, at |-> n, dump |-> x, attachments |-> t]
    BY <1>1, <1>2, Zenon
  <1> QED BY <1>1, <1>2, <1>3, Zenon DEF IsHandler, HasFields

\* The fields after an attachment.
LEMMA AttachFields ==
  ASSUME NEW r, IsHandler(r), NEW n, NEW x
  PROVE  HasFields([r EXCEPT !.at = n, !.attachments = x], r.pc, r.ours, r.body, n, r.dump, x)
  <1>1. PICK p, o, b, a, e, t : r = [pc |-> p, ours |-> o, body |-> b, at |-> a, dump |-> e, attachments |-> t]
    BY Zenon DEF IsHandler
  <1>2. PICK q : q = [r EXCEPT !.at = n, !.attachments = x]
    BY Zenon
  <1>3. q = [pc |-> p, ours |-> o, body |-> b, at |-> n, dump |-> e, attachments |-> x]
    BY <1>1, <1>2, Zenon
  <1> QED BY <1>1, <1>2, <1>3, Zenon DEF IsHandler, HasFields

\* The fields of an idle handler.
LEMMA IdleFields == HasFields(Idle, "idle", FALSE, <<>>, 0, None, <<>>)
BY Zenon DEF IsHandler, Idle, HasFields

\* The fields of a handler at its start.
LEMMA StartFields ==
  ASSUME NEW b
  PROVE  /\ HasFields([Idle EXCEPT !.pc = "first", !.ours = TRUE, !.body = b],
                      "first", TRUE, b, 0, None, <<>>)
         /\ HasFields([Idle EXCEPT !.pc = "first", !.body = b], "first", FALSE, b, 0, None, <<>>)
  <1>1. PICK q : q = [Idle EXCEPT !.pc = "first", !.ours = TRUE, !.body = b]
    BY Zenon
  <1>2. q = [pc |-> "first", ours |-> TRUE, body |-> b, at |-> 0, dump |-> None, attachments |-> <<>>]
    BY <1>1, Zenon DEF Idle
  <1>3. PICK u : u = [Idle EXCEPT !.pc = "first", !.body = b]
    BY Zenon
  <1>4. u = [pc |-> "first", ours |-> FALSE, body |-> b, at |-> 0, dump |-> None, attachments |-> <<>>]
    BY <1>3, Zenon DEF Idle
  <1>5. HasFields(q, "first", TRUE, b, 0, None, <<>>)
    BY <1>2, Zenon DEF IsHandler, HasFields
  <1>6. HasFields(u, "first", FALSE, b, 0, None, <<>>)
    BY <1>4, Zenon DEF IsHandler, HasFields
  <1> QED BY <1>1, <1>3, <1>5, <1>6, Zenon

\* Progress is about these fields only.
LEMMA ProgressSame ==
  ASSUME NEW r, NEW q, Progress(r), q.ours = r.ours, q.body = r.body, q.at = r.at,
         q.dump = r.dump, q.attachments = r.attachments
  PROVE  Progress(q)
BY ZenonT(40) DEF Progress

\* An idle handler.
LEMMA IdleOK ==
  ASSUME NEW c, NEW m, NEW d, NEW s
  PROVE  RecOK(Idle, c, m, d, s)
  <1>1. DOMAIN <<>> = {}
    OBVIOUS
  <1>2. "idle" # "first" /\ "idle" \notin {"parts", "fill", "created"} /\ "idle" \notin {"fill", "created"}
    OBVIOUS
  <1> QED BY <1>1, <1>2, IdleFields, Zenon DEF RecOK, HasFields

\* A body of ours can be read through.
LEMMA OurBodyIsGood ==
  ASSUME NEW body, NEW m, NEW d, OurBody(body, m, d)
  PROVE  GoodBody(body)
  <1>1. Len(m) \in Nat /\ Len(body) = Len(m) + 2
    BY Zenon DEF OurBody
  <1>2. Len(body) \in Nat \ {0}
    BY <1>1, SMT
  <1> QED BY <1>2, Zenon DEF OurBody, GoodBody

\* An upload of ours starts.
LEMMA PostOK ==
  ASSUME NEW m, NEW d, NEW s, NEW body, OurBody(body, m, d), body[2].bytes.level \in s,
         NEW q, q = [Idle EXCEPT !.pc = "first", !.ours = TRUE, !.body = body]
  PROVE  RecOK(q, TRUE, m, d, s)
  <1>0. HasFields(q, "first", TRUE, body, 0, None, <<>>)
    BY StartFields, Zenon
  <1>1. /\ IsHandler(q) /\ q.pc = "first" /\ q.ours = TRUE /\ q.body = body
        /\ q.dump = None /\ q.attachments = <<>>
    BY <1>0, Zenon DEF HasFields
  <1>2. "first" # "rejected" /\ "first" \notin {"parts", "fill", "created"} /\ "first" \notin {"fill", "created"}
    OBVIOUS
  <1>3. GoodBody(body)
    BY OurBodyIsGood, Zenon
  <1> QED BY <1>1, <1>2, <1>3, Zenon DEF RecOK

\* Another client's upload starts.
LEMMA PostOtherOK ==
  ASSUME NEW c, NEW m, NEW d, NEW s, NEW body \in OtherBodies,
         NEW q, q = [Idle EXCEPT !.pc = "first", !.body = body]
  PROVE  RecOK(q, c, m, d, s)
  <1>0. HasFields(q, "first", FALSE, body, 0, None, <<>>)
    BY StartFields, Zenon
  <1>1. /\ IsHandler(q) /\ q.pc = "first" /\ q.ours = FALSE /\ q.body = body
        /\ q.dump = None /\ q.attachments = <<>>
    BY <1>0, Zenon DEF HasFields
  <1>2. "first" # "rejected" /\ "first" \notin {"parts", "fill", "created"} /\ "first" \notin {"fill", "created"}
    OBVIOUS
  <1>3. body # <<>> /\ body \in Seq(Range(body))
    BY CrashUploadAssumption, Zenon
  <1>4. Len(body) \in Nat \ {0} /\ DOMAIN body = 1 .. Len(body)
    BY <1>3, SMT
  <1>5. \A i \in DOMAIN body : body[i] \in Range(body)
    BY Zenon DEF Range
  <1>6. \A i \in DOMAIN body :
            body[i].bytes \in Bytes /\ (body[i].name = "dump" => body[i].bytes.data = "other")
    BY <1>5, CrashUploadAssumption, Zenon
  <1>7. \A i \in DOMAIN body : body[i].encoding \in Encodings
    BY <1>5, Zenon DEF Encodings
  <1>8. GoodBody(body)
    BY <1>4, <1>6, <1>7, Zenon DEF GoodBody
  <1> QED BY <1>1, <1>2, <1>6, <1>8, Zenon DEF RecOK

\* A handler fails, or answers that a part is too large.
LEMMA FailedOK ==
  ASSUME NEW c, NEW m, NEW d, NEW s, NEW r, RecOK(r, c, m, d, s), r.pc # "idle",
         NEW x \in {"failed", "toolarge"}, NEW q, q = [r EXCEPT !.pc = x]
  PROVE  RecOK(q, c, m, d, s)
  <1>0. HasFields(q, x, r.ours, r.body, r.at, r.dump, r.attachments)
    <2>1. IsHandler(r)
      BY Zenon DEF RecOK
    <2> QED BY <2>1, ToFields, Zenon
  <1>1. /\ IsHandler(q) /\ q.pc = x /\ q.ours = r.ours /\ q.body = r.body
        /\ q.dump = r.dump /\ q.attachments = r.attachments
    BY <1>0, Zenon DEF HasFields
  <1>2. x # "rejected" /\ x # "first" /\ x \notin {"parts", "fill", "created"}
        /\ x \notin {"fill", "created"}
    OBVIOUS
  <1> QED BY <1>1, <1>2, ZenonT(40) DEF RecOK

\* It rejects another client's upload.
LEMMA RejectedOK ==
  ASSUME NEW c, NEW m, NEW d, NEW s, NEW r, RecOK(r, c, m, d, s), r.pc # "idle", ~ r.ours,
         NEW q, q = [r EXCEPT !.pc = "rejected"]
  PROVE  RecOK(q, c, m, d, s)
  <1>0. HasFields(q, "rejected", r.ours, r.body, r.at, r.dump, r.attachments)
    <2>1. IsHandler(r)
      BY Zenon DEF RecOK
    <2> QED BY <2>1, ToFields, Zenon
  <1>1. /\ IsHandler(q) /\ q.pc = "rejected" /\ q.ours = r.ours /\ q.body = r.body
        /\ q.dump = r.dump /\ q.attachments = r.attachments
    BY <1>0, Zenon DEF HasFields
  <1>2. "rejected" # "first" /\ "rejected" \notin {"parts", "fill", "created"}
        /\ "rejected" \notin {"fill", "created"}
    OBVIOUS
  <1> QED BY <1>1, <1>2, ZenonT(40) DEF RecOK

\* The metadata part is taken.
LEMMA FirstPartOK ==
  ASSUME NEW c, NEW m, NEW d, NEW s, NEW r, RecOK(r, c, m, d, s), r.pc = "first",
         r.body[1].name = "metadata", NEW q, q = [r EXCEPT !.pc = "parts", !.at = 2]
  PROVE  RecOK(q, c, m, d, s)
  <1>0. HasFields(q, "parts", r.ours, r.body, 2, r.dump, r.attachments)
    <2>1. IsHandler(r)
      BY Zenon DEF RecOK
    <2> QED BY <2>1, FirstFields, Zenon
  <1>1. /\ IsHandler(q) /\ q.pc = "parts" /\ q.ours = r.ours /\ q.body = r.body /\ q.at = 2
        /\ q.dump = r.dump /\ q.attachments = r.attachments
    BY <1>0, Zenon DEF HasFields
  <1>2. "parts" # "rejected" /\ "parts" # "first" /\ "parts" # "idle" /\ "first" # "idle"
        /\ "parts" \in {"parts", "fill", "created"} /\ "parts" \notin {"fill", "created"}
    OBVIOUS
  <1>3. r.dump = None /\ r.attachments = <<>> /\ GoodBody(r.body)
    BY <1>2, Zenon DEF RecOK
  <1>4. 2 \in Nat /\ 2 <= 2 /\ 2 <= Len(r.body) + 1 /\ ~ (2 > 2)
    <2>1. Len(r.body) \in Nat \ {0}
      BY <1>3, Zenon DEF GoodBody
    <2> QED BY <2>1, SMT
  <1>5. \A S : <<>> \in Seq(S) /\ Len(<<>>) = 0
    OBVIOUS
  <1>6. Progress(q)
    BY <1>1, <1>3, <1>4, <1>5, Zenon DEF Progress
  <1> QED BY <1>1, <1>2, <1>3, <1>6, ZenonT(40) DEF RecOK

\* The index is opened, and then filled.
LEMMA FillOK ==
  ASSUME NEW c, NEW m, NEW d, NEW s, NEW r, RecOK(r, c, m, d, s), NEW x,
         \/ r.pc = "parts" /\ x = "fill" /\ r.dump # None /\ r.at > Len(r.body)
         \/ r.pc = "fill" /\ x = "created",
         NEW q, q = [r EXCEPT !.pc = x]
  PROVE  RecOK(q, c, m, d, s)
  <1>0. HasFields(q, x, r.ours, r.body, r.at, r.dump, r.attachments)
    <2>1. IsHandler(r)
      BY Zenon DEF RecOK
    <2> QED BY <2>1, ToFields, Zenon
  <1>1. /\ IsHandler(q) /\ q.pc = x /\ q.ours = r.ours /\ q.body = r.body /\ q.at = r.at
        /\ q.dump = r.dump /\ q.attachments = r.attachments
    BY <1>0, Zenon DEF HasFields
  <1>2. x \in {"fill", "created"} /\ x # "rejected" /\ x # "first" /\ x # "idle" /\ x \in {"parts", "fill", "created"}
    OBVIOUS
  <1>3. r.pc \in {"parts", "fill"} /\ r.pc \in {"parts", "fill", "created"} /\ r.pc # "idle"
    OBVIOUS
  <1>4. GoodBody(r.body) /\ Progress(r)
    BY <1>3, Zenon DEF RecOK
  <1>5. r.dump # None /\ r.at = Len(r.body) + 1
    <2>1. CASE r.pc = "fill"
      BY <2>1, Zenon DEF RecOK
    <2>2. CASE r.dump # None /\ r.at > Len(r.body)
      <3>1. Len(r.body) \in Nat /\ r.at \in Nat /\ r.at <= Len(r.body) + 1
        BY <1>4, Zenon DEF GoodBody, Progress
      <3> QED BY <3>1, <2>2, SMT
    <2> QED BY <2>1, <2>2, Zenon
  <1>6. Progress(q)
    BY <1>1, <1>4, ProgressSame, Zenon
  <1> QED BY <1>1, <1>2, <1>4, <1>5, <1>6, ZenonT(40) DEF RecOK

\* The pieces of Progress for a handler that is still at the parts.
LEMMA PartsFacts ==
  ASSUME NEW c, NEW m, NEW d, NEW s, NEW r, RecOK(r, c, m, d, s), r.pc = "parts",
         r.at <= Len(r.body)
  PROVE  /\ IsHandler(r) /\ r.ours \in BOOLEAN /\ Progress(r) /\ GoodBody(r.body) /\ r.at \in Nat
         /\ Len(r.body) \in Nat /\ r.at \in DOMAIN r.body
  <1>1. "parts" \in {"parts", "fill", "created"} /\ "parts" # "idle"
    OBVIOUS
  <1>2. IsHandler(r) /\ r.ours \in BOOLEAN /\ Progress(r) /\ GoodBody(r.body)
    BY <1>1, Zenon DEF RecOK
  <1>3. r.at \in Nat /\ 2 <= r.at /\ Len(r.body) \in Nat /\ DOMAIN r.body = 1 .. Len(r.body)
    BY <1>2, Zenon DEF Progress, GoodBody
  <1>4. r.at \in 1 .. Len(r.body)
    BY <1>3, SMT
  <1> QED BY <1>2, <1>3, <1>4, Zenon

\* The handler expects the part that comes next in a body of ours.
LEMMA OurNextPart ==
  ASSUME NEW c, NEW m, NEW d, NEW s, NEW r, RecOK(r, c, m, d, s), r.pc = "parts",
         r.at <= Len(r.body), r.ours
  PROVE  \/ r.at = 2 /\ r.body[r.at].name = "dump" /\ r.dump = None
         \/ r.at > 2 /\ r.body[r.at].name = "attach"
  <1>1. Progress(r) /\ r.at \in Nat /\ Len(r.body) \in Nat /\ OurBody(r.body, m, d)
    BY PartsFacts, Zenon DEF RecOK
  <1>2. 2 <= r.at
    BY <1>1, Zenon DEF Progress
  <1>3. CASE r.at = 2
    BY <1>1, <1>3, Zenon DEF Progress, OurBody
  <1>4. CASE r.at > 2
    <2>1. Len(m) \in Nat /\ Len(r.body) = Len(m) + 2 /\ DOMAIN m = 1 .. Len(m)
      BY <1>1, Zenon DEF OurBody
    <2>2. r.at - 2 \in 1 .. Len(m) /\ (r.at - 2) + 2 = r.at
      BY <1>1, <1>4, <2>1, SMT
    <2>3. r.body[(r.at - 2) + 2].name = "attach"
      BY <1>1, <2>1, <2>2, Zenon DEF OurBody
    <2> QED BY <1>4, <2>2, <2>3, Zenon
  <1>5. r.at = 2 \/ r.at > 2
    BY <1>1, <1>2, SMT
  <1> QED BY <1>3, <1>4, <1>5, Zenon

\* What a pointer says.
LEMMA PointerFields == \A part : Pointer(part).sha = part.bytes /\ Pointer(part).encoding = part.encoding
BY Zenon DEF Pointer

\* A pointer to a part is not None.
LEMMA PointerFacts ==
  ASSUME NEW body, GoodBody(body), NEW i \in DOMAIN body
  PROVE  /\ Pointer(body[i]) \in Pointers /\ Pointer(body[i]) # None
         /\ Pointer(body[i]).sha = body[i].bytes /\ Pointer(body[i]).encoding = body[i].encoding
  <1>1. body[i].bytes \in Bytes /\ body[i].encoding \in Encodings
    BY Zenon DEF GoodBody
  <1>2. Pointer(body[i]) \in Pointers
    BY <1>1, Zenon DEF Pointer, Pointers
  <1>3. None \notin Pointers
    BY CrashUploadAssumption, Zenon
  <1> QED BY <1>2, <1>3, Zenon DEF Pointer

\* A dump part is taken.
LEMMA DumpPartOK ==
  ASSUME NEW c, NEW m, NEW d, NEW s, NEW r, RecOK(r, c, m, d, s), r.pc = "parts",
         r.at <= Len(r.body), r.body[r.at].name = "dump", r.dump = None,
         NEW q, q = [r EXCEPT !.at = r.at + 1, !.dump = Pointer(r.body[r.at])]
  PROVE  RecOK(q, c, m, d, s)
  <1>1. /\ IsHandler(r) /\ r.ours \in BOOLEAN /\ Progress(r) /\ GoodBody(r.body) /\ r.at \in Nat
        /\ Len(r.body) \in Nat /\ r.at \in DOMAIN r.body
    BY PartsFacts, Zenon
  <1>2. HasFields(q, r.pc, r.ours, r.body, r.at + 1, Pointer(r.body[r.at]), r.attachments)
    BY <1>1, DumpFields, Zenon
  <1>3. /\ IsHandler(q) /\ q.pc = "parts" /\ q.ours = r.ours /\ q.body = r.body /\ q.at = r.at + 1
        /\ q.dump = Pointer(r.body[r.at]) /\ q.attachments = r.attachments
    BY <1>2, Zenon DEF HasFields
  <1>4. "parts" # "rejected" /\ "parts" # "first" /\ "parts" # "idle" /\ "parts" \notin {"fill", "created"}
    OBVIOUS
  <1>5. /\ r.at + 1 \in Nat /\ 2 <= r.at + 1 /\ r.at + 1 <= Len(r.body) + 1 /\ r.at + 1 # 2
    <2>1. 2 <= r.at
      BY <1>1, Zenon DEF Progress
    <2> QED BY <1>1, <2>1, SMT
  <1>6. r.body[1].name = "metadata" /\ r.attachments \in Seq(AttachmentsOf(r.body))
    BY <1>1, Zenon DEF Progress
  <1>7. ASSUME r.ours
        PROVE  /\ q.dump = Pointer(r.body[2]) /\ Len(r.attachments) = (r.at + 1) - 3
               /\ \A i \in 1 .. (r.at + 1) - 3 : r.attachments[i] = Attachment(r.body[i + 2])
    <2>1. r.at = 2
      <3>1. "dump" # "attach"
        OBVIOUS
      <3> QED BY <1>7, <3>1, OurNextPart, Zenon
    <2>2. Len(r.attachments) = 0
      BY <1>1, <1>7, <2>1, Zenon DEF Progress
    <2>3. (r.at + 1) - 3 = 0 /\ 1 .. 0 = {}
      BY <2>1, SMT
    <2> QED BY <1>3, <2>1, <2>2, <2>3, Zenon
  <1>70. \E i \in DOMAIN q.body : q.body[i].name = "dump" /\ q.dump = Pointer(q.body[i])
    BY <1>1, <1>3, Zenon
  <1>71. q.at \in Nat /\ 2 <= q.at /\ q.at <= Len(q.body) + 1 /\ q.at # 2
    BY <1>3, <1>5, Zenon
  <1>72. q.body[1].name = "metadata" /\ q.attachments \in Seq(AttachmentsOf(q.body))
    BY <1>3, <1>6, Zenon
  <1>73. q.ours => /\ q.dump = Pointer(q.body[2]) /\ Len(q.attachments) = q.at - 3
                   /\ \A i \in 1 .. q.at - 3 : q.attachments[i] = Attachment(q.body[i + 2])
    BY <1>3, <1>7, ZenonT(40)
  <1>8. Progress(q)
    BY <1>70, <1>71, <1>72, <1>73, Zenon DEF Progress
  <1> QED BY <1>1, <1>3, <1>4, <1>8, ZenonT(40) DEF RecOK

\* Appending, for any set of elements.
LEMMA AppendIs ==
  ASSUME NEW S, NEW t \in Seq(S), NEW x \in S, NEW u, u = Append(t, x)
  PROVE  /\ u \in Seq(S) /\ Len(u) = Len(t) + 1 /\ Len(t) \in Nat /\ DOMAIN t = 1 .. Len(t)
         /\ DOMAIN u = 1 .. Len(t) + 1
         /\ \A i \in 1 .. Len(t) : u[i] = t[i]
         /\ u[Len(t) + 1] = x
OBVIOUS

\* An attachment is taken.
LEMMA AttachPartOK ==
  ASSUME NEW c, NEW m, NEW d, NEW s, NEW r, RecOK(r, c, m, d, s), r.pc = "parts",
         r.at <= Len(r.body), r.body[r.at].name = "attach",
         NEW q, q = [r EXCEPT !.at = r.at + 1,
                              !.attachments = Append(r.attachments, Attachment(r.body[r.at]))]
  PROVE  RecOK(q, c, m, d, s)
  <1>1. /\ IsHandler(r) /\ r.ours \in BOOLEAN /\ Progress(r) /\ GoodBody(r.body) /\ r.at \in Nat
        /\ Len(r.body) \in Nat /\ r.at \in DOMAIN r.body
    BY PartsFacts, Zenon
  <1>2. PICK u : u = Append(r.attachments, Attachment(r.body[r.at]))
    BY Zenon
  <1>20. HasFields(q, r.pc, r.ours, r.body, r.at + 1, r.dump, u)
    BY <1>1, <1>2, AttachFields, Zenon
  <1>3. /\ IsHandler(q) /\ q.pc = "parts" /\ q.ours = r.ours /\ q.body = r.body /\ q.at = r.at + 1
        /\ q.dump = r.dump /\ q.attachments = u
    BY <1>20, Zenon DEF HasFields
  <1>4. "parts" # "rejected" /\ "parts" # "first" /\ "parts" # "idle" /\ "parts" \notin {"fill", "created"}
    OBVIOUS
  <1>5. /\ r.at + 1 \in Nat /\ 2 <= r.at + 1 /\ r.at + 1 <= Len(r.body) + 1 /\ r.at + 1 # 2
    <2>1. 2 <= r.at
      BY <1>1, Zenon DEF Progress
    <2> QED BY <1>1, <2>1, SMT
  <1>6. r.body[1].name = "metadata" /\ r.attachments \in Seq(AttachmentsOf(r.body))
    BY <1>1, Zenon DEF Progress
  <1>60. PICK S, t, x : S = AttachmentsOf(r.body) /\ t = r.attachments /\ x = Attachment(r.body[r.at])
    BY Zenon
  <1>61. t \in Seq(S) /\ x \in S /\ u = Append(t, x)
    BY <1>1, <1>2, <1>6, <1>60, Zenon DEF AttachmentsOf
  <1>62. /\ u \in Seq(S) /\ Len(u) = Len(t) + 1 /\ Len(t) \in Nat
         /\ \A i \in 1 .. Len(t) : u[i] = t[i]
         /\ u[Len(t) + 1] = x
    BY <1>61, AppendIs, SMT
  <1>7. ASSUME r.ours
        PROVE  /\ r.dump = Pointer(r.body[2]) /\ Len(u) = (r.at + 1) - 3
               /\ \A i \in 1 .. (r.at + 1) - 3 : u[i] = Attachment(r.body[i + 2])
    <2>1. r.at > 2
      <3>1. "dump" # "attach"
        OBVIOUS
      <3> QED BY <1>7, <3>1, OurNextPart, Zenon
    <2>2. /\ r.dump = Pointer(r.body[2]) /\ Len(t) = r.at - 3
          /\ \A i \in 1 .. r.at - 3 : t[i] = Attachment(r.body[i + 2])
      BY <1>1, <1>7, <1>60, <2>1, Zenon DEF Progress
    <2>3. (r.at - 3) + 1 = (r.at + 1) - 3 /\ ((r.at - 3) + 1) + 2 = r.at
      BY <1>1, SMT
    <2>4. Len(u) = (r.at + 1) - 3
      BY <1>62, <2>2, <2>3, Zenon
    <2>5. \A i \in 1 .. (r.at + 1) - 3 : i \in 1 .. r.at - 3 \/ i = (r.at - 3) + 1
      BY <1>1, SMT
    <2>6. u[(r.at - 3) + 1] = Attachment(r.body[((r.at - 3) + 1) + 2])
      BY <1>60, <1>62, <2>2, <2>3, Zenon
    <2>7. \A i \in 1 .. r.at - 3 : u[i] = Attachment(r.body[i + 2])
      BY <1>62, <2>2, Zenon
    <2> QED BY <2>2, <2>4, <2>5, <2>6, <2>7, Zenon
  <1>8. u \in Seq(AttachmentsOf(r.body))
    BY <1>60, <1>62, Zenon
  <1>9. Progress(q)
    <2>1. q.at \in Nat /\ 2 <= q.at /\ q.at <= Len(q.body) + 1 /\ q.at # 2
      BY <1>3, <1>5, Zenon
    <2>2. q.body[1].name = "metadata" /\ q.attachments \in Seq(AttachmentsOf(q.body))
      BY <1>3, <1>6, <1>8, Zenon
    <2>3. q.dump # None => \E i \in DOMAIN q.body : q.body[i].name = "dump" /\ q.dump = Pointer(q.body[i])
      BY <1>1, <1>3, Zenon DEF Progress
    <2>4. q.ours => /\ q.dump = Pointer(q.body[2]) /\ Len(q.attachments) = q.at - 3
                    /\ \A i \in 1 .. q.at - 3 : q.attachments[i] = Attachment(q.body[i + 2])
      BY <1>3, <1>7, ZenonT(40)
    <2> QED BY <2>1, <2>2, <2>3, <2>4, Zenon DEF Progress
  <1> QED BY <1>1, <1>3, <1>4, <1>9, ZenonT(40) DEF RecOK

-----------------------------------------------------------------------------
(* The inductive invariant                                                 *)

\* A record yields the dump and every file of the manifest.
RecordOK(record, m, d) ==
    /\ Decoded(record.dump) = "dump"
    /\ DOMAIN record.attachments = DOMAIN m
    /\ \A i \in DOMAIN m : /\ record.attachments[i].key = m[i].key
                           /\ Decoded(record.attachments[i].pointer) = d[m[i].filename]

FunctionsOK ==
    /\ handler = [h \in Handlers |-> handler[h]] /\ index = [b \in Bytes |-> index[b]]
    /\ late \in BOOLEAN

HandlersOK == \A h \in Handlers : RecOK(handler[h], context # None, manifest, dir, settings)

WaitingOK ==
    /\ waiting # None => waiting \in Handlers /\ handler[waiting].ours
    /\ where = "sent" => waiting = None
    /\ context = None => settings = {}

\* The records of the report are those of uploads of ours.
IndexOK ==
    \A b \in Ours :
        /\ index[b].state # "absent" => b.data = "dump" /\ b.level \in settings
        /\ index[b].state = "complete" => RecordOK(index[b].record, manifest, dir)

\* While no upload that was given up has written to the index, the one that is
\* waited for finds there what it has written itself.
SentOK ==
    ~ late =>
        /\ where = "sent" => \E b \in Ours : index[b].state = "complete"
        /\ waiting # None /\ handler[waiting].pc = "fill" =>
            index[handler[waiting].dump.sha].state = "partial"
        /\ waiting # None /\ handler[waiting].pc = "created" =>
            index[handler[waiting].dump.sha].state = "complete"

UploadInv == FunctionsOK /\ SpoolOK /\ HandlersOK /\ WaitingOK /\ IndexOK /\ SentOK

\* The path of a record is the digest of a dump: the report's own at a level
\* that was used, or another one's.
LEMMA DumpPath ==
  ASSUME NEW c, NEW m, NEW d, NEW s, NEW r, RecOK(r, c, m, d, s),
         r.pc \in {"parts", "fill", "created"}, r.dump # None
  PROVE  /\ r.dump.sha \in Bytes
         /\ r.ours => /\ r.dump.sha \in Ours /\ r.dump.sha.data = "dump" /\ r.dump.sha.level \in s
                      /\ r.at > 2 /\ r.dump = Pointer(r.body[2])
         /\ ~ r.ours => r.dump.sha.data = "other" /\ r.dump.sha \notin Ours
  <1>1. r.pc # "idle"
    OBVIOUS
  <1>2. GoodBody(r.body) /\ Progress(r) /\ r.ours \in BOOLEAN
    BY <1>1, Zenon DEF RecOK
  <1>3. PICK i \in DOMAIN r.body : r.body[i].name = "dump" /\ r.dump = Pointer(r.body[i])
    BY <1>2, Zenon DEF Progress
  <1>4. r.dump.sha = r.body[i].bytes /\ r.dump.sha \in Bytes
    <2>1. r.body[i].bytes \in Bytes
      BY <1>2, Zenon DEF GoodBody
    <2>2. r.dump.sha = r.body[i].bytes
      BY <1>3, PointerFields, Zenon
    <2> QED BY <2>1, <2>2, Zenon
  <1>5. "dump" # "other"
    OBVIOUS
  <1>6. ASSUME r.ours
        PROVE  /\ r.dump.sha \in Ours /\ r.dump.sha.data = "dump" /\ r.dump.sha.level \in s
               /\ r.at > 2 /\ r.dump = Pointer(r.body[2])
    <2>1. r.at # 2 /\ r.at \in Nat /\ 2 <= r.at
      BY <1>2, <1>6, Zenon DEF Progress
    <2>2. r.at > 2
      BY <2>1, SMT
    <2>3. r.dump = Pointer(r.body[2])
      BY <1>2, <1>6, <2>2, Zenon DEF Progress
    <2>4. r.dump.sha = r.body[2].bytes
      BY <2>3, PointerFields, Zenon
    <2>5. r.body[2].bytes.data = "dump" /\ r.body[2].bytes.level \in s
      BY <1>6, Zenon DEF RecOK, OurBody
    <2>6. r.dump.sha.data = "dump" /\ r.dump.sha.level \in s
      BY <2>4, <2>5, Zenon
    <2> QED BY <1>4, <1>5, <2>2, <2>3, <2>6, Zenon DEF Ours
  <1>7. ASSUME ~ r.ours PROVE r.dump.sha.data = "other" /\ r.dump.sha \notin Ours
    <2>1. r.body[i].bytes.data = "other"
      BY <1>3, <1>7, Zenon DEF RecOK
    <2> QED BY <1>4, <2>1, Zenon DEF Ours
  <1> QED BY <1>4, <1>6, <1>7, Zenon

\* What a handler of ours writes into the index.
LEMMA OurRecord ==
  ASSUME NEW c, NEW m, NEW d, NEW s, NEW r, RecOK(r, c, m, d, s), r.pc = "fill", r.ours,
         NEW record, record = [dump |-> r.dump, attachments |-> r.attachments]
  PROVE  RecordOK(record, m, d)
  <1>1. "fill" \in {"parts", "fill", "created"} /\ "fill" \in {"fill", "created"}
    OBVIOUS
  <1>2. Progress(r) /\ OurBody(r.body, m, d) /\ r.dump # None /\ r.at = Len(r.body) + 1
    BY <1>1, Zenon DEF RecOK
  <1>3. r.at > 2 /\ r.dump = Pointer(r.body[2])
    BY <1>1, <1>2, DumpPath, Zenon
  <1>4. /\ Len(m) \in Nat /\ DOMAIN m = 1 .. Len(m) /\ Len(r.body) = Len(m) + 2
        /\ r.body[2].encoding = "zstd" /\ r.body[2].bytes.level # 0 /\ r.body[2].bytes.data = "dump"
    BY <1>2, Zenon DEF OurBody
  <1>5. r.at - 3 = Len(m)
    BY <1>2, <1>4, SMT
  <1>6. /\ Len(r.attachments) = Len(m) /\ r.attachments \in Seq(AttachmentsOf(r.body))
        /\ \A i \in 1 .. Len(m) : r.attachments[i] = Attachment(r.body[i + 2])
    BY <1>2, <1>3, <1>5, Zenon DEF Progress
  <1>7. DOMAIN r.attachments = DOMAIN m
    <2>1. DOMAIN r.attachments = 1 .. Len(r.attachments)
      BY <1>6, SMT
    <2> QED BY <1>4, <1>6, <2>1, Zenon
  <1>8. Decoded(r.dump) = "dump"
    <2>1. r.dump.encoding = "zstd" /\ r.dump.sha = r.body[2].bytes
      BY <1>3, <1>4, PointerFields, ZenonT(40)
    <2>2. r.dump.sha.level # 0 /\ r.dump.sha.data = "dump"
      BY <1>4, <2>1, Zenon
    <2> QED BY <2>1, <2>2, Zenon DEF Decoded
  <1>9. ASSUME NEW i \in DOMAIN m
        PROVE  /\ r.attachments[i].key = m[i].key
               /\ Decoded(r.attachments[i].pointer) = d[m[i].filename]
    <2>1. r.attachments[i] = Attachment(r.body[i + 2])
      BY <1>4, <1>6, Zenon
    <2>2. \A p : Attachment(p).key = p.key /\ Attachment(p).pointer = Pointer(p)
      BY Zenon DEF Attachment
    <2>3. r.body[i + 2].key = m[i].key /\ Decoded(Pointer(r.body[i + 2])) = d[m[i].filename]
      BY <1>2, Zenon DEF OurBody
    <2> QED BY <2>1, <2>2, <2>3, Zenon
  <1>10. record.dump = r.dump /\ record.attachments = r.attachments
    BY Zenon
  <1> QED BY <1>7, <1>8, <1>9, <1>10, Zenon DEF RecordOK

\* One handler changes.
LEMMA HandlerUpdate ==
  ASSUME FunctionsOK, NEW h \in Handlers, NEW q, handler' = [handler EXCEPT ![h] = q]
  PROVE  /\ handler' = [g \in Handlers |-> handler'[g]] /\ handler'[h] = q
         /\ \A g \in Handlers : g # h => handler'[g] = handler[g]
BY Zenon DEF FunctionsOK

\* One record changes.
LEMMA IndexUpdate ==
  ASSUME FunctionsOK, NEW p \in Bytes, NEW x, index' = [index EXCEPT ![p] = x]
  PROVE  /\ index' = [b \in Bytes |-> index'[b]] /\ index'[p] = x
         /\ \A b \in Bytes : b # p => index'[b] = index[b]
BY Zenon DEF FunctionsOK

\* The invariant after a step that leaves the entry and the index alone.
LEMMA SpoolFrame ==
  ASSUME SpoolOK, UNCHANGED spool
  PROVE  SpoolOK'
BY Zenon DEF SpoolOK, spool

\* The records do not depend on a step that leaves the index and the entry alone.
LEMMA IndexFrame ==
  ASSUME IndexOK, UNCHANGED <<spool, index>>, settings \subseteq settings'
  PROVE  IndexOK'
BY Zenon DEF IndexOK, spool

\* The handlers after one of them changed.
LEMMA HandlersFrame ==
  ASSUME FunctionsOK, HandlersOK, NEW h \in Handlers, NEW q, handler' = [handler EXCEPT ![h] = q],
         UNCHANGED spool, settings \subseteq settings',
         RecOK(q, context # None, manifest, dir, settings')
  PROVE  HandlersOK'
  <1>1. context' = context /\ manifest' = manifest /\ dir' = dir
    BY Zenon DEF spool
  <1>2. ASSUME NEW g \in Handlers PROVE RecOK(handler'[g], context # None, manifest, dir, settings')
    <2>1. CASE g = h
      BY <2>1, HandlerUpdate, Zenon
    <2>2. CASE g # h
      <3>1. handler'[g] = handler[g] /\ RecOK(handler[g], context # None, manifest, dir, settings)
        BY <2>2, HandlerUpdate, Zenon DEF HandlersOK
      <3>2. RecOK(handler[g], context # None, manifest, dir, settings')
        BY <3>1, RecGrows, Zenon
      <3> QED BY <3>1, <3>2, Zenon
    <2> QED BY <2>1, <2>2, Zenon
  <1> QED BY <1>1, <1>2, Zenon DEF HandlersOK

\* The invariant after a step of one handler that does not touch the index.
LEMMA HandlerOnly ==
  ASSUME UploadInv, NEW h \in Handlers, NEW q, handler' = [handler EXCEPT ![h] = q],
         UNCHANGED <<spool, where, waiting, index, settings, late>>,
         RecOK(q, context # None, manifest, dir, settings),
         q.pc # "fill", q.pc # "created", waiting = h => q.ours
  PROVE  UploadInv'
  <1>1. FunctionsOK /\ SpoolOK /\ HandlersOK /\ WaitingOK /\ IndexOK /\ SentOK
    BY Zenon DEF UploadInv
  <1>2. /\ UNCHANGED spool /\ where' = where /\ waiting' = waiting /\ index' = index
        /\ settings' = settings /\ late' = late /\ context' = context
    BY Zenon DEF spool
  <1>3. /\ handler' = [g \in Handlers |-> handler'[g]] /\ handler'[h] = q
        /\ \A g \in Handlers : g # h => handler'[g] = handler[g]
    BY <1>1, HandlerUpdate, Zenon
  <1>4. FunctionsOK'
    BY <1>1, <1>2, <1>3, Zenon DEF FunctionsOK
  <1>5. SpoolOK' /\ IndexOK'
    BY <1>1, <1>2, SpoolFrame, IndexFrame, Zenon
  <1>6. HandlersOK'
    BY <1>1, <1>2, HandlersFrame, Zenon
  <1>7. WaitingOK'
    BY <1>1, <1>2, <1>3, Zenon DEF WaitingOK
  <1>8. SentOK'
    <2> SUFFICES ASSUME ~ late'
                 PROVE  /\ where' = "sent" => \E b \in Ours : index'[b].state = "complete"
                        /\ waiting' # None /\ handler'[waiting'].pc = "fill" =>
                            index'[handler'[waiting'].dump.sha].state = "partial"
                        /\ waiting' # None /\ handler'[waiting'].pc = "created" =>
                            index'[handler'[waiting'].dump.sha].state = "complete"
      BY Zenon DEF SentOK
    <2>0. /\ where = "sent" => \E b \in Ours : index[b].state = "complete"
          /\ waiting # None /\ handler[waiting].pc = "fill" =>
                index[handler[waiting].dump.sha].state = "partial"
          /\ waiting # None /\ handler[waiting].pc = "created" =>
                index[handler[waiting].dump.sha].state = "complete"
      <3>1. ~ late
        BY <1>2, SMT
      <3> QED BY <1>1, <3>1, Zenon DEF SentOK
    <2>1. CASE waiting = h
      <3>1. handler'[waiting'].pc # "fill" /\ handler'[waiting'].pc # "created"
        BY <1>2, <1>3, <2>1, Zenon
      <3> QED BY <1>2, <2>0, <3>1, Zenon
    <2>2. CASE waiting # h
      <3>1. waiting # None => waiting \in Handlers
        BY <1>1, Zenon DEF WaitingOK
      <3>2. waiting # None => handler'[waiting'] = handler[waiting]
        BY <1>2, <1>3, <2>2, <3>1, Zenon
      <3> QED BY <1>2, <2>0, <3>2, Zenon
    <2> QED BY <2>1, <2>2, Zenon
  <1> QED BY <1>4, <1>5, <1>6, <1>7, <1>8, Zenon DEF UploadInv

\* The hook writes the entry: there is nothing of the report before.
LEMMA CaptureInv ==
  ASSUME UploadInv, NEW files \in ContextLists, NEW k \in {"panic", "minidump"}, Capture(files, k)
  PROVE  UploadInv'
  <1>1. FunctionsOK /\ SpoolOK /\ HandlersOK /\ WaitingOK /\ IndexOK /\ SentOK
    BY Zenon DEF UploadInv
  <1>2. /\ context = None /\ context' = files /\ kind' = k /\ dir' = Left(Writes(files))
        /\ manifest' = ManifestOf(files, k)
        /\ where' = where /\ waiting' = waiting /\ handler' = handler /\ index' = index
        /\ settings' = settings /\ late' = late
    BY Zenon DEF Capture, ManifestOf
  <1>3. files # None
    BY CrashUploadAssumption, Zenon
  <1>4. SpoolOK'
    BY <1>2, Zenon DEF SpoolOK
  <1>5. HandlersOK'
    <2>1. ~ (context # None)
      BY <1>2, Zenon
    <2>2. ASSUME NEW h \in Handlers PROVE RecOK(handler[h], context' # None, manifest', dir', settings')
      <3>1. RecOK(handler[h], context # None, manifest, dir, settings)
        BY <1>1, Zenon DEF HandlersOK
      <3> QED BY <2>1, <3>1, RecOther, Zenon
    <2> QED BY <1>2, <2>2, Zenon DEF HandlersOK
  <1>6. settings = {}
    BY <1>1, <1>2, Zenon DEF WaitingOK
  <1>7. \A b \in Ours : index[b].state = "absent"
    BY <1>1, <1>6, Zenon DEF IndexOK
  <1>8. "absent" # "complete"
    OBVIOUS
  <1>9. IndexOK'
    BY <1>2, <1>7, <1>8, Zenon DEF IndexOK
  <1>10. FunctionsOK' /\ WaitingOK' /\ SentOK'
    BY <1>1, <1>2, <1>3, Zenon DEF FunctionsOK, WaitingOK, SentOK
  <1> QED BY <1>4, <1>5, <1>9, <1>10, Zenon DEF UploadInv

\* The shipper posts the entry.
LEMMA PostInv ==
  ASSUME UploadInv, NEW h \in Handlers, NEW config \in ShipConfigs, Post(h, config)
  PROVE  UploadInv'
  <1>1. FunctionsOK /\ SpoolOK /\ HandlersOK /\ WaitingOK /\ IndexOK /\ SentOK
    BY Zenon DEF UploadInv
  <1>2. PICK body : body = WriteTo(ReadEnvelope, config)
    BY Zenon
  <1>3. PICK q : q = [Idle EXCEPT !.pc = "first", !.ours = TRUE, !.body = body]
    BY Zenon
  <1>4. /\ context # None /\ where = "pending" /\ waiting = None
        /\ settings' = settings \cup {config.level} /\ waiting' = h
        /\ handler' = [handler EXCEPT ![h] = q]
        /\ UNCHANGED spool /\ context' = context /\ where' = where /\ index' = index /\ late' = late
    BY <1>2, <1>3, Zenon DEF Post, spool
  <1>5. OurBody(body, manifest, dir) /\ body[2].bytes.level \in settings'
    BY <1>1, <1>2, <1>4, WrittenIsOurs, Zenon
  <1>6. RecOK(q, context # None, manifest, dir, settings')
    <2>1. RecOK(q, TRUE, manifest, dir, settings')
      BY <1>3, <1>5, PostOK, Zenon
    <2> QED BY <2>1, <1>4, Zenon DEF RecOK
  <1>7. settings \subseteq settings'
    BY <1>4, Zenon
  <1>8. /\ handler' = [g \in Handlers |-> handler'[g]] /\ handler'[h] = q
    BY <1>1, <1>4, HandlerUpdate, Zenon
  <1>9. q.ours = TRUE /\ q.pc = "first"
    <2>1. HasFields(q, "first", TRUE, body, 0, None, <<>>)
      BY <1>3, StartFields, Zenon
    <2> QED BY <2>1, Zenon DEF HasFields
  <1>10. "pending" # "sent" /\ "first" # "fill" /\ "first" # "created"
    OBVIOUS
  <1>11. FunctionsOK' /\ WaitingOK' /\ SentOK'
    BY <1>1, <1>4, <1>8, <1>9, <1>10, Zenon DEF FunctionsOK, WaitingOK, SentOK
  <1>12. SpoolOK' /\ IndexOK'
    BY <1>1, <1>4, <1>7, SpoolFrame, IndexFrame, Zenon
  <1>13. HandlersOK'
    BY <1>1, <1>4, <1>6, <1>7, HandlersFrame, Zenon
  <1> QED BY <1>11, <1>12, <1>13, Zenon DEF UploadInv

\* The other steps of a handler before the index.
LEMMA EarlyInv ==
  ASSUME UploadInv, NEW h \in Handlers,
         \/ \E body \in OtherBodies : PostOther(h, body)
         \/ FirstPart(h) \/ NextPart(h) \/ Drop(h)
         \/ OpenIndex(h) /\ handler[h].dump = None
  PROVE  UploadInv'
  <1>1. PICK r : r = handler[h]
    BY Zenon
  <1>2. RecOK(r, context # None, manifest, dir, settings)
    BY <1>1, Zenon DEF UploadInv, HandlersOK
  <1>3. IsHandler(r) /\ r.ours \in BOOLEAN
    BY <1>2, Zenon DEF RecOK
  <1>4. waiting = h => r.ours
    <2>1. h # None
      BY CrashUploadAssumption, Zenon
    <2> QED BY <1>1, <2>1, Zenon DEF UploadInv, WaitingOK
  <1>5. ASSUME NEW x, (x = "rejected" /\ ~ r.ours) \/ x \in {"failed", "toolarge"}, r.pc # "idle", To(h, x),
               UNCHANGED <<spool, where, waiting, index, settings, late>>
        PROVE  UploadInv'
    <2>1. PICK q : q = [r EXCEPT !.pc = x]
      BY Zenon
    <2>2. HasFields(q, x, r.ours, r.body, r.at, r.dump, r.attachments)
      BY <1>3, <2>1, ToFields, Zenon
    <2>3. q.ours = r.ours /\ q.pc = x
      BY <2>2, Zenon DEF HasFields
    <2>4. x # "fill" /\ x # "created"
      BY <1>5
    <2>5. RecOK(q, context # None, manifest, dir, settings)
      BY <1>2, <1>5, <2>1, FailedOK, RejectedOK, Zenon
    <2>6. handler' = [handler EXCEPT ![h] = q]
      BY <1>1, <1>5, <2>1, Zenon DEF To
    <2> QED BY <1>4, <1>5, <2>3, <2>4, <2>5, <2>6, HandlerOnly, Zenon
  <1>6. ASSUME NEW body \in OtherBodies, PostOther(h, body) PROVE UploadInv'
    <2>1. PICK q : q = [Idle EXCEPT !.pc = "first", !.body = body]
      BY Zenon
    <2>2. RecOK(q, context # None, manifest, dir, settings)
      BY <2>1, PostOtherOK, Zenon
    <2>3. HasFields(q, "first", FALSE, body, 0, None, <<>>)
      BY <2>1, StartFields, Zenon
    <2>4. "first" # "fill" /\ "first" # "created"
      OBVIOUS
    <2>5. q.pc # "fill" /\ q.pc # "created"
      BY <2>3, <2>4, Zenon DEF HasFields
    <2>6. /\ r = Idle /\ handler' = [handler EXCEPT ![h] = q]
          /\ UNCHANGED <<spool, where, waiting, index, settings, late>>
      BY <1>1, <1>6, <2>1, Zenon DEF PostOther
    <2>7. waiting # h
      <3>1. ~ Idle.ours
        BY IdleFields, Zenon DEF HasFields
      <3> QED BY <1>4, <2>6, <3>1, Zenon
    <2> QED BY <2>2, <2>5, <2>6, <2>7, HandlerOnly, Zenon
  <1>7. ASSUME FirstPart(h) PROVE UploadInv'
    <2>1. r.pc = "first" /\ "first" # "idle" /\ UNCHANGED <<spool, where, waiting, index, settings, late>>
      BY <1>1, <1>7 DEF FirstPart
    <2>2. CASE r.body[1].name = "metadata" /\ handler' = [handler EXCEPT ![h] = [@ EXCEPT !.pc = "parts", !.at = 2]]
      <3>1. PICK q : q = [r EXCEPT !.pc = "parts", !.at = 2]
        BY Zenon
      <3>2. RecOK(q, context # None, manifest, dir, settings)
        BY <1>2, <2>1, <2>2, <3>1, FirstPartOK, Zenon
      <3>3. HasFields(q, "parts", r.ours, r.body, 2, r.dump, r.attachments)
        BY <1>3, <3>1, FirstFields, Zenon
      <3>4. "parts" # "fill" /\ "parts" # "created"
        OBVIOUS
      <3>5. q.ours = r.ours /\ q.pc # "fill" /\ q.pc # "created"
        BY <3>3, <3>4, Zenon DEF HasFields
      <3>6. handler' = [handler EXCEPT ![h] = q]
        BY <1>1, <2>2, <3>1, Zenon
      <3> QED BY <1>4, <2>1, <3>2, <3>5, <3>6, HandlerOnly, Zenon
    <2>3. CASE r.body[1].name # "metadata" /\ To(h, "rejected")
      <3>1. ~ r.ours
        BY <1>2, <2>3, Zenon DEF RecOK, OurBody
      <3> QED BY <1>5, <2>1, <2>3, <3>1, Zenon
    <2>4. CASE To(h, "failed") \/ To(h, "toolarge")
      BY <1>5, <2>1, <2>4, Zenon
    <2> QED BY <1>1, <1>7, <2>2, <2>3, <2>4, Zenon DEF FirstPart
  <1>8. ASSUME NextPart(h) PROVE UploadInv'
    <2>0. PICK part : part = r.body[r.at]
      BY Zenon
    <2>1. /\ r.pc = "parts" /\ r.at <= Len(r.body)
          /\ UNCHANGED <<spool, where, waiting, index, settings, late>>
          /\ \/ /\ part.name = "dump" /\ r.dump = None
                /\ handler' = [handler EXCEPT ![h] = [@ EXCEPT !.at = r.at + 1, !.dump = Pointer(part)]]
             \/ /\ part.name = "attach"
                /\ handler' = [handler EXCEPT ![h] = [@ EXCEPT !.at = r.at + 1,
                                    !.attachments = Append(r.attachments, Attachment(part))]]
             \/ To(h, "toolarge")
             \/ /\ part.name \notin {"dump", "attach"} \/ (part.name = "dump" /\ r.dump # None)
                /\ To(h, "rejected")
      BY <1>1, <1>8, <2>0, Zenon DEF NextPart
    <2>2. "parts" # "fill" /\ "parts" # "created" /\ "parts" # "idle" /\ "dump" # "attach"
      OBVIOUS
    <2>3. CASE /\ part.name = "dump" /\ r.dump = None
               /\ handler' = [handler EXCEPT ![h] = [@ EXCEPT !.at = r.at + 1, !.dump = Pointer(part)]]
      <3>1. PICK q : q = [r EXCEPT !.at = r.at + 1, !.dump = Pointer(r.body[r.at])]
        BY Zenon
      <3>2. RecOK(q, context # None, manifest, dir, settings)
        BY <1>2, <2>0, <2>1, <2>3, <3>1, DumpPartOK, Zenon
      <3>3. HasFields(q, r.pc, r.ours, r.body, r.at + 1, Pointer(r.body[r.at]), r.attachments)
        BY <1>3, <3>1, DumpFields, Zenon
      <3>5. q.ours = r.ours /\ q.pc # "fill" /\ q.pc # "created"
        BY <2>1, <2>2, <3>3, Zenon DEF HasFields
      <3>6. handler' = [handler EXCEPT ![h] = q]
        BY <1>1, <2>0, <2>3, <3>1, ZenonT(40)
      <3> QED BY <1>4, <2>1, <3>2, <3>5, <3>6, HandlerOnly, Zenon
    <2>4. CASE /\ part.name = "attach"
               /\ handler' = [handler EXCEPT ![h] = [@ EXCEPT !.at = r.at + 1,
                                    !.attachments = Append(r.attachments, Attachment(part))]]
      <3>1. PICK q : q = [r EXCEPT !.at = r.at + 1,
                                   !.attachments = Append(r.attachments, Attachment(r.body[r.at]))]
        BY Zenon
      <3>2. RecOK(q, context # None, manifest, dir, settings)
        BY <1>2, <2>0, <2>1, <2>4, <3>1, AttachPartOK, Zenon
      <3>3. HasFields(q, r.pc, r.ours, r.body, r.at + 1, r.dump, Append(r.attachments, Attachment(r.body[r.at])))
        BY <1>3, <3>1, AttachFields, Zenon
      <3>5. q.ours = r.ours /\ q.pc # "fill" /\ q.pc # "created"
        BY <2>1, <2>2, <3>3, Zenon DEF HasFields
      <3>6. handler' = [handler EXCEPT ![h] = q]
        BY <1>1, <2>0, <2>4, <3>1, Zenon
      <3> QED BY <1>4, <2>1, <3>2, <3>5, <3>6, HandlerOnly, Zenon
    <2>5. CASE /\ part.name \notin {"dump", "attach"} \/ (part.name = "dump" /\ r.dump # None)
               /\ To(h, "rejected")
      <3>1. ~ r.ours
        BY <1>2, <1>3, <2>0, <2>1, <2>2, <2>5, OurNextPart, ZenonT(40)
      <3> QED BY <1>5, <2>1, <2>2, <2>5, <3>1, Zenon
    <2>6. CASE To(h, "toolarge")
      BY <1>5, <2>1, <2>2, <2>6, Zenon
    <2> QED BY <2>1, <2>3, <2>4, <2>5, <2>6, Zenon
  <1>9. ASSUME Drop(h) PROVE UploadInv'
    <2>1. r.pc # "idle" /\ UNCHANGED <<spool, where, waiting, index, settings, late>>
      BY <1>1, <1>9, Zenon DEF Drop
    <2>2. CASE waiting # h /\ handler' = [handler EXCEPT ![h] = Idle]
      <3>1. RecOK(Idle, context # None, manifest, dir, settings)
        BY IdleOK, Zenon
      <3>2. "idle" # "fill" /\ "idle" # "created"
        OBVIOUS
      <3>3. Idle.pc # "fill" /\ Idle.pc # "created"
        BY <3>2, IdleFields, Zenon DEF HasFields
      <3> QED BY <2>1, <2>2, <3>1, <3>3, HandlerOnly, Zenon
    <2>3. CASE To(h, "failed")
      BY <1>5, <2>1, <2>3, Zenon
    <2> QED BY <1>9, <2>2, <2>3, Zenon DEF Drop
  <1>10. ASSUME OpenIndex(h), handler[h].dump = None PROVE UploadInv'
    <2>1. /\ r.pc = "parts" /\ r.at > Len(r.body) /\ r.dump = None /\ To(h, "rejected")
          /\ UNCHANGED <<spool, where, waiting, index, settings, late>>
      BY <1>1, <1>10, Zenon DEF OpenIndex
    <2>2. "parts" \in {"parts", "fill", "created"} /\ "parts" # "idle"
      OBVIOUS
    <2>3. ~ r.ours
      <3> SUFFICES ASSUME r.ours PROVE FALSE
        BY Zenon
      <3>1. Progress(r) /\ OurBody(r.body, manifest, dir) /\ GoodBody(r.body)
        BY <1>2, <2>1, <2>2, Zenon DEF RecOK
      <3>2. Len(manifest) \in Nat /\ Len(r.body) = Len(manifest) + 2 /\ r.at \in Nat
        BY <3>1, Zenon DEF OurBody, Progress
      <3>3. r.at > 2 /\ 2 \in 1 .. Len(r.body)
        BY <2>1, <3>2, SMT
      <3>4. r.dump = Pointer(r.body[2]) /\ 2 \in DOMAIN r.body
        BY <3>1, <3>3, Zenon DEF Progress, OurBody
      <3> QED BY <2>1, <3>1, <3>4, PointerFacts, Zenon
    <2> QED BY <1>5, <2>1, <2>2, <2>3, Zenon
  <1> QED BY <1>6, <1>7, <1>8, <1>9, <1>10, Zenon

\* A handler r goes on to q and writes x at its path in the index.
WriteStep(h, r, q, x) ==
    /\ r = handler[h] /\ RecOK(q, context # None, manifest, dir, settings)
    /\ q.pc \in {"fill", "created"} /\ q.ours = r.ours /\ q.dump = r.dump
    /\ handler' = [handler EXCEPT ![h] = q] /\ index' = [index EXCEPT ![r.dump.sha] = x]
    /\ x.state # "absent"
    /\ x.state = "complete" /\ r.ours => RecordOK(x.record, manifest, dir)
    /\ ~ late /\ r.ours /\ waiting = h => x.state = IF q.pc = "fill" THEN "partial" ELSE "complete"
    /\ late' = (late \/ (r.ours /\ waiting # h))
    /\ UNCHANGED <<spool, where, waiting, settings>>

\* The invariant after such a step.
LEMMA WriteInv ==
  ASSUME UploadInv, NEW h \in Handlers, NEW r, NEW q, NEW x, WriteStep(h, r, q, x)
  PROVE  UploadInv'
  <1> USE DEF WriteStep
  <1>1. FunctionsOK /\ SpoolOK /\ HandlersOK /\ WaitingOK /\ IndexOK /\ SentOK
    BY Zenon DEF UploadInv
  <1>2. /\ UNCHANGED spool /\ where' = where /\ waiting' = waiting /\ settings' = settings
        /\ context' = context /\ manifest' = manifest /\ dir' = dir
    BY Zenon DEF spool
  <1>3. /\ handler' = [g \in Handlers |-> handler'[g]] /\ handler'[h] = q
        /\ \A g \in Handlers : g # h => handler'[g] = handler[g]
    BY <1>1, HandlerUpdate, Zenon
  <1>4. PICK p : p = r.dump.sha
    BY Zenon
  <1>5. q.pc \in {"parts", "fill", "created"} /\ q.dump # None /\ q.ours \in BOOLEAN
    <2>1. q.pc \in {"parts", "fill", "created"}
      OBVIOUS
    <2> QED BY <2>1, Zenon DEF RecOK
  <1>6. /\ p \in Bytes
        /\ r.ours => p \in Ours /\ p.data = "dump" /\ p.level \in settings
        /\ ~ r.ours => p.data = "other" /\ p \notin Ours
    <2>1. q.dump.sha = p
      BY <1>4, Zenon
    <2>2. /\ q.dump.sha \in Bytes
          /\ q.ours => /\ q.dump.sha \in Ours /\ q.dump.sha.data = "dump" /\ q.dump.sha.level \in settings
                       /\ q.at > 2 /\ q.dump = Pointer(q.body[2])
          /\ ~ q.ours => q.dump.sha.data = "other" /\ q.dump.sha \notin Ours
      BY <1>5, DumpPath, Zenon
    <2> QED BY <2>1, <2>2, Zenon
  <1>7. /\ index' = [b \in Bytes |-> index'[b]] /\ index'[p] = x
        /\ \A b \in Bytes : b # p => index'[b] = index[b]
    BY <1>1, <1>4, <1>6, IndexUpdate, Zenon
  <1>8. \A b \in Ours : b \in Bytes
    BY Zenon DEF Ours
  <1>9. r.ours \in BOOLEAN /\ late' \in BOOLEAN
    BY <1>1, <1>5, Zenon DEF FunctionsOK
  <1>10. FunctionsOK'
    BY <1>3, <1>7, <1>9, Zenon DEF FunctionsOK
  <1>11. SpoolOK' /\ HandlersOK'
    <2>1. settings \subseteq settings' /\ RecOK(q, context # None, manifest, dir, settings')
      BY <1>2, Zenon
    <2> QED BY <1>1, <1>2, <2>1, SpoolFrame, HandlersFrame, Zenon
  <1>12. WaitingOK'
    <2>1. waiting # None => waiting \in Handlers /\ handler[waiting].ours
      BY <1>1, Zenon DEF WaitingOK
    <2>2. waiting # None => handler'[waiting].ours
      BY <1>3, <2>1, Zenon
    <2> QED BY <1>1, <1>2, <2>1, <2>2, Zenon DEF WaitingOK
  <1>13. IndexOK'
    <2>1. ASSUME NEW b \in Ours
          PROVE  /\ index'[b].state # "absent" => b.data = "dump" /\ b.level \in settings
                 /\ index'[b].state = "complete" => RecordOK(index'[b].record, manifest, dir)
      <3>1. CASE b = p
        <4>1. r.ours
          BY <1>6, <1>9, <3>1, Zenon
        <4>2. index'[b] = x
          BY <1>7, <3>1, Zenon
        <4> QED BY <1>6, <3>1, <4>1, <4>2, Zenon
      <3>2. CASE b # p
        <4>1. index'[b] = index[b]
          BY <1>7, <1>8, <3>2, Zenon
        <4> QED BY <1>1, <4>1, Zenon DEF IndexOK
      <3> QED BY <3>1, <3>2, Zenon
    <2> QED BY <1>2, <2>1, Zenon DEF IndexOK
  <1>14. SentOK'
    <2> SUFFICES ASSUME ~ late'
                 PROVE  /\ where' = "sent" => \E b \in Ours : index'[b].state = "complete"
                        /\ waiting' # None /\ handler'[waiting'].pc = "fill" =>
                            index'[handler'[waiting'].dump.sha].state = "partial"
                        /\ waiting' # None /\ handler'[waiting'].pc = "created" =>
                            index'[handler'[waiting'].dump.sha].state = "complete"
      BY Zenon DEF SentOK
    <2>1. ~ late /\ (r.ours => waiting = h)
      BY <1>1, <1>9, Zenon DEF FunctionsOK
    <2>2. waiting # None => waiting \in Handlers /\ handler[waiting].ours
      BY <1>1, Zenon DEF WaitingOK
    <2>3. CASE waiting = h
      <3>1. h # None /\ r.ours
        BY <2>2, <2>3, CrashUploadAssumption, Zenon
      <3>2. where' # "sent"
        BY <1>1, <1>2, <2>3, <3>1, Zenon DEF WaitingOK
      <3>3. handler'[waiting'] = q /\ q.dump.sha = p
        BY <1>2, <1>3, <1>4, <2>3, Zenon
      <3>4. index'[handler'[waiting'].dump.sha] = x
        BY <1>7, <3>3, Zenon
      <3>5. x.state = IF q.pc = "fill" THEN "partial" ELSE "complete"
        BY <2>1, <2>3, <3>1, Zenon
      <3>6. "created" # "fill"
        OBVIOUS
      <3> QED BY <3>2, <3>3, <3>4, <3>5, <3>6, Zenon
    <2>4. CASE waiting # h
      <3>1. p \notin Ours /\ p.data = "other"
        BY <1>6, <1>9, <2>1, <2>4, Zenon
      <3>2. \A b \in Ours : index'[b] = index[b]
        BY <1>7, <1>8, <3>1, Zenon
      <3>3. ~ late /\ where = "sent" => \E b \in Ours : index[b].state = "complete"
        BY <1>1, Zenon DEF SentOK
      <3>4. where' = "sent" => \E b \in Ours : index'[b].state = "complete"
        BY <1>2, <2>1, <3>2, <3>3, Zenon
      <3>5. ASSUME waiting' # None, handler'[waiting'].pc \in {"fill", "created"}
            PROVE  /\ handler'[waiting'] = handler[waiting] /\ waiting # None
                   /\ index'[handler[waiting].dump.sha] = index[handler[waiting].dump.sha]
        <4>1. waiting # None /\ handler'[waiting'] = handler[waiting] /\ waiting \in Handlers
          BY <1>2, <1>3, <2>2, <2>4, <3>5, Zenon
        <4>2. PICK w : w = handler[waiting]
          BY Zenon
        <4>3. RecOK(w, context # None, manifest, dir, settings) /\ w.ours
          BY <1>1, <2>2, <4>1, <4>2, Zenon DEF HandlersOK
        <4>4. w.pc \in {"fill", "created"} /\ w.pc \in {"parts", "fill", "created"}
          BY <3>5, <4>1, <4>2, Zenon
        <4>5. w.dump # None
          BY <4>3, <4>4, Zenon DEF RecOK
        <4>6. w.dump.sha \in Ours
          BY <4>3, <4>4, <4>5, DumpPath, Zenon
        <4>7. index'[w.dump.sha] = index[w.dump.sha]
          BY <3>2, <4>6, Zenon
        <4> QED BY <4>1, <4>2, <4>7, Zenon
      <3>6. /\ waiting # None /\ handler[waiting].pc = "fill" =>
                index[handler[waiting].dump.sha].state = "partial"
            /\ waiting # None /\ handler[waiting].pc = "created" =>
                index[handler[waiting].dump.sha].state = "complete"
        BY <1>1, <2>1, Zenon DEF SentOK
      <3> QED BY <3>4, <3>5, <3>6, Zenon
    <2> QED BY <2>3, <2>4, Zenon
  <1> QED BY <1>10, <1>11, <1>12, <1>13, <1>14, Zenon DEF UploadInv

\* write_index creates the file.
LEMMA OpenInv ==
  ASSUME UploadInv, NEW h \in Handlers, OpenIndex(h), handler[h].dump # None
  PROVE  UploadInv'
  <1>1. PICK r : r = handler[h]
    BY Zenon
  <1>2. RecOK(r, context # None, manifest, dir, settings) /\ IsHandler(r)
    BY <1>1, Zenon DEF UploadInv, HandlersOK, RecOK
  <1>3. PICK q : q = [r EXCEPT !.pc = "fill"]
    BY Zenon
  <1>4. PICK x : x = [NoIndex EXCEPT !.state = "partial"]
    BY Zenon
  <1>5. /\ r.pc = "parts" /\ r.dump # None /\ r.at > Len(r.body)
        /\ handler' = [handler EXCEPT ![h] = q] /\ index' = [index EXCEPT ![r.dump.sha] = x]
        /\ late' = (late \/ (r.ours /\ waiting # h))
        /\ UNCHANGED <<spool, where, waiting, settings>>
    BY <1>1, <1>3, <1>4, Zenon DEF OpenIndex, To, IndexPath
  <1>6. HasFields(q, "fill", r.ours, r.body, r.at, r.dump, r.attachments)
    BY <1>2, <1>3, ToFields, Zenon
  <1>7. q.pc = "fill" /\ q.pc \in {"fill", "created"} /\ q.ours = r.ours /\ q.dump = r.dump
    BY <1>6, Zenon DEF HasFields
  <1>8. RecOK(q, context # None, manifest, dir, settings)
    BY <1>2, <1>3, <1>5, FillOK, Zenon
  <1>9. x.state = "partial" /\ "partial" # "absent" /\ "partial" # "complete"
    BY <1>4 DEF NoIndex
  <1>10. /\ x.state # "absent"
         /\ x.state = "complete" /\ r.ours => RecordOK(x.record, manifest, dir)
         /\ ~ late /\ r.ours /\ waiting = h => x.state = IF q.pc = "fill" THEN "partial" ELSE "complete"
    BY <1>7, <1>9, Zenon
  <1>11. WriteStep(h, r, q, x)
    BY <1>1, <1>5, <1>7, <1>8, <1>10, Zenon DEF WriteStep
  <1> QED BY <1>11, WriteInv, Zenon

\* It writes the record: the upload that is waited for finds the empty file it
\* has created.
LEMMA FillInv ==
  ASSUME UploadInv, NEW h \in Handlers, FillIndex(h)
  PROVE  UploadInv'
  <1>1. PICK r : r = handler[h]
    BY Zenon
  <1>2. RecOK(r, context # None, manifest, dir, settings) /\ IsHandler(r)
    BY <1>1, Zenon DEF UploadInv, HandlersOK, RecOK
  <1>3. PICK q : q = [r EXCEPT !.pc = "created"]
    BY Zenon
  <1>4. PICK record : record = [dump |-> r.dump, attachments |-> r.attachments]
    BY Zenon
  <1>5. /\ r.pc = "fill" /\ handler' = [handler EXCEPT ![h] = q]
        /\ late' = (late \/ (r.ours /\ waiting # h))
        /\ UNCHANGED <<spool, where, waiting, settings>>
    BY <1>1, <1>3, Zenon DEF FillIndex, To
  <1>6. PICK state \in IF index[r.dump.sha].state = "partial" THEN {"complete"} ELSE {"complete", "garbled"} :
            index' = [index EXCEPT ![r.dump.sha] = [state |-> state, record |-> record]]
    BY <1>1, <1>4, Zenon DEF FillIndex, IndexPath
  <1>7. PICK x : x = [state |-> state, record |-> record]
    BY Zenon
  <1>8. HasFields(q, "created", r.ours, r.body, r.at, r.dump, r.attachments)
    BY <1>2, <1>3, ToFields, Zenon
  <1>9. q.pc = "created" /\ q.pc \in {"fill", "created"} /\ q.ours = r.ours /\ q.dump = r.dump
    BY <1>8, Zenon DEF HasFields
  <1>10. RecOK(q, context # None, manifest, dir, settings)
    BY <1>2, <1>3, <1>5, FillOK, Zenon
  <1>11. x.state = state /\ x.record = record /\ state \in {"complete", "garbled"}
    BY <1>6, <1>7, Zenon
  <1>12. "complete" # "absent" /\ "garbled" # "absent" /\ "created" # "fill"
    OBVIOUS
  <1>13. r.ours => RecordOK(record, manifest, dir)
    BY <1>2, <1>4, <1>5, OurRecord, Zenon
  <1>14. ~ late /\ waiting = h => state = "complete"
    <2>1. h # None
      BY CrashUploadAssumption, Zenon
    <2>2. ~ late /\ waiting = h => index[r.dump.sha].state = "partial"
      BY <1>1, <1>5, <2>1, Zenon DEF UploadInv, SentOK
    <2> QED BY <1>6, <2>2, Zenon
  <1>15. /\ x.state # "absent"
         /\ x.state = "complete" /\ r.ours => RecordOK(x.record, manifest, dir)
         /\ ~ late /\ r.ours /\ waiting = h => x.state = IF q.pc = "fill" THEN "partial" ELSE "complete"
    BY <1>9, <1>11, <1>12, <1>13, <1>14, Zenon
  <1>16. index' = [index EXCEPT ![r.dump.sha] = x]
    BY <1>6, <1>7, Zenon
  <1>17. WriteStep(h, r, q, x)
    BY <1>1, <1>5, <1>9, <1>10, <1>15, <1>16, Zenon DEF WriteStep
  <1> QED BY <1>17, WriteInv, Zenon

\* The shipper gets its answer, or gives up.
LEMMA AnsweredInv ==
  ASSUME UploadInv, Answered
  PROVE  UploadInv'
  <1>1. FunctionsOK /\ SpoolOK /\ HandlersOK /\ WaitingOK /\ IndexOK /\ SentOK
    BY Zenon DEF UploadInv
  <1>2. PICK h : h = waiting
    BY Zenon
  <1>3. /\ waiting # None /\ where' = (IF handler[h].pc = "created" THEN "sent" ELSE where)
        /\ waiting' = None /\ handler' = [handler EXCEPT ![h] = Idle]
        /\ UNCHANGED spool /\ index' = index /\ settings' = settings /\ late' = late /\ context' = context
    BY <1>2, Zenon DEF Answered, spool
  <1>4. h \in Handlers /\ where # "sent" /\ handler[h].ours
    BY <1>1, <1>2, <1>3, Zenon DEF WaitingOK
  <1>5. handler' = [g \in Handlers |-> handler'[g]]
    BY <1>1, <1>3, <1>4, HandlerUpdate, Zenon
  <1>6. HandlersOK'
    <2>1. RecOK(Idle, context # None, manifest, dir, settings') /\ settings \subseteq settings'
      BY <1>3, IdleOK, Zenon
    <2> QED BY <1>1, <1>3, <1>4, <2>1, HandlersFrame, Zenon
  <1>7. FunctionsOK' /\ WaitingOK'
    BY <1>1, <1>3, <1>5, Zenon DEF FunctionsOK, WaitingOK
  <1>8. SpoolOK' /\ IndexOK'
    BY <1>1, <1>3, SpoolFrame, IndexFrame, Zenon
  <1>9. SentOK'
    <2> SUFFICES ASSUME ~ late', where' = "sent"
                 PROVE  \E b \in Ours : index'[b].state = "complete"
      BY <1>3, Zenon DEF SentOK
    <2>1. ~ late
      BY <1>3, SMT
    <2>2. handler[h].pc = "created"
      BY <1>3, <1>4, Zenon
    <2>3. index[handler[h].dump.sha].state = "complete"
      BY <1>1, <1>2, <1>3, <2>1, <2>2, Zenon DEF SentOK
    <2>4. handler[h].dump.sha \in Ours
      <3>1. PICK r : r = handler[h]
        BY Zenon
      <3>2. RecOK(r, context # None, manifest, dir, settings) /\ r.ours /\ r.pc = "created"
        BY <1>1, <1>4, <2>2, <3>1, Zenon DEF HandlersOK
      <3>3. r.pc \in {"parts", "fill", "created"} /\ r.pc \in {"fill", "created"}
        BY <3>2, Zenon
      <3>4. r.dump # None
        BY <3>2, <3>3, Zenon DEF RecOK
      <3> QED BY <3>1, <3>2, <3>3, <3>4, DumpPath, Zenon
    <2> QED BY <1>3, <2>3, <2>4, Zenon
  <1> QED BY <1>6, <1>7, <1>8, <1>9, Zenon DEF UploadInv

\* The shipper gives up, or nothing happens.
LEMMA GiveUpInv ==
  ASSUME UploadInv, GiveUp \/ UNCHANGED vars
  PROVE  UploadInv'
  <1>1. FunctionsOK /\ SpoolOK /\ HandlersOK /\ WaitingOK /\ IndexOK /\ SentOK
    BY Zenon DEF UploadInv
  <1>2. /\ waiting' = None \/ waiting' = waiting
        /\ UNCHANGED spool /\ where' = where /\ handler' = handler /\ index' = index
        /\ settings' = settings /\ late' = late /\ context' = context /\ manifest' = manifest /\ dir' = dir
    BY Zenon DEF GiveUp, vars, spool
  <1>3. FunctionsOK' /\ WaitingOK'
    BY <1>1, <1>2, Zenon DEF FunctionsOK, WaitingOK
  <1>4. SpoolOK' /\ IndexOK'
    BY <1>1, <1>2, SpoolFrame, IndexFrame, Zenon
  <1>5. HandlersOK'
    BY <1>1, <1>2, Zenon DEF HandlersOK
  <1>6. SentOK'
    BY <1>1, <1>2, Zenon DEF SentOK, FunctionsOK
  <1> QED BY <1>3, <1>4, <1>5, <1>6, Zenon DEF UploadInv

\* The initial states.
LEMMA UploadInit ==
  ASSUME Init
  PROVE  UploadInv
  <1>1. FunctionsOK /\ SpoolOK
    BY Zenon DEF Init, FunctionsOK, SpoolOK
  <1>2. \A h \in Handlers : handler[h] = Idle
    BY Zenon DEF Init
  <1>3. HandlersOK
    BY <1>2, IdleOK, Zenon DEF HandlersOK
  <1>4. WaitingOK
    BY DEF Init, WaitingOK
  <1>5. \A b \in Ours : index[b] = NoIndex
    BY Zenon DEF Init, Ours
  <1>6. NoIndex.state = "absent" /\ "absent" # "complete"
    BY DEF NoIndex
  <1>7. IndexOK
    BY <1>5, <1>6, Zenon DEF IndexOK
  <1>8. SentOK
    <2>1. where # "sent" /\ waiting = None
      BY DEF Init
    <2> QED BY <2>1, Zenon DEF SentOK
  <1> QED BY <1>1, <1>3, <1>4, <1>7, <1>8, Zenon DEF UploadInv

\* UploadInv is inductive.
THEOREM UploadInductive == Spec => []UploadInv
  <1>1. Init => UploadInv
    BY UploadInit, Zenon
  <1>2. UploadInv /\ [Next]_vars => UploadInv'
    <2> SUFFICES ASSUME UploadInv, [Next]_vars PROVE UploadInv'
      BY Zenon
    <2>1. ASSUME NEW files \in ContextLists, NEW k \in {"panic", "minidump"}, Capture(files, k)
          PROVE  UploadInv'
      BY <2>1, CaptureInv, Zenon
    <2>2. ASSUME NEW h \in Handlers, NEW config \in ShipConfigs, Post(h, config) PROVE UploadInv'
      BY <2>2, PostInv, Zenon
    <2>3. ASSUME NEW h \in Handlers,
                 \/ \E body \in OtherBodies : PostOther(h, body)
                 \/ FirstPart(h) \/ NextPart(h) \/ Drop(h)
          PROVE  UploadInv'
      BY <2>3, EarlyInv, Zenon
    <2>4. ASSUME NEW h \in Handlers, OpenIndex(h) PROVE UploadInv'
      BY <2>4, EarlyInv, OpenInv, Zenon
    <2>5. ASSUME NEW h \in Handlers, FillIndex(h) PROVE UploadInv'
      BY <2>5, FillInv, Zenon
    <2>6. ASSUME Answered \/ GiveUp \/ UNCHANGED vars PROVE UploadInv'
      BY <2>6, AnsweredInv, GiveUpInv, Zenon
    <2> QED BY <2>1, <2>2, <2>3, <2>4, <2>5, <2>6, Zenon DEF Next
  <1> QED BY <1>1, <1>2, PTL DEF Spec

\* SentIsStored, for any number of handlers and uploads.
THEOREM SentSafety == Spec => []SentIsStored
  <1>1. UploadInv => SentIsStored
    BY Zenon DEF UploadInv, SentOK, SentIsStored
  <1> QED BY <1>1, UploadInductive, PTL

\* Under names that can be told apart every context file is in the entry.
LEMMA DirContext ==
  ASSUME SpoolOK, context # None, NamesApart, NEW j \in 1 .. Len(context)
  PROVE  dir[context[j].name] = context[j].data /\ j \in DOMAIN context
  <1>1. PICK files : files = context
    BY Zenon
  <1>2. files \in Seq(File)
    BY <1>1, SpoolFacts, Zenon
  <1>3. PICK n \in Nat : n = Len(files)
    BY <1>2, WritesFacts, Zenon
  <1>4. PICK w : w = Writes(files)
    BY Zenon
  <1>5. /\ DOMAIN w = 1 .. n + 3 /\ DOMAIN files = 1 .. n
        /\ \A i \in 1 .. n : w[i] = files[i]
        /\ w[n + 1].name = "metadata.json" /\ w[n + 2].name = "dump.bin"
        /\ w[n + 3].name = "sdk-config.json"
    BY <1>2, <1>3, <1>4, WritesFacts, Zenon
  <1>6. j \in 1 .. n /\ j <= j /\ j \in 1 .. n + 3 /\ 1 .. n + 3 \subseteq Nat
    BY <1>1, <1>3
  <1>7. \A i \in 1 .. n + 3 : i \in 1 .. n \/ i = n + 1 \/ i = n + 2 \/ i = n + 3
    BY SMT
  <1>8. \A i \in 1 .. n : files[i].name = files[j].name => i = j
    BY <1>1, <1>5, <1>6, Zenon DEF NamesApart
  <1>9. files[j].name # "metadata.json" /\ files[j].name # "dump.bin" /\ files[j].name # "sdk-config.json"
    BY <1>1, <1>5, <1>6, Zenon DEF NamesApart, Reserved
  <1>10. w[j] = files[j]
    BY <1>5, <1>6, Zenon
  <1>11. ASSUME NEW i \in DOMAIN w, w[i].name = w[j].name PROVE i <= j
    <2>1. i \in 1 .. n
      BY <1>5, <1>7, <1>9, <1>10, <1>11, Zenon
    <2>2. w[i] = files[i]
      BY <1>5, <2>1, Zenon
    <2>3. i = j
      BY <1>8, <1>10, <1>11, <2>1, <2>2, Zenon
    <2> QED BY <1>6, <2>3, Zenon
  <1>12. DOMAIN w \subseteq Nat /\ j \in DOMAIN w
    BY <1>5, <1>6, Zenon
  <1>13. Left(w)[w[j].name] = w[j].data
    BY <1>11, <1>12, LeftIs, Zenon
  <1>14. dir = Left(w)
    BY <1>1, <1>4, Zenon DEF SpoolOK
  <1> QED BY <1>1, <1>5, <1>6, <1>10, <1>13, <1>14, Zenon

\* What the manifest promises is what was wanted.
LEMMA ManifestIsWanted ==
  ASSUME SpoolOK, context # None, NamesApart
  PROVE  \A e : e \in Wanted <=> \E i \in DOMAIN manifest : e = <<manifest[i].key, dir[manifest[i].filename]>>
  <1>1. IsManifest(manifest, context, kind) /\ dir["sdk-config.json"] = "config" /\ context \in Seq(File)
    BY SpoolFacts, Zenon
  <1>2. DOMAIN context = 1 .. Len(context)
    BY <1>1, WritesFacts, Zenon
  <1>3. ASSUME NEW i \in DOMAIN manifest, manifest[i] = SdkConfig
        PROVE  <<manifest[i].key, dir[manifest[i].filename]>> = <<SdkConfig.key, "config">>
    BY <1>1, <1>3, EntryFields, Zenon
  <1>4. ASSUME NEW i \in DOMAIN manifest, NEW j \in 1 .. Len(context), manifest[i] = ContextEntry(context, j)
        PROVE  <<manifest[i].key, dir[manifest[i].filename]>> = <<<<"context", j>>, context[j].data>>
    <2>1. manifest[i].key = <<"context", j>> /\ manifest[i].filename = context[j].name
      BY <1>4, EntryFields, Zenon
    <2>2. dir[context[j].name] = context[j].data
      BY DirContext, Zenon
    <2> QED BY <2>1, <2>2, Zenon
  <1> TAKE e
  <1>5. ASSUME e \in Wanted
        PROVE  \E i \in DOMAIN manifest : e = <<manifest[i].key, dir[manifest[i].filename]>>
    <2>1. CASE kind = "panic" /\ e = <<SdkConfig.key, "config">>
      <3>1. PICK i \in DOMAIN manifest : manifest[i] = SdkConfig
        BY <1>1, <2>1, Zenon DEF IsManifest
      <3> QED BY <1>3, <2>1, <3>1, Zenon
    <2>2. CASE \E j \in 1 .. Len(context) : e = <<<<"context", j>>, context[j].data>>
      <3>1. PICK j \in 1 .. Len(context) : e = <<<<"context", j>>, context[j].data>>
        BY <2>2, Zenon
      <3>2. PICK i \in DOMAIN manifest : manifest[i] = ContextEntry(context, j)
        BY <1>1, Zenon DEF IsManifest
      <3> QED BY <1>4, <3>1, <3>2, Zenon
    <2> QED BY <1>2, <1>5, <2>1, <2>2, Zenon DEF Wanted
  <1>6. ASSUME NEW i \in DOMAIN manifest, e = <<manifest[i].key, dir[manifest[i].filename]>>
        PROVE  e \in Wanted
    <2>1. CASE kind = "panic" /\ manifest[i] = SdkConfig
      BY <1>3, <1>6, <2>1, Zenon DEF Wanted
    <2>2. CASE \E j \in 1 .. Len(context) : manifest[i] = ContextEntry(context, j)
      BY <1>2, <1>4, <1>6, <2>2, Zenon DEF Wanted
    <2> QED BY <1>1, <2>1, <2>2, Zenon DEF IsManifest
  <1> QED BY <1>5, <1>6, Zenon

\* RecordsAreFaithful, for any context files whose names can be told apart, any
\* compression levels and any order of uploads.
THEOREM FaithfulSafety == Spec => []RecordsAreFaithful
  <1>1. UploadInv => RecordsAreFaithful
    <2> SUFFICES ASSUME UploadInv, context # None, NamesApart, NEW b \in Ours, index[b].state = "complete"
                 PROVE  Faithful(index[b].record)
      BY Zenon DEF RecordsAreFaithful
    <2>1. PICK record : record = index[b].record
      BY Zenon
    <2>2. PICK at : at = record.attachments
      BY Zenon
    <2>3. /\ Decoded(record.dump) = "dump" /\ DOMAIN at = DOMAIN manifest
          /\ \A i \in DOMAIN manifest : /\ at[i].key = manifest[i].key
                                        /\ Decoded(at[i].pointer) = dir[manifest[i].filename]
      BY <2>1, <2>2, Zenon DEF UploadInv, IndexOK, RecordOK
    <2>4. ASSUME NEW i \in DOMAIN manifest
          PROVE  <<at[i].key, Decoded(at[i].pointer)>> = <<manifest[i].key, dir[manifest[i].filename]>>
      BY <2>3, Zenon
    <2>5. Range(at) = {at[i] : i \in DOMAIN manifest}
      BY <2>3, Zenon DEF Range
    <2>6. \A e : e \in Wanted <=> \E i \in DOMAIN manifest : e = <<manifest[i].key, dir[manifest[i].filename]>>
      BY ManifestIsWanted, Zenon DEF UploadInv
    <2>7. \A e : e \in Wanted <=> \E i \in DOMAIN manifest : e = <<at[i].key, Decoded(at[i].pointer)>>
      <3> TAKE e
      <3>1. ASSUME e \in Wanted PROVE \E i \in DOMAIN manifest : e = <<at[i].key, Decoded(at[i].pointer)>>
        <4>1. PICK i \in DOMAIN manifest : e = <<manifest[i].key, dir[manifest[i].filename]>>
          BY <2>6, <3>1, Zenon
        <4>2. e = <<at[i].key, Decoded(at[i].pointer)>>
          BY <2>4, <4>1, Zenon
        <4> QED BY <4>2, Zenon
      <3>2. ASSUME NEW i \in DOMAIN manifest, e = <<at[i].key, Decoded(at[i].pointer)>> PROVE e \in Wanted
        <4>1. e = <<manifest[i].key, dir[manifest[i].filename]>>
          BY <2>4, <3>2, Zenon
        <4> QED BY <2>6, <4>1, Zenon
      <3> QED BY <3>1, <3>2, Zenon
    <2>8. ASSUME NEW e
          PROVE  e \in {<<a.key, Decoded(a.pointer)>> : a \in Range(at)} <=> e \in Wanted
      BY <2>5, <2>7, Zenon
    <2>9. {<<a.key, Decoded(a.pointer)>> : a \in Range(at)} = Wanted
      BY <2>8, Zenon
    <2> QED BY <2>1, <2>2, <2>3, <2>9, Zenon DEF Faithful
  <1> QED BY <1>1, UploadInductive, PTL

-----------------------------------------------------------------------------
(* The library's reader                                                    *)

\* f is what the reader has read after each of the first k parts.
IsRun(f, body, k) ==
    f = [n \in 0 .. k |-> IF n = 0 THEN NothingRead ELSE ReadPart(f[n - 1], body[n])]

\* The reader's loop is a function with this recurrence, if there is one.
LEMMA ReadPartsIs ==
  ASSUME NEW body
  PROVE  ReadParts(body) = CHOOSE f : IsRun(f, body, Len(body))
BY Zenon DEF ReadParts, IsRun

\* The loop can be run over any number of parts.
LEMMA RunExists ==
  ASSUME NEW body, NEW k \in Nat
  PROVE  \E f : IsRun(f, body, k)
  <1> DEFINE R == {ij \in Nat \X Nat : ij[1] < ij[2]}
             B == {n \in Nat : ~ \E f : IsRun(f, body, n)}
  <1> SUFFICES ASSUME B # {} PROVE FALSE
    BY Zenon
  <1>1. IsWellFoundedOn(R, Nat)
    BY NatLessThanWellFounded, Zenon DEF OpToRel
  <1>2. B \subseteq Nat
    BY Zenon
  <1>3. PICK m \in B : \A y \in B : ~ (<<y, m>> \in R)
    <2> HIDE DEF R, B
    <2> QED BY <1>1, <1>2, WFMin, Zenon
  <1>4. m \in Nat /\ ~ \E f : IsRun(f, body, m)
    BY <1>3, Zenon
  <1>5. CASE m = 0
    <2>1. PICK f : f = [n \in 0 .. 0 |-> NothingRead]
      BY Zenon
    <2>2. \A n \in 0 .. 0 : n = 0
      BY SMT
    <2>3. f = [n \in 0 .. 0 |-> IF n = 0 THEN NothingRead ELSE ReadPart(f[n - 1], body[n])]
      BY <2>1, <2>2, Zenon
    <2> QED BY <1>4, <1>5, <2>3, Zenon DEF IsRun
  <1>6. CASE m # 0
    <2>1. m - 1 \in Nat /\ m - 1 < m /\ m \in Nat
      BY <1>4, <1>6, SMT
    <2>2. <<m - 1, m>> \in R
      BY <2>1
    <2>3. PICK g : IsRun(g, body, m - 1)
      BY <1>3, <2>1, <2>2, Zenon
    <2>4. PICK f : f = [n \in 0 .. m |-> IF n = m THEN ReadPart(g[m - 1], body[m]) ELSE g[n]]
      BY Zenon
    <2>5. \A n \in 0 .. m : n # m => n \in 0 .. m - 1
      BY <1>4, SMT
    <2>6. \A n \in 0 .. m : n # 0 => n - 1 \in 0 .. m /\ n - 1 # m
      BY <1>4, SMT
    <2>7. m \in 0 .. m /\ m # 0 /\ m - 1 \in 0 .. m /\ m - 1 # m
      BY <1>4, <1>6, SMT
    <2>8. ASSUME NEW n \in 0 .. m
          PROVE  f[n] = IF n = 0 THEN NothingRead ELSE ReadPart(f[n - 1], body[n])
      <3>1. CASE n = m
        <4>1. f[m] = ReadPart(g[m - 1], body[m]) /\ f[m - 1] = g[m - 1]
          BY <2>4, <2>7, Zenon
        <4> QED BY <2>7, <3>1, <4>1, Zenon
      <3>2. CASE n # m
        <4>1. f[n] = g[n] /\ n \in 0 .. m - 1
          BY <2>4, <2>5, <3>2, Zenon
        <4>2. g[n] = IF n = 0 THEN NothingRead ELSE ReadPart(g[n - 1], body[n])
          BY <2>3, <4>1, Zenon DEF IsRun
        <4>3. n # 0 => f[n - 1] = g[n - 1]
          BY <2>4, <2>6, Zenon
        <4> QED BY <4>1, <4>2, <4>3, Zenon
      <3> QED BY <3>1, <3>2, Zenon
    <2>9. IsRun(f, body, m)
      BY <2>4, <2>8, Zenon DEF IsRun
    <2> QED BY <1>4, <2>9, Zenon
  <1> QED BY <1>5, <1>6, Zenon

\* So what it reads is what the loop says, part by part.
LEMMA ReadPartsRun ==
  ASSUME NEW body, Len(body) \in Nat
  PROVE  /\ ReadParts(body)[0] = NothingRead
         /\ \A n \in 1 .. Len(body) : ReadParts(body)[n] = ReadPart(ReadParts(body)[n - 1], body[n])
  <1>1. PICK f : f = ReadParts(body)
    BY Zenon
  <1>2. IsRun(f, body, Len(body))
    BY <1>1, ReadPartsIs, RunExists, Zenon
  <1>3. 0 \in 0 .. Len(body) /\ \A n \in 1 .. Len(body) : n \in 0 .. Len(body) /\ n # 0
    BY SMT
  <1>4. f = [n \in 0 .. Len(body) |-> IF n = 0 THEN NothingRead ELSE ReadPart(f[n - 1], body[n])]
    BY <1>2, Zenon DEF IsRun
  <1>5. f[0] = NothingRead
    BY <1>3, <1>4, Zenon
  <1>6. ASSUME NEW n \in 1 .. Len(body) PROVE f[n] = ReadPart(f[n - 1], body[n])
    BY <1>3, <1>4, Zenon
  <1> QED BY <1>1, <1>5, <1>6, Zenon

\* What the reader holds.
Read(e, t) == [ok |-> TRUE, metadata |-> TRUE, dump |-> e, attachments |-> t]

\* A turn of the loop on the parts that the handler takes.
LEMMA ReadMetadataIs ==
  ASSUME NEW part, part.name = "metadata"
  PROVE  ReadPart(NothingRead, part) = Read(None, <<>>)
  <1>1. "metadata" # "dump" /\ "metadata" # "attach"
    OBVIOUS
  <1>2. ReadPart(NothingRead, part) = [NothingRead EXCEPT !.metadata = TRUE]
    BY <1>1 DEF ReadPart
  <1>3. PICK q : q = [NothingRead EXCEPT !.metadata = TRUE]
    BY Zenon
  <1>4. q = [ok |-> TRUE, metadata |-> TRUE, dump |-> None, attachments |-> <<>>]
    BY <1>3, Zenon DEF NothingRead
  <1> QED BY <1>2, <1>3, <1>4, Zenon DEF Read

\* Of the dump part.
LEMMA ReadDumpIs ==
  ASSUME NEW e, NEW t, NEW part, part.name = "dump"
  PROVE  ReadPart(Read(e, t), part) = Read(part.bytes, t)
  <1>1. "metadata" # "dump" /\ "dump" # "attach"
    OBVIOUS
  <1>2. PICK r : r = Read(e, t)
    BY Zenon
  <1>3. ReadPart(r, part) = [r EXCEPT !.dump = part.bytes]
    BY <1>1 DEF ReadPart
  <1>4. PICK q : q = [r EXCEPT !.dump = part.bytes]
    BY Zenon
  <1>5. q = Read(part.bytes, t)
    BY <1>2, <1>4, Zenon DEF Read
  <1> QED BY <1>2, <1>3, <1>4, <1>5, Zenon

\* Of an attachment part.
LEMMA ReadAttachIs ==
  ASSUME NEW e, NEW t, NEW part, part.name = "attach"
  PROVE  ReadPart(Read(e, t), part)
            = Read(e, Append(t, [key |-> part.key, ctype |-> part.ctype, bytes |-> part.bytes]))
  <1>1. "metadata" # "attach" /\ "dump" # "attach"
    OBVIOUS
  <1>2. PICK r, x : r = Read(e, t) /\ x = [key |-> part.key, ctype |-> part.ctype, bytes |-> part.bytes]
    BY Zenon
  <1>3. ReadPart(r, part) = [r EXCEPT !.attachments = Append(@, x)]
    BY <1>1, <1>2 DEF ReadPart
  <1>4. PICK q : q = [r EXCEPT !.attachments = Append(@, x)]
    BY Zenon
  <1>5. q = Read(e, Append(t, x))
    BY <1>2, <1>4, Zenon DEF Read
  <1> QED BY <1>2, <1>3, <1>4, <1>5, Zenon

\* The attachments of a record as the reader would hold them.
AsRead(t) ==
    [i \in DOMAIN t |-> [key |-> t[i].key, ctype |-> t[i].ctype, bytes |-> t[i].pointer.sha]]

\* The handler has of the parts so far what the reader has of them.
ReadRec(r) ==
    r.pc \in {"parts", "fill", "created"} =>
        ReadParts(r.body)[r.at - 1] = Read(IF r.dump = None THEN None ELSE r.dump.sha, AsRead(r.attachments))

ReadInv == \A h \in Handlers : ReadRec(handler[h])

\* A step that leaves these fields alone.
LEMMA ReadSame ==
  ASSUME NEW r, NEW q, ReadRec(r), q.body = r.body, q.at = r.at, q.dump = r.dump,
         q.attachments = r.attachments, r.pc \in {"parts", "fill", "created"}
  PROVE  ReadRec(q)
BY Zenon DEF ReadRec

\* The metadata part.
LEMMA ReadFirst ==
  ASSUME NEW r, GoodBody(r.body), r.body[1].name = "metadata", r.at = 2, r.dump = None, r.attachments = <<>>
  PROVE  ReadRec(r)
  <1>1. Len(r.body) \in Nat \ {0}
    BY Zenon DEF GoodBody
  <1>2. Len(r.body) \in Nat /\ 1 \in 1 .. Len(r.body) /\ 2 - 1 = 1 /\ 1 - 1 = 0
    BY <1>1, SMT
  <1>3. ReadParts(r.body)[1] = ReadPart(ReadParts(r.body)[0], r.body[1])
    BY <1>2, ReadPartsRun, Zenon
  <1>4. ReadParts(r.body)[1] = Read(None, <<>>)
    BY <1>2, <1>3, ReadPartsRun, ReadMetadataIs, Zenon
  <1>5. AsRead(<<>>) = <<>>
    BY SMT DEF AsRead
  <1> QED BY <1>2, <1>4, <1>5, Zenon DEF ReadRec

\* A part that the handler is at.
LEMMA ReadNext ==
  ASSUME NEW r, ReadRec(r), r.pc = "parts", r.at \in Nat, 2 <= r.at, r.at <= Len(r.body), Len(r.body) \in Nat
  PROVE  ReadParts(r.body)[(r.at + 1) - 1] =
            ReadPart(Read(IF r.dump = None THEN None ELSE r.dump.sha, AsRead(r.attachments)), r.body[r.at])
  <1>0. PICK body, n : body = r.body /\ n = r.at
    BY Zenon
  <1>1. n \in 1 .. Len(body) /\ (n + 1) - 1 = n
    BY <1>0, SMT
  <1>2. ReadParts(body)[n] = ReadPart(ReadParts(body)[n - 1], body[n])
    BY <1>0, <1>1, ReadPartsRun, Zenon
  <1>3. "parts" \in {"parts", "fill", "created"}
    OBVIOUS
  <1>4. ReadParts(body)[n - 1] = Read(IF r.dump = None THEN None ELSE r.dump.sha, AsRead(r.attachments))
    BY <1>0, <1>3, Zenon DEF ReadRec
  <1> QED BY <1>0, <1>1, <1>2, <1>4, Zenon

\* A dump part.
LEMMA ReadDump ==
  ASSUME NEW c, NEW m, NEW d, NEW s, NEW r, RecOK(r, c, m, d, s), r.pc = "parts", ReadRec(r),
         r.at <= Len(r.body), r.body[r.at].name = "dump",
         NEW q, q = [r EXCEPT !.at = r.at + 1, !.dump = Pointer(r.body[r.at])]
  PROVE  ReadRec(q)
  <1>1. /\ IsHandler(r) /\ Progress(r) /\ GoodBody(r.body) /\ r.at \in Nat
        /\ Len(r.body) \in Nat /\ r.at \in DOMAIN r.body
    BY PartsFacts, Zenon
  <1>2. HasFields(q, r.pc, r.ours, r.body, r.at + 1, Pointer(r.body[r.at]), r.attachments)
    BY <1>1, DumpFields, Zenon
  <1>3. q.body = r.body /\ q.at = r.at + 1 /\ q.dump = Pointer(r.body[r.at]) /\ q.attachments = r.attachments
    BY <1>2, Zenon DEF HasFields
  <1>4. PICK p : p = r.body[r.at]
    BY Zenon
  <1>5. PICK e : e = IF r.dump = None THEN None ELSE r.dump.sha
    BY Zenon
  <1>6. 2 <= r.at
    BY <1>1, Zenon DEF Progress
  <1>70. ReadParts(r.body)[(r.at + 1) - 1] =
            ReadPart(Read(IF r.dump = None THEN None ELSE r.dump.sha, AsRead(r.attachments)), r.body[r.at])
    BY <1>1, <1>6, ReadNext, Zenon
  <1>7. ReadParts(r.body)[(r.at + 1) - 1] = ReadPart(Read(e, AsRead(r.attachments)), p)
    BY <1>4, <1>5, <1>70, Zenon
  <1>80. p.name = "dump"
    BY <1>4, Zenon
  <1>8. ReadPart(Read(e, AsRead(r.attachments)), p) = Read(p.bytes, AsRead(r.attachments))
    BY <1>80, ReadDumpIs, Zenon
  <1>9. Pointer(r.body[r.at]) # None
    BY <1>1, PointerFacts, Zenon
  <1>10. q.dump # None /\ q.dump.sha = p.bytes
    BY <1>3, <1>4, <1>9, PointerFields, Zenon
  <1>11. ReadParts(q.body)[q.at - 1] = Read(p.bytes, AsRead(q.attachments))
    BY <1>3, <1>7, <1>8, Zenon
  <1> QED BY <1>10, <1>11, Zenon DEF ReadRec

\* An attachment is appended in the same place on both sides.
LEMMA AsReadAppend ==
  ASSUME NEW S, NEW t \in Seq(S), NEW part, Attachment(part) \in S
  PROVE  AsRead(Append(t, Attachment(part)))
            = Append(AsRead(t), [key |-> part.key, ctype |-> part.ctype, bytes |-> part.bytes])
  <1> DEFINE Item(a) == [key |-> a.key, ctype |-> a.ctype, bytes |-> a.pointer.sha]
  <1>1. PICK x, y : x = Attachment(part) /\ y = [key |-> part.key, ctype |-> part.ctype, bytes |-> part.bytes]
    BY Zenon
  <1>2. Item(x) = y
    <2>1. x.key = part.key /\ x.ctype = part.ctype /\ x.pointer = Pointer(part)
      BY <1>1, Zenon DEF Attachment
    <2>2. x.pointer.sha = part.bytes
      BY <2>1, PointerFields, Zenon
    <2> QED BY <1>1, <2>1, <2>2, Zenon
  <1>3. PICK n \in Nat : n = Len(t) /\ DOMAIN t = 1 .. n
    <2>1. Len(t) \in Nat /\ DOMAIN t = 1 .. Len(t)
      BY SMT
    <2> QED BY <2>1, Zenon
  <1>4. PICK T : T = {Item(t[i]) : i \in 1 .. n} \cup {y}
    BY Zenon
  <1>5. PICK a : a = AsRead(t)
    BY Zenon
  <1>6. a = [i \in 1 .. n |-> Item(t[i])]
    BY <1>3, <1>5, Zenon DEF AsRead
  <1> HIDE DEF Item
  <1>7. a \in Seq(T) /\ Len(a) = n
    <2>1. a \in [1 .. n -> T]
      BY <1>4, <1>6, Zenon
    <2> QED BY <2>1, SeqOf, Zenon
  <1>8. a \in Seq(T) /\ y \in T
    BY <1>4, <1>7, Zenon
  <1>9. PICK u, v : u = Append(t, x) /\ v = Append(a, y)
    BY Zenon
  <1>10. /\ u \in Seq(S) /\ DOMAIN u = 1 .. Len(t) + 1
         /\ \A i \in 1 .. Len(t) : u[i] = t[i]
         /\ u[Len(t) + 1] = x
    <2>1. x \in S
      BY <1>1, Zenon
    <2> QED BY <1>9, <2>1, AppendIs, SMT
  <1>11. /\ v \in Seq(T) /\ DOMAIN v = 1 .. Len(a) + 1
         /\ \A i \in 1 .. Len(a) : v[i] = a[i]
         /\ v[Len(a) + 1] = y
    <2>1. a \in Seq(T)
      BY <1>8, Zenon
    <2>2. y \in T
      BY <1>8, Zenon
    <2>3. v = Append(a, y)
      BY <1>9, Zenon
    <2> QED BY ONLY <2>1, <2>2, <2>3, AppendIs, SMT
  <1>12. DOMAIN u = 1 .. n + 1 /\ DOMAIN v = 1 .. n + 1
    BY <1>3, <1>7, <1>10, <1>11, Zenon
  <1>13. \A i \in 1 .. n + 1 : i \in 1 .. n \/ i = n + 1
    BY SMT
  <1>14. ASSUME NEW i \in 1 .. n + 1 PROVE Item(u[i]) = v[i]
    <2>1. CASE i \in 1 .. n
      <3>1. u[i] = t[i] /\ v[i] = a[i] /\ a[i] = Item(t[i])
        BY <1>3, <1>6, <1>7, <1>10, <1>11, <2>1, ZenonT(40)
      <3> QED BY <3>1, Zenon
    <2>2. CASE i = n + 1
      <3>1. u[n + 1] = x /\ v[n + 1] = y
        BY <1>3, <1>7, <1>10, <1>11, Zenon
      <3> QED BY <1>2, <2>2, <3>1, Zenon
    <2> QED BY <1>13, <2>1, <2>2, Zenon
  <1>15. AsRead(u) = [i \in 1 .. n + 1 |-> Item(u[i])]
    BY <1>12, Zenon DEF AsRead, Item
  <1>16. v = [i \in 1 .. n + 1 |-> v[i]]
    <2>1. v = [i \in DOMAIN v |-> v[i]]
      BY <1>11, SMT
    <2> QED BY <1>12, <2>1, Zenon
  <1>17. AsRead(u) = v
    BY <1>14, <1>15, <1>16, Zenon
  <1> QED BY <1>1, <1>5, <1>9, <1>17, Zenon

\* An attachment part.
LEMMA ReadAttach ==
  ASSUME NEW c, NEW m, NEW d, NEW s, NEW r, RecOK(r, c, m, d, s), r.pc = "parts", ReadRec(r),
         r.at <= Len(r.body), r.body[r.at].name = "attach",
         NEW q, q = [r EXCEPT !.at = r.at + 1,
                              !.attachments = Append(r.attachments, Attachment(r.body[r.at]))]
  PROVE  ReadRec(q)
  <1>1. /\ IsHandler(r) /\ Progress(r) /\ GoodBody(r.body) /\ r.at \in Nat
        /\ Len(r.body) \in Nat /\ r.at \in DOMAIN r.body
    BY PartsFacts, Zenon
  <1>2. PICK p, t, e : /\ p = r.body[r.at] /\ t = r.attachments
                       /\ e = IF r.dump = None THEN None ELSE r.dump.sha
    BY Zenon
  <1>3. PICK u, y : /\ u = Append(t, Attachment(p))
                    /\ y = [key |-> p.key, ctype |-> p.ctype, bytes |-> p.bytes]
    BY Zenon
  <1>4. HasFields(q, r.pc, r.ours, r.body, r.at + 1, r.dump, u)
    BY <1>1, <1>2, <1>3, AttachFields, Zenon
  <1>5. q.body = r.body /\ q.at = r.at + 1 /\ q.dump = r.dump /\ q.attachments = u
    BY <1>4, Zenon DEF HasFields
  <1>6. 2 <= r.at /\ t \in Seq(AttachmentsOf(r.body))
    BY <1>1, <1>2, Zenon DEF Progress
  <1>7. Attachment(p) \in AttachmentsOf(r.body)
    BY <1>1, <1>2, Zenon DEF AttachmentsOf
  <1>8. ReadParts(r.body)[(r.at + 1) - 1] =
            ReadPart(Read(IF r.dump = None THEN None ELSE r.dump.sha, AsRead(r.attachments)), r.body[r.at])
    BY <1>1, <1>6, ReadNext, Zenon
  <1>9. ReadParts(r.body)[(r.at + 1) - 1] = ReadPart(Read(e, AsRead(t)), p)
    BY <1>2, <1>8, Zenon
  <1>10. p.name = "attach"
    BY <1>2, Zenon
  <1>11. ReadPart(Read(e, AsRead(t)), p) = Read(e, Append(AsRead(t), y))
    BY <1>3, <1>10, ReadAttachIs, Zenon
  <1>12. AsRead(u) = Append(AsRead(t), y)
    BY <1>3, <1>6, <1>7, AsReadAppend, Zenon
  <1>13. ReadParts(q.body)[q.at - 1] = Read(e, AsRead(q.attachments))
    BY <1>5, <1>9, <1>11, <1>12, Zenon
  <1> QED BY <1>2, <1>5, <1>13, Zenon DEF ReadRec

\* A handler that does not work on the parts.
LEMMA ReadElse ==
  ASSUME NEW q, q.pc \notin {"parts", "fill", "created"}
  PROVE  ReadRec(q)
BY Zenon DEF ReadRec

\* One handler changes.
LEMMA ReadUpdate ==
  ASSUME FunctionsOK, ReadInv, NEW h \in Handlers, NEW q, handler' = [handler EXCEPT ![h] = q], ReadRec(q)
  PROVE  ReadInv'
  <1>1. handler'[h] = q /\ \A g \in Handlers : g # h => handler'[g] = handler[g]
    BY HandlerUpdate, Zenon
  <1>2. ASSUME NEW g \in Handlers PROVE ReadRec(handler'[g])
    <2>1. CASE g = h
      BY <1>1, <2>1, Zenon
    <2>2. CASE g # h
      <3>1. handler'[g] = handler[g] /\ ReadRec(handler[g])
        BY <1>1, <2>2, Zenon DEF ReadInv
      <3> QED BY <3>1, Zenon
    <2> QED BY <2>1, <2>2, Zenon
  <1> QED BY <1>2, Zenon DEF ReadInv

\* A handler goes on to an end that is not "created", or to "fill" or "created".
LEMMA ReadTo ==
  ASSUME UploadInv, ReadInv, NEW h \in Handlers, NEW x, To(h, x),
         \/ x \in {"rejected", "toolarge", "failed"}
         \/ handler[h].pc \in {"parts", "fill", "created"}
  PROVE  ReadInv'
  <1>1. PICK r : r = handler[h]
    BY Zenon
  <1>2. IsHandler(r) /\ FunctionsOK /\ ReadRec(r)
    BY <1>1, Zenon DEF UploadInv, HandlersOK, RecOK, ReadInv
  <1>3. PICK q : q = [r EXCEPT !.pc = x]
    BY Zenon
  <1>4. HasFields(q, x, r.ours, r.body, r.at, r.dump, r.attachments)
    BY <1>2, <1>3, ToFields, Zenon
  <1>5. q.pc = x /\ q.body = r.body /\ q.at = r.at /\ q.dump = r.dump /\ q.attachments = r.attachments
    BY <1>4, Zenon DEF HasFields
  <1>6. CASE x \in {"rejected", "toolarge", "failed"}
    <2>1. q.pc \notin {"parts", "fill", "created"}
      BY <1>5, <1>6
    <2>2. ReadRec(q) /\ handler' = [handler EXCEPT ![h] = q]
      BY <1>1, <1>3, <2>1, ReadElse, Zenon DEF To
    <2> QED BY <1>2, <2>2, ReadUpdate, Zenon
  <1>7. CASE r.pc \in {"parts", "fill", "created"}
    <2>1. ReadRec(q)
      BY <1>2, <1>5, <1>7, ReadSame, Zenon
    <2>2. handler' = [handler EXCEPT ![h] = q]
      BY <1>1, <1>3, Zenon DEF To
    <2> QED BY <1>2, <2>1, <2>2, ReadUpdate, Zenon
  <1> QED BY <1>1, <1>6, <1>7, Zenon

\* A handler starts or is idle again.
LEMMA ReadStart ==
  ASSUME UploadInv, ReadInv, NEW h \in Handlers, NEW b,
         \/ handler' = [handler EXCEPT ![h] = [Idle EXCEPT !.pc = "first", !.ours = TRUE, !.body = b]]
         \/ handler' = [handler EXCEPT ![h] = [Idle EXCEPT !.pc = "first", !.body = b]]
         \/ handler' = [handler EXCEPT ![h] = Idle]
  PROVE  ReadInv'
  <1>1. PICK u, v : /\ u = [Idle EXCEPT !.pc = "first", !.ours = TRUE, !.body = b]
                    /\ v = [Idle EXCEPT !.pc = "first", !.body = b]
    BY Zenon
  <1>2. "first" \notin {"parts", "fill", "created"} /\ "idle" \notin {"parts", "fill", "created"}
    OBVIOUS
  <1>3. u.pc = "first" /\ v.pc = "first" /\ Idle.pc = "idle"
    BY <1>1, StartFields, IdleFields, Zenon DEF HasFields
  <1>4. ReadRec(u) /\ ReadRec(v) /\ ReadRec(Idle)
    BY <1>2, <1>3, ReadElse, Zenon
  <1>5. FunctionsOK
    BY Zenon DEF UploadInv
  <1>6. CASE handler' = [handler EXCEPT ![h] = u]
    BY <1>4, <1>5, <1>6, ReadUpdate, Zenon
  <1>7. CASE handler' = [handler EXCEPT ![h] = v]
    BY <1>4, <1>5, <1>7, ReadUpdate, Zenon
  <1>8. CASE handler' = [handler EXCEPT ![h] = Idle]
    BY <1>4, <1>5, <1>8, ReadUpdate, Zenon
  <1> QED BY <1>1, <1>6, <1>7, <1>8, Zenon

\* The first part is read.
LEMMA ReadFirstStep ==
  ASSUME UploadInv, ReadInv, NEW h \in Handlers, FirstPart(h)
  PROVE  ReadInv'
  <1>1. PICK r : r = handler[h]
    BY Zenon
  <1>2. FunctionsOK /\ RecOK(r, context # None, manifest, dir, settings) /\ IsHandler(r) /\ r.pc = "first"
    BY <1>1, Zenon DEF UploadInv, HandlersOK, RecOK, FirstPart
  <1>3. CASE r.body[1].name = "metadata" /\ handler' = [handler EXCEPT ![h] = [@ EXCEPT !.pc = "parts", !.at = 2]]
    <2>1. PICK q : q = [r EXCEPT !.pc = "parts", !.at = 2]
      BY Zenon
    <2>2. HasFields(q, "parts", r.ours, r.body, 2, r.dump, r.attachments)
      BY <1>2, <2>1, FirstFields, Zenon
    <2>3. "first" # "idle"
      OBVIOUS
    <2>4. GoodBody(r.body) /\ r.dump = None /\ r.attachments = <<>>
      BY <1>2, <2>3, Zenon DEF RecOK
    <2>5. GoodBody(q.body) /\ q.body[1].name = "metadata" /\ q.at = 2 /\ q.dump = None /\ q.attachments = <<>>
      BY <1>3, <2>2, <2>4, Zenon DEF HasFields
    <2>6. ReadRec(q)
      BY <2>5, ReadFirst, Zenon
    <2>7. handler' = [handler EXCEPT ![h] = q]
      BY <1>1, <1>3, <2>1, Zenon
    <2> QED BY <1>2, <2>6, <2>7, ReadUpdate, Zenon
  <1>4. CASE To(h, "rejected") \/ To(h, "toolarge") \/ To(h, "failed")
    BY <1>4, ReadTo, Zenon
  <1> QED BY <1>1, <1>3, <1>4, Zenon DEF FirstPart

\* The next part is read.
LEMMA ReadNextStep ==
  ASSUME UploadInv, ReadInv, NEW h \in Handlers, NextPart(h)
  PROVE  ReadInv'
  <1>1. PICK r : r = handler[h]
    BY Zenon
  <1>2. FunctionsOK /\ RecOK(r, context # None, manifest, dir, settings) /\ ReadRec(r)
    BY <1>1, Zenon DEF UploadInv, HandlersOK, ReadInv
  <1>3. PICK part : part = r.body[r.at]
    BY Zenon
  <1>4. /\ r.pc = "parts" /\ r.at <= Len(r.body)
        /\ \/ /\ part.name = "dump"
              /\ handler' = [handler EXCEPT ![h] = [@ EXCEPT !.at = r.at + 1, !.dump = Pointer(part)]]
           \/ /\ part.name = "attach"
              /\ handler' = [handler EXCEPT ![h] = [@ EXCEPT !.at = r.at + 1,
                                  !.attachments = Append(r.attachments, Attachment(part))]]
           \/ To(h, "rejected") \/ To(h, "toolarge")
    BY <1>1, <1>3, Zenon DEF NextPart
  <1>5. CASE /\ part.name = "dump"
             /\ handler' = [handler EXCEPT ![h] = [@ EXCEPT !.at = r.at + 1, !.dump = Pointer(part)]]
    <2>1. PICK q : q = [r EXCEPT !.at = r.at + 1, !.dump = Pointer(r.body[r.at])]
      BY Zenon
    <2>2. ReadRec(q)
      BY <1>2, <1>3, <1>4, <1>5, <2>1, ReadDump, Zenon
    <2>3. handler' = [handler EXCEPT ![h] = q]
      BY <1>1, <1>3, <1>5, <2>1, ZenonT(40)
    <2> QED BY <1>2, <2>2, <2>3, ReadUpdate, Zenon
  <1>6. CASE /\ part.name = "attach"
             /\ handler' = [handler EXCEPT ![h] = [@ EXCEPT !.at = r.at + 1,
                                  !.attachments = Append(r.attachments, Attachment(part))]]
    <2>1. PICK q : q = [r EXCEPT !.at = r.at + 1,
                                 !.attachments = Append(r.attachments, Attachment(r.body[r.at]))]
      BY Zenon
    <2>2. ReadRec(q)
      BY <1>2, <1>3, <1>4, <1>6, <2>1, ReadAttach, ZenonT(40)
    <2>3. handler' = [handler EXCEPT ![h] = q]
      BY <1>1, <1>3, <1>6, <2>1, Zenon
    <2> QED BY <1>2, <2>2, <2>3, ReadUpdate, Zenon
  <1>7. CASE To(h, "rejected") \/ To(h, "toolarge")
    BY <1>7, ReadTo, Zenon
  <1> QED BY <1>4, <1>5, <1>6, <1>7, Zenon

\* Every step keeps what the handlers have read.
LEMMA ReadStep ==
  ASSUME UploadInv, ReadInv, [Next]_vars
  PROVE  ReadInv'
  <1>1. ASSUME NEW h \in Handlers, FirstPart(h) PROVE ReadInv'
    BY <1>1, ReadFirstStep, Zenon
  <1>2. ASSUME NEW h \in Handlers, NextPart(h) PROVE ReadInv'
    BY <1>2, ReadNextStep, Zenon
  <1>3. ASSUME NEW h \in Handlers, OpenIndex(h) \/ FillIndex(h) PROVE ReadInv'
    <2>1. handler[h].pc \in {"parts", "fill", "created"}
      BY <1>3, Zenon DEF OpenIndex, FillIndex
    <2>2. \E x : To(h, x)
      BY <1>3, Zenon DEF OpenIndex, FillIndex
    <2> QED BY <2>1, <2>2, ReadTo, Zenon
  <1>4. ASSUME NEW h \in Handlers, Drop(h) PROVE ReadInv'
    <2>1. CASE To(h, "failed")
      BY <2>1, ReadTo, Zenon
    <2>2. CASE handler' = [handler EXCEPT ![h] = Idle]
      BY <2>2, ReadStart, Zenon
    <2> QED BY <1>4, <2>1, <2>2, Zenon DEF Drop
  <1>5. ASSUME NEW h \in Handlers, NEW config \in ShipConfigs, Post(h, config) PROVE ReadInv'
    <2>1. handler' = [handler EXCEPT ![h] = [Idle EXCEPT !.pc = "first", !.ours = TRUE,
                                                        !.body = WriteTo(ReadEnvelope, config)]]
      BY <1>5, Zenon DEF Post
    <2> QED BY <2>1, ReadStart, Zenon
  <1>6. ASSUME NEW h \in Handlers, NEW body \in OtherBodies, PostOther(h, body) PROVE ReadInv'
    <2>1. handler' = [handler EXCEPT ![h] = [Idle EXCEPT !.pc = "first", !.body = body]]
      BY <1>6, Zenon DEF PostOther
    <2> QED BY <2>1, ReadStart, Zenon
  <1>7. ASSUME Answered PROVE ReadInv'
    <2>1. waiting \in Handlers /\ handler' = [handler EXCEPT ![waiting] = Idle]
      BY <1>7, Zenon DEF UploadInv, WaitingOK, Answered
    <2> QED BY <2>1, ReadStart, Zenon
  <1>8. ASSUME NEW files, NEW k, Capture(files, k) PROVE ReadInv'
    <2>1. handler' = handler
      BY <1>8, Zenon DEF Capture
    <2> QED BY <2>1, Zenon DEF ReadInv
  <1>9. ASSUME GiveUp \/ UNCHANGED vars PROVE ReadInv'
    <2>1. handler' = handler
      BY <1>9, Zenon DEF GiveUp, vars
    <2> QED BY <2>1, Zenon DEF ReadInv
  <1> QED BY <1>1, <1>2, <1>3, <1>4, <1>5, <1>6, <1>7, <1>8, <1>9, ZenonT(40) DEF Next

\* What the handlers hold of the parts they have read is what the library's
\* reader holds after the same parts, at every moment of every upload.
THEOREM ReadInductive == Spec => []ReadInv
  <1>1. Init => ReadInv
    <2> SUFFICES ASSUME Init, NEW h \in Handlers PROVE ReadRec(handler[h])
      BY Zenon DEF ReadInv
    <2>1. handler[h] = Idle
      BY Zenon DEF Init
    <2>2. "idle" \notin {"parts", "fill", "created"}
      OBVIOUS
    <2>3. handler[h].pc \notin {"parts", "fill", "created"}
      BY <2>1, <2>2, IdleFields, Zenon DEF HasFields
    <2> QED BY <2>3, ReadElse, Zenon
  <1>2. UploadInv /\ ReadInv /\ [Next]_vars => ReadInv'
    BY ReadStep, Zenon
  <1> QED BY <1>1, <1>2, UploadInductive, PTL DEF Spec

-----------------------------------------------------------------------------
(* The sizes of the parts                                                  *)

\* Which parts a handler has let through, when the contents over a limit are o,
\* and why it has refused one.
Big(part, o) == <<IF part.name = "metadata" THEN "metadata" ELSE "blob", part.bytes>> \in o
SizesRec(r, o) ==
    /\ r.pc \in {"parts", "fill", "created"} => \A i \in DOMAIN r.body : i < r.at => ~ Big(r.body[i], o)
    /\ r.pc = "toolarge" => \E i \in DOMAIN r.body : Big(r.body[i], o)
SizesInv == \A h \in Handlers : SizesRec(handler[h], over)

\* Sizes and limits stay what they are.
LEMMA OverStays ==
  ASSUME [Next]_vars
  PROVE  over' = over
BY Zenon DEF Next, Capture, Post, PostOther, FirstPart, NextPart, OpenIndex, FillIndex, Drop, Answered, GiveUp,
             vars, spool

\* One handler changes.
LEMMA SizesUpdate ==
  ASSUME FunctionsOK, SizesInv, over' = over, NEW h \in Handlers, NEW q,
         handler' = [handler EXCEPT ![h] = q], SizesRec(q, over)
  PROVE  SizesInv'
  <1>1. handler'[h] = q /\ \A g \in Handlers : g # h => handler'[g] = handler[g]
    BY HandlerUpdate, Zenon
  <1>2. ASSUME NEW g \in Handlers PROVE SizesRec(handler'[g], over')
    <2>1. CASE g = h
      BY <1>1, <2>1, Zenon
    <2>2. CASE g # h
      <3>1. handler'[g] = handler[g] /\ SizesRec(handler[g], over)
        BY <1>1, <2>2, Zenon DEF SizesInv
      <3> QED BY <3>1, Zenon
    <2> QED BY <2>1, <2>2, Zenon
  <1> QED BY <1>2, Zenon DEF SizesInv

\* A handler starts, is idle again, or answers with neither success nor 413.
LEMMA SizesElse ==
  ASSUME NEW o, NEW q, q.pc \notin {"parts", "fill", "created"}, q.pc # "toolarge"
  PROVE  SizesRec(q, o)
BY Zenon DEF SizesRec

\* A handler goes on without reading a part, or refuses one that is too large.
LEMMA SizesTo ==
  ASSUME UploadInv, SizesInv, over' = over, NEW h \in Handlers, NEW x, To(h, x),
         \/ x \in {"rejected", "failed"}
         \/ x # "toolarge" /\ handler[h].pc \in {"parts", "fill", "created"}
         \/ x = "toolarge" /\ \E i \in DOMAIN handler[h].body : Big(handler[h].body[i], over)
  PROVE  SizesInv'
  <1>1. PICK r : r = handler[h]
    BY Zenon
  <1>2. IsHandler(r) /\ FunctionsOK /\ SizesRec(r, over)
    BY <1>1, Zenon DEF UploadInv, HandlersOK, RecOK, SizesInv
  <1>3. PICK q : q = [r EXCEPT !.pc = x]
    BY Zenon
  <1>4. HasFields(q, x, r.ours, r.body, r.at, r.dump, r.attachments)
    BY <1>2, <1>3, ToFields, Zenon
  <1>5. q.pc = x /\ q.body = r.body /\ q.at = r.at
    BY <1>4, Zenon DEF HasFields
  <1>6. SizesRec(q, over)
    <2>1. CASE x \in {"rejected", "failed"}
      <3>1. x \notin {"parts", "fill", "created"} /\ x # "toolarge"
        BY <2>1
      <3> QED BY <1>5, <3>1, SizesElse, Zenon
    <2>2. CASE x # "toolarge" /\ r.pc \in {"parts", "fill", "created"}
      BY <1>2, <1>5, <2>2, Zenon DEF SizesRec
    <2>3. CASE x = "toolarge" /\ \E i \in DOMAIN r.body : Big(r.body[i], over)
      <3>1. "toolarge" \notin {"parts", "fill", "created"}
        OBVIOUS
      <3> QED BY <1>5, <2>3, <3>1, Zenon DEF SizesRec
    <2> QED BY <1>1, <2>1, <2>2, <2>3, Zenon
  <1>7. handler' = [handler EXCEPT ![h] = q]
    BY <1>1, <1>3, Zenon DEF To
  <1> QED BY <1>2, <1>6, <1>7, SizesUpdate, Zenon

\* A handler starts or is idle again.
LEMMA SizesStart ==
  ASSUME UploadInv, SizesInv, over' = over, NEW h \in Handlers, NEW b,
         \/ handler' = [handler EXCEPT ![h] = [Idle EXCEPT !.pc = "first", !.ours = TRUE, !.body = b]]
         \/ handler' = [handler EXCEPT ![h] = [Idle EXCEPT !.pc = "first", !.body = b]]
         \/ handler' = [handler EXCEPT ![h] = Idle]
  PROVE  SizesInv'
  <1>1. PICK u, v : /\ u = [Idle EXCEPT !.pc = "first", !.ours = TRUE, !.body = b]
                    /\ v = [Idle EXCEPT !.pc = "first", !.body = b]
    BY Zenon
  <1>2. /\ "first" \notin {"parts", "fill", "created"} /\ "idle" \notin {"parts", "fill", "created"}
        /\ "first" # "toolarge" /\ "idle" # "toolarge"
    OBVIOUS
  <1>3. u.pc = "first" /\ v.pc = "first" /\ Idle.pc = "idle"
    BY <1>1, StartFields, IdleFields, Zenon DEF HasFields
  <1>4. SizesRec(u, over) /\ SizesRec(v, over) /\ SizesRec(Idle, over)
    BY <1>2, <1>3, SizesElse, Zenon
  <1>5. FunctionsOK
    BY Zenon DEF UploadInv
  <1>6. CASE handler' = [handler EXCEPT ![h] = u]
    BY <1>4, <1>5, <1>6, SizesUpdate, Zenon
  <1>7. CASE handler' = [handler EXCEPT ![h] = v]
    BY <1>4, <1>5, <1>7, SizesUpdate, Zenon
  <1>8. CASE handler' = [handler EXCEPT ![h] = Idle]
    BY <1>4, <1>5, <1>8, SizesUpdate, Zenon
  <1> QED BY <1>1, <1>6, <1>7, <1>8, Zenon

\* A handler has read one part more, and it is within its limit.
LEMMA SizesGrow ==
  ASSUME NEW o, NEW q, NEW r, NEW n \in Nat, DOMAIN r.body \subseteq Nat, q.pc = "parts", q.body = r.body,
         q.at = n + 1, \A i \in DOMAIN r.body : i < n => ~ Big(r.body[i], o), ~ Big(r.body[n], o)
  PROVE  SizesRec(q, o)
  <1>1. \A i \in DOMAIN r.body : i < n + 1 => i < n \/ i = n
    OBVIOUS
  <1>2. "parts" # "toolarge"
    OBVIOUS
  <1> QED BY <1>1, <1>2, Zenon DEF SizesRec

\* The first part is read.
LEMMA SizesFirstStep ==
  ASSUME UploadInv, SizesInv, over' = over, NEW h \in Handlers, FirstPart(h)
  PROVE  SizesInv'
  <1>1. PICK r : r = handler[h]
    BY Zenon
  <1>2. FunctionsOK /\ RecOK(r, context # None, manifest, dir, settings) /\ IsHandler(r) /\ r.pc = "first"
    BY <1>1, Zenon DEF UploadInv, HandlersOK, RecOK, FirstPart
  <1>3. "first" # "idle"
    OBVIOUS
  <1>4. GoodBody(r.body)
    BY <1>2, <1>3, Zenon DEF RecOK
  <1>5. Len(r.body) \in Nat \ {0} /\ DOMAIN r.body = 1 .. Len(r.body)
    BY <1>4, Zenon DEF GoodBody
  <1>6. 1 \in DOMAIN r.body /\ DOMAIN r.body \subseteq Nat /\ (\A i \in DOMAIN r.body : ~ (i < 1))
        /\ 1 \in Nat /\ 1 + 1 = 2
    BY <1>5, SMT
  <1>7. CASE ~ Big(r.body[1], over) /\ handler' = [handler EXCEPT ![h] = [@ EXCEPT !.pc = "parts", !.at = 2]]
    <2>1. PICK q : q = [r EXCEPT !.pc = "parts", !.at = 2]
      BY Zenon
    <2>2. HasFields(q, "parts", r.ours, r.body, 2, r.dump, r.attachments)
      BY <1>2, <2>1, FirstFields, Zenon
    <2>3. q.pc = "parts" /\ q.body = r.body /\ q.at = 1 + 1
      BY <1>6, <2>2, Zenon DEF HasFields
    <2>4. SizesRec(q, over)
      BY <1>6, <1>7, <2>3, SizesGrow, Zenon
    <2>5. handler' = [handler EXCEPT ![h] = q]
      BY <1>1, <1>7, <2>1, Zenon
    <2> QED BY <1>2, <2>4, <2>5, SizesUpdate, Zenon
  <1>8. CASE To(h, "rejected") \/ To(h, "failed")
    BY <1>8, SizesTo, Zenon
  <1>9. CASE Big(r.body[1], over) /\ To(h, "toolarge")
    BY <1>1, <1>6, <1>9, SizesTo, Zenon
  <1> QED BY <1>1, <1>7, <1>8, <1>9, Zenon DEF FirstPart, TooLarge, Big

\* The next part is read.
LEMMA SizesNextStep ==
  ASSUME UploadInv, SizesInv, over' = over, NEW h \in Handlers, NextPart(h)
  PROVE  SizesInv'
  <1>1. PICK r : r = handler[h]
    BY Zenon
  <1>2. FunctionsOK /\ RecOK(r, context # None, manifest, dir, settings) /\ SizesRec(r, over) /\ IsHandler(r)
    BY <1>1, Zenon DEF UploadInv, HandlersOK, SizesInv, RecOK
  <1>3. PICK part : part = r.body[r.at]
    BY Zenon
  <1>4. /\ r.pc = "parts" /\ r.at <= Len(r.body)
        /\ \/ /\ ~ Big(part, over)
              /\ handler' = [handler EXCEPT ![h] = [@ EXCEPT !.at = r.at + 1, !.dump = Pointer(part)]]
           \/ /\ ~ Big(part, over)
              /\ handler' = [handler EXCEPT ![h] = [@ EXCEPT !.at = r.at + 1,
                                  !.attachments = Append(r.attachments, Attachment(part))]]
           \/ Big(part, over) /\ To(h, "toolarge")
           \/ To(h, "rejected")
    BY <1>1, <1>3, Zenon DEF NextPart, TooLarge, Big
  <1>5. "parts" \in {"parts", "fill", "created"} /\ "parts" # "idle"
    OBVIOUS
  <1>6. GoodBody(r.body) /\ r.at \in Nat /\ r.at >= 2 /\ \A i \in DOMAIN r.body : i < r.at => ~ Big(r.body[i], over)
    BY <1>2, <1>4, <1>5, Zenon DEF RecOK, Progress, SizesRec
  <1>7. Len(r.body) \in Nat \ {0} /\ DOMAIN r.body = 1 .. Len(r.body)
    BY <1>6, Zenon DEF GoodBody
  <1>8. r.at \in DOMAIN r.body /\ DOMAIN r.body \subseteq Nat
    BY <1>4, <1>6, <1>7, SMT
  <1>9. ASSUME NEW q, q.pc = "parts", q.body = r.body, q.at = r.at + 1, ~ Big(part, over),
               handler' = [handler EXCEPT ![h] = q]
        PROVE  SizesInv'
    <2>1. SizesRec(q, over)
      BY <1>3, <1>6, <1>8, <1>9, SizesGrow, Zenon
    <2> QED BY <1>2, <1>9, <2>1, SizesUpdate, Zenon
  <1>10. CASE /\ ~ Big(part, over)
              /\ handler' = [handler EXCEPT ![h] = [@ EXCEPT !.at = r.at + 1, !.dump = Pointer(part)]]
    <2>1. PICK q : q = [r EXCEPT !.at = r.at + 1, !.dump = Pointer(r.body[r.at])]
      BY Zenon
    <2>2. HasFields(q, r.pc, r.ours, r.body, r.at + 1, Pointer(r.body[r.at]), r.attachments)
      BY <1>2, <2>1, DumpFields, Zenon
    <2>3. q.pc = "parts" /\ q.body = r.body /\ q.at = r.at + 1
      BY <1>4, <2>2, Zenon DEF HasFields
    <2>4. handler' = [handler EXCEPT ![h] = q]
      BY <1>1, <1>3, <1>10, <2>1, ZenonT(40)
    <2> QED BY <1>9, <1>10, <2>3, <2>4, Zenon
  <1>11. CASE /\ ~ Big(part, over)
              /\ handler' = [handler EXCEPT ![h] = [@ EXCEPT !.at = r.at + 1,
                                  !.attachments = Append(r.attachments, Attachment(part))]]
    <2>1. PICK q : q = [r EXCEPT !.at = r.at + 1,
                                 !.attachments = Append(r.attachments, Attachment(r.body[r.at]))]
      BY Zenon
    <2>2. HasFields(q, r.pc, r.ours, r.body, r.at + 1, r.dump, Append(r.attachments, Attachment(r.body[r.at])))
      BY <1>2, <2>1, AttachFields, Zenon
    <2>3. q.pc = "parts" /\ q.body = r.body /\ q.at = r.at + 1
      BY <1>4, <2>2, Zenon DEF HasFields
    <2>4. handler' = [handler EXCEPT ![h] = q]
      BY <1>1, <1>3, <1>11, <2>1, Zenon
    <2> QED BY <1>9, <1>11, <2>3, <2>4, Zenon
  <1>12. CASE To(h, "rejected")
    BY <1>12, SizesTo, Zenon
  <1>13. CASE Big(part, over) /\ To(h, "toolarge")
    BY <1>1, <1>3, <1>8, <1>13, SizesTo, Zenon
  <1> QED BY <1>4, <1>10, <1>11, <1>12, <1>13, Zenon

\* Every step keeps what is known of the sizes.
LEMMA SizesStep ==
  ASSUME UploadInv, SizesInv, [Next]_vars
  PROVE  SizesInv'
  <1>0. over' = over
    BY OverStays, Zenon
  <1>1. ASSUME NEW h \in Handlers, FirstPart(h) PROVE SizesInv'
    BY <1>0, <1>1, SizesFirstStep, Zenon
  <1>2. ASSUME NEW h \in Handlers, NextPart(h) PROVE SizesInv'
    BY <1>0, <1>2, SizesNextStep, Zenon
  <1>3. ASSUME NEW h \in Handlers, OpenIndex(h) \/ FillIndex(h) PROVE SizesInv'
    <2>1. handler[h].pc \in {"parts", "fill", "created"}
      BY <1>3, Zenon DEF OpenIndex, FillIndex
    <2>2. "fill" # "toolarge" /\ "rejected" # "toolarge" /\ "created" # "toolarge"
      OBVIOUS
    <2>3. \E x : x # "toolarge" /\ To(h, x)
      BY <1>3, <2>2, Zenon DEF OpenIndex, FillIndex
    <2> QED BY <1>0, <2>1, <2>3, SizesTo, Zenon
  <1>4. ASSUME NEW h \in Handlers, Drop(h) PROVE SizesInv'
    <2>1. CASE To(h, "failed")
      BY <1>0, <2>1, SizesTo, Zenon
    <2>2. CASE handler' = [handler EXCEPT ![h] = Idle]
      BY <1>0, <2>2, SizesStart, Zenon
    <2> QED BY <1>4, <2>1, <2>2, Zenon DEF Drop
  <1>5. ASSUME NEW h \in Handlers, NEW config \in ShipConfigs, Post(h, config) PROVE SizesInv'
    <2>1. handler' = [handler EXCEPT ![h] = [Idle EXCEPT !.pc = "first", !.ours = TRUE,
                                                        !.body = WriteTo(ReadEnvelope, config)]]
      BY <1>5, Zenon DEF Post
    <2> QED BY <1>0, <2>1, SizesStart, Zenon
  <1>6. ASSUME NEW h \in Handlers, NEW body \in OtherBodies, PostOther(h, body) PROVE SizesInv'
    <2>1. handler' = [handler EXCEPT ![h] = [Idle EXCEPT !.pc = "first", !.body = body]]
      BY <1>6, Zenon DEF PostOther
    <2> QED BY <1>0, <2>1, SizesStart, Zenon
  <1>7. ASSUME Answered PROVE SizesInv'
    <2>1. waiting \in Handlers /\ handler' = [handler EXCEPT ![waiting] = Idle]
      BY <1>7, Zenon DEF UploadInv, WaitingOK, Answered
    <2> QED BY <1>0, <2>1, SizesStart, Zenon
  <1>8. ASSUME NEW files, NEW k, Capture(files, k) PROVE SizesInv'
    <2>1. handler' = handler
      BY <1>8, Zenon DEF Capture
    <2> QED BY <1>0, <2>1, Zenon DEF SizesInv
  <1>9. ASSUME GiveUp \/ UNCHANGED vars PROVE SizesInv'
    <2>1. handler' = handler
      BY <1>9, Zenon DEF GiveUp, vars
    <2> QED BY <1>0, <2>1, Zenon DEF SizesInv
  <1> QED BY <1>1, <1>2, <1>3, <1>4, <1>5, <1>6, <1>7, <1>8, <1>9, ZenonT(40) DEF Next

\* A handler that has gone past a part found it within its limit, and one that
\* has answered 413 found a part that is not.
THEOREM SizesInductive == Spec => []SizesInv
  <1>1. Init => SizesInv
    <2> SUFFICES ASSUME Init, NEW h \in Handlers PROVE SizesRec(handler[h], over)
      BY Zenon DEF SizesInv
    <2>1. handler[h] = Idle
      BY Zenon DEF Init
    <2>2. "idle" \notin {"parts", "fill", "created"} /\ "idle" # "toolarge"
      OBVIOUS
    <2>3. handler[h].pc \notin {"parts", "fill", "created"} /\ handler[h].pc # "toolarge"
      BY <2>1, <2>2, IdleFields, Zenon DEF HasFields
    <2> QED BY <2>3, SizesElse, Zenon
  <1>2. UploadInv /\ SizesInv /\ [Next]_vars => SizesInv'
    BY SizesStep, Zenon
  <1> QED BY <1>1, <1>2, UploadInductive, PTL DEF Spec

\* WireAgrees, for any number of handlers, any other client's bodies and any
\* sizes: crashes_inner refuses no body of write_to for the order, number or
\* names of its parts; it answers 413 only to a part over its limit and takes no
\* body with one; and what it stores of any body it takes is what read_from
\* would return.
THEOREM WireSafety == Spec => []WireAgrees
  <1>1. UploadInv /\ ReadInv /\ SizesInv => WireAgrees
    <2> SUFFICES ASSUME UploadInv, ReadInv, SizesInv, NEW h \in Handlers
                 PROVE  /\ handler[h].ours => handler[h].pc # "rejected"
                        /\ handler[h].pc = "toolarge" => \E part \in Range(handler[h].body) : TooLarge(part)
                        /\ handler[h].pc = "created" => \A part \in Range(handler[h].body) : ~ TooLarge(part)
                        /\ handler[h].pc = "created" =>
                             /\ ReadFrom(handler[h].body).ok
                             /\ handler[h].dump.sha = ReadFrom(handler[h].body).dump
                             /\ AsRead(handler[h].attachments) = ReadFrom(handler[h].body).attachments
      BY Zenon DEF WireAgrees, AsRead
    <2>1. PICK r : r = handler[h]
      BY Zenon
    <2>2. RecOK(r, context # None, manifest, dir, settings) /\ ReadRec(r)
      BY <2>1, Zenon DEF UploadInv, HandlersOK, ReadInv
    <2>3. r.ours => r.pc # "rejected"
      BY <2>2, Zenon DEF RecOK
    <2>4. ASSUME r.pc = "created"
          PROVE  /\ ReadFrom(r.body).ok /\ r.dump.sha = ReadFrom(r.body).dump
                 /\ AsRead(r.attachments) = ReadFrom(r.body).attachments
      <3>1. r.pc \in {"parts", "fill", "created"} /\ r.pc \in {"fill", "created"} /\ r.pc # "idle"
        BY <2>4
      <3>2. GoodBody(r.body) /\ r.dump # None /\ r.at = Len(r.body) + 1
        BY <2>2, <3>1, Zenon DEF RecOK
      <3>3. Len(r.body) \in Nat
        BY <3>2, Zenon DEF GoodBody
      <3>4. r.at - 1 = Len(r.body)
        BY <3>2, <3>3, SMT
      <3>5. PICK e, t, b : e = r.dump.sha /\ t = AsRead(r.attachments) /\ b = r.body
        BY Zenon
      <3>6. ReadParts(b)[Len(b)] = Read(e, t)
        BY <2>2, <3>1, <3>2, <3>4, <3>5, Zenon DEF ReadRec
      <3>7. e # None
        <4>1. e \in Bytes
          BY <2>2, <3>1, <3>2, <3>5, DumpPath, Zenon
        <4> QED BY <4>1, CrashUploadAssumption, Zenon
      <3>8. PICK f : f = ReadParts(b)[Len(b)]
        BY Zenon
      <3>9. f = [ok |-> TRUE, metadata |-> TRUE, dump |-> e, attachments |-> t]
        BY <3>6, <3>8, Zenon DEF Read
      <3>10. f.ok /\ f.metadata /\ f.dump # None
        BY <3>7, <3>9
      <3>11. ReadFrom(b) = [f EXCEPT !.ok = @ /\ f.metadata /\ f.dump # None]
        BY <3>8, Zenon DEF ReadFrom
      <3>12. PICK g : g = [f EXCEPT !.ok = @ /\ f.metadata /\ f.dump # None]
        BY Zenon
      <3>120. PICK z : z = (f.ok /\ f.metadata /\ f.dump # None)
        BY Zenon
      <3>121. g = [f EXCEPT !.ok = z]
        BY <3>12, <3>120, Zenon
      <3>122. g = [ok |-> z, metadata |-> TRUE, dump |-> e, attachments |-> t]
        BY <3>9, <3>121, Zenon
      <3>13. g.ok /\ g.dump = e /\ g.attachments = t
        <4>1. z
          BY <3>10, <3>120, Zenon
        <4> QED BY <3>122, <4>1, Zenon
      <3> QED BY <3>5, <3>11, <3>12, <3>13, Zenon
    <2>5. r.pc = "toolarge" => \E part \in Range(r.body) : TooLarge(part)
      <3>1. SizesRec(r, over)
        BY <2>1, Zenon DEF SizesInv
      <3> QED BY <3>1, Zenon DEF SizesRec, Big, TooLarge, Range
    <2>6. ASSUME r.pc = "created" PROVE \A part \in Range(r.body) : ~ TooLarge(part)
      <3>1. r.pc \in {"parts", "fill", "created"} /\ r.pc \in {"fill", "created"} /\ r.pc # "idle"
        BY <2>6
      <3>2. GoodBody(r.body) /\ r.at = Len(r.body) + 1
        BY <2>2, <3>1, Zenon DEF RecOK
      <3>3. Len(r.body) \in Nat /\ DOMAIN r.body = 1 .. Len(r.body)
        BY <3>2, Zenon DEF GoodBody
      <3>4. \A i \in DOMAIN r.body : i < r.at
        BY <3>2, <3>3, SMT
      <3>5. SizesRec(r, over)
        BY <2>1, Zenon DEF SizesInv
      <3>6. \A i \in DOMAIN r.body : ~ Big(r.body[i], over)
        BY <3>1, <3>4, <3>5, Zenon DEF SizesRec
      <3> QED BY <3>6, Zenon DEF Big, TooLarge, Range
    <2> QED BY <2>1, <2>3, <2>4, <2>5, <2>6, Zenon
  <1> QED BY <1>1, UploadInductive, ReadInductive, SizesInductive, PTL

-----------------------------------------------------------------------------
(* Counting the records                                                    *)

INSTANCE FiniteSetTheorems

\* Finitely many levels have been used.
SettingsFinite == IsFiniteSet(settings)

\* Every record of the report is at a level that an upload has used, and two
\* records are never at the same level.
LEMMA RecordsAtLevels ==
  ASSUME IndexOK, SettingsFinite
  PROVE  OneRecordPerLevel
  <1>1. PICK S : S = {b \in Ours : index[b].state # "absent"}
    BY Zenon
  <1>2. PICK f : f = [b \in S |-> b.level]
    BY Zenon
  <1>3. ASSUME NEW b \in S PROVE b \in Bytes /\ b.data = "dump" /\ b.level \in settings
    BY <1>1, Zenon DEF IndexOK, Ours
  <1>4. f \in [S -> settings]
    BY <1>2, <1>3, Zenon
  <1>5. ASSUME NEW a \in S, NEW b \in S, f[a] = f[b] PROVE a = b
    <2>1. a.level = b.level /\ a.data = b.data
      BY <1>2, <1>3, <1>5, ZenonT(40)
    <2>2. a \in [data: Data, level: Levels \cup {0}] /\ b \in [data: Data, level: Levels \cup {0}]
      BY <1>3, Zenon DEF Bytes
    <2> QED BY <2>1, <2>2, SMT
  <1>6. f \in Injection(S, settings)
    BY <1>4, <1>5, Zenon DEF Injection, IsInjective
  <1>7. Cardinality(S) <= Cardinality(settings)
    BY <1>6, FS_Injection, Zenon DEF SettingsFinite
  <1> QED BY <1>1, <1>7, Zenon DEF OneRecordPerLevel

\* OneRecordPerLevel, for any number of uploads, handlers and levels.
THEOREM LevelSafety == Spec => []OneRecordPerLevel
  <1>1. Init => SettingsFinite
    BY FS_EmptySet, Zenon DEF Init, SettingsFinite
  <1>2. SettingsFinite /\ [Next]_vars => SettingsFinite'
    <2> SUFFICES ASSUME SettingsFinite, [Next]_vars PROVE SettingsFinite'
      BY Zenon
    <2>1. settings' = settings \/ \E l : settings' = settings \cup {l}
      BY Zenon DEF Next, vars, Capture, Post, PostOther, FirstPart, NextPart, OpenIndex, FillIndex, Drop,
                   Answered, GiveUp
    <2> QED BY <2>1, FS_AddElement, ZenonT(40) DEF SettingsFinite
  <1>3. UploadInv /\ SettingsFinite => OneRecordPerLevel
    BY RecordsAtLevels, Zenon DEF UploadInv
  <1> QED BY <1>1, <1>2, <1>3, UploadInductive, PTL DEF Spec
=============================================================================
