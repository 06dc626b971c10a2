------------------------ MODULE ImagePipelineProofs ------------------------
(***************************************************************************)
(* Theorems about ImagePipeline, for every value of its constants that    *)
(* satisfies FormatAssumption and PipelineAssumption.                     *)
(***************************************************************************)
EXTENDS ImagePipeline, TLAPS

\* What a path of the directory may hold.
FileOrAbsent == File \cup {Absent}

\* The shape of the result of image_to_raw and of the zstd step.
ResultType == [fs: [Paths -> FileOrAbsent], ok: BOOLEAN]

LEMMA PathFacts ==
  /\ Image \in Paths /\ Part \in Paths /\ Converted \in Paths
  /\ \A p \in FetchPaths : ZstdPath(p) \in Paths
  /\ FetchPaths \subseteq Paths
BY DEF Image, Part, Converted, Paths, FetchPaths, ZstdPath

(* Writing a value of S at a path of the directory keeps it a function  *)
(* from Paths to S.                                                      *)
LEMMA WriteType ==
  ASSUME NEW S, NEW f \in [Paths -> S], NEW p \in Paths, NEW c \in S
  PROVE  Write(f, p, c) \in [Paths -> S]
<1>1. DOMAIN f \cup {p} = Paths
  OBVIOUS
<1>. QED BY <1>1 DEF Write

LEMMA MoveType ==
  ASSUME NEW f \in [Paths -> FileOrAbsent], NEW from \in Paths,
         NEW to \in Paths
  PROVE  Move(f, from, to) \in [Paths -> FileOrAbsent]
<1>1. Write(f, to, f[from]) \in [Paths -> FileOrAbsent]
  BY WriteType
<1>2. Absent \in FileOrAbsent
  BY DEF FileOrAbsent
<1>. QED BY <1>1, <1>2, WriteType DEF Move

LEMMA RemoveType ==
  ASSUME NEW f \in [Paths -> FileOrAbsent], NEW p \in Paths
  PROVE  RemovePathOnError(f, p) \in [Paths -> FileOrAbsent]
BY WriteType DEF RemovePathOnError, FileOrAbsent

(* A write at p of a file or Absent keeps the directory typed, sets p   *)
(* and leaves every other path alone.                                   *)
LEMMA WriteFacts ==
  ASSUME NEW f \in [Paths -> FileOrAbsent], NEW p \in Paths,
         NEW c \in FileOrAbsent
  PROVE  /\ Write(f, p, c) \in [Paths -> FileOrAbsent]
         /\ Write(f, p, c)[p] = c
         /\ \A q \in Paths \ {p} : Write(f, p, c)[q] = f[q]
<1>1. DOMAIN f \cup {p} = Paths
  OBVIOUS
<1>. QED BY <1>1 DEF Write

(* A move between two paths: the target gets the source's content, the *)
(* source is emptied, and nothing else changes.                         *)
LEMMA MoveFacts ==
  ASSUME NEW f \in [Paths -> FileOrAbsent], NEW from \in Paths,
         NEW to \in Paths, from # to
  PROVE  /\ Move(f, from, to) \in [Paths -> FileOrAbsent]
         /\ Move(f, from, to)[to] = f[from]
         /\ Move(f, from, to)[from] = Absent
         /\ \A q \in Paths \ {from, to} : Move(f, from, to)[q] = f[q]
<1>1. f[from] \in FileOrAbsent /\ Absent \in FileOrAbsent
  BY DEF FileOrAbsent
<1>2. /\ Write(f, to, f[from]) \in [Paths -> FileOrAbsent]
      /\ Write(f, to, f[from])[to] = f[from]
      /\ \A q \in Paths \ {to} : Write(f, to, f[from])[q] = f[q]
  BY <1>1, WriteFacts
<1>3. /\ Write(Write(f, to, f[from]), from, Absent) \in [Paths -> FileOrAbsent]
      /\ Write(Write(f, to, f[from]), from, Absent)[from] = Absent
      /\ \A q \in Paths \ {from} :
           Write(Write(f, to, f[from]), from, Absent)[q]
             = Write(f, to, f[from])[q]
  BY <1>1, <1>2, WriteFacts
<1>. QED BY <1>2, <1>3 DEF Move

(* Every outcome of image_to_raw leaves a well-typed directory. *)
LEMMA ToRawType ==
  ASSUME NEW f \in [Paths -> FileOrAbsent], NEW path \in Paths,
         NEW tmp \in Paths, NEW conv \in ConvResults, NEW memOk \in BOOLEAN
  PROVE  ToRaw(f, path, tmp, conv, memOk) \in ResultType
<1> DEFINE clean == RemovePathOnError(f, tmp)
           out == [f[tmp] EXCEPT !.cands = conv.out, !.safe = TRUE,
                                 !.zstd = FALSE]
           staged == Write(clean, Converted, out)
<1>1. clean \in [Paths -> FileOrAbsent]
  BY RemoveType
<1>2. DropStaged(clean) \in [Paths -> FileOrAbsent]
  BY <1>1, RemoveType, PathFacts DEF DropStaged
<1>3. Move(f, tmp, path) \in [Paths -> FileOrAbsent]
  BY MoveType
<1>4. f[tmp] # Absent =>
        /\ DropStaged(staged) \in [Paths -> FileOrAbsent]
        /\ Move(staged, Converted, path) \in [Paths -> FileOrAbsent]
  <2>1. SUFFICES ASSUME f[tmp] # Absent
                 PROVE  staged \in [Paths -> FileOrAbsent]
    BY PathFacts, RemoveType, MoveType DEF DropStaged
  <2>2. f[tmp] \in File
    BY <2>1 DEF FileOrAbsent
  <2>3. conv.out \in SUBSET Formats
    BY PipelineAssumption DEF ConvResults
  <2>4. out \in FileOrAbsent
    BY <2>2, <2>3 DEF File, FileOrAbsent
  <2>. QED BY <1>1, <2>4, WriteType, PathFacts
<1>. QED
  BY <1>1, <1>2, <1>3, <1>4
  DEF ToRaw, Result, ResultType

LEMMA ToRawResultsType ==
  ASSUME NEW f \in [Paths -> FileOrAbsent], NEW path \in Paths,
         NEW tmp \in Paths
  PROVE  ToRawResults(f, path, tmp) \subseteq ResultType
BY ToRawType DEF ToRawResults

\* The file zstd leaves in place of a wrapped download.
UnwrappedFile(file) == [file EXCEPT !.zstd = FALSE]

(***************************************************************************)
(* What the zstd step does, whatever the outcome of zstd: it leaves a    *)
(* well-typed directory, changes only its path and that path's sidecar, *)
(* leaves at its path the download or its unwrapped form when it        *)
(* returns, and nothing there when it raises.                           *)
(***************************************************************************)
LEMMA HandleZstdCases ==
  ASSUME NEW f \in [Paths -> FileOrAbsent], NEW p \in FetchPaths,
         NEW file \in File, NEW zst \in ZstdSteps
  PROVE  LET z == HandleZstd(f, p, file, zst)
         IN  /\ z \in ResultType
             /\ \A q \in Paths \ {p, ZstdPath(p)} : z.fs[q] = f[q]
             /\ z.ok => z.fs[p] \in {f[p], UnwrappedFile(file)}
             /\ ~z.ok => z.fs[p] = Absent
<1> DEFINE Z == ZstdPath(p)
           moved == Move(f, p, Z)
           u == UnwrappedFile(file)
           unz == Write(Write(moved, p, u), Z, Absent)
           back == Move(moved, Z, p)
<1>1. /\ p \in Paths /\ Z \in Paths /\ Z # p
      /\ u \in FileOrAbsent /\ Absent \in FileOrAbsent
  BY PathFacts DEF ZstdPath, FetchPaths, Image, Part, File, FileOrAbsent,
                   UnwrappedFile
<1>2. /\ moved \in [Paths -> FileOrAbsent]
      /\ moved[Z] = f[p] /\ moved[p] = Absent
      /\ \A q \in Paths \ {p, Z} : moved[q] = f[q]
  BY <1>1, MoveFacts
<1>3. /\ unz \in [Paths -> FileOrAbsent] /\ unz[p] = u
      /\ \A q \in Paths \ {p, Z} : unz[q] = f[q]
  <2>1. /\ Write(moved, p, u) \in [Paths -> FileOrAbsent]
        /\ Write(moved, p, u)[p] = u
        /\ \A q \in Paths \ {p} : Write(moved, p, u)[q] = moved[q]
    BY <1>1, <1>2, WriteFacts
  <2>2. /\ unz \in [Paths -> FileOrAbsent]
        /\ \A q \in Paths \ {Z} : unz[q] = Write(moved, p, u)[q]
    BY <1>1, <2>1, WriteFacts
  <2>. QED BY <1>1, <1>2, <2>1, <2>2
<1>4. /\ back \in [Paths -> FileOrAbsent] /\ back[p] = f[p]
      /\ \A q \in Paths \ {p, Z} : back[q] = f[q]
  BY <1>1, <1>2, MoveFacts
<1>5. CASE ~ZstdApplies(file)
  BY <1>5 DEF HandleZstd, Result, ResultType
<1>6. CASE ZstdApplies(file) /\ zst = "ok"
  <2>1. HandleZstd(f, p, file, zst) = Result(unz, TRUE)
    BY <1>6 DEF HandleZstd, UnwrappedFile
  <2>. QED BY <2>1, <1>3 DEF Result, ResultType
<1>7. CASE ZstdApplies(file) /\ zst = "os_error"
  <2>1. HandleZstd(f, p, file, zst) = Result(back, TRUE)
    BY <1>7 DEF HandleZstd
  <2>. QED BY <2>1, <1>4 DEF Result, ResultType
<1>8. CASE ZstdApplies(file) /\ zst \notin {"ok", "os_error"}
  <2>1. HandleZstd(f, p, file, zst) = Result(moved, FALSE)
    BY <1>8 DEF HandleZstd
  <2>. QED BY <2>1, <1>2 DEF Result, ResultType
<1>. QED BY <1>5, <1>6, <1>7, <1>8

(* The zstd step leaves a well-typed directory. *)
LEMMA HandleZstdType ==
  ASSUME NEW f \in [Paths -> FileOrAbsent], NEW p \in FetchPaths,
         NEW file \in File, NEW zst \in ZstdOutcomes
  PROVE  HandleZstd(f, p, file, zst) \in ResultType
<1>1. zst \in ZstdSteps
  BY DEF ZstdSteps
<1>. QED BY <1>1, HandleZstdCases

LEMMA InitTypeOK == Init => TypeOK
BY PathFacts DEF Init, TypeOK, Call, Ops, ZstdSteps, FileOrAbsent

LEMMA NextTypeOK == TypeOK /\ [Next]_vars => TypeOK'
<1> SUFFICES ASSUME TypeOK, [Next]_vars PROVE TypeOK'
  OBVIOUS
<1>1. fs \in [Paths -> FileOrAbsent]
  BY DEF TypeOK, FileOrAbsent
<1>2. ASSUME NEW p \in FetchPaths, NEW h \in Hrefs, NEW checksum \in BOOLEAN,
             FetchDownloadFails(p, h, checksum)
      PROVE  TypeOK'
  <2>1. fs' \in [Paths -> FileOrAbsent]
    BY <1>1, <1>2, RemoveType, PathFacts DEF FetchDownloadFails
  <2>2. last' \in Call
    BY <1>2, PathFacts DEF FetchDownloadFails, FetchCall, Call, Ops, ZstdSteps
  <2>. QED BY <2>1, <2>2 DEF TypeOK, FileOrAbsent
<1>3. ASSUME NEW p \in FetchPaths, NEW h \in Hrefs, NEW checksum \in BOOLEAN,
             NEW forceRaw \in FetchForceRaw, NEW content \in Contents,
             NEW intact \in BOOLEAN,
             Fetch(p, h, forceRaw, checksum, content, intact)
      PROVE  TypeOK'
  <2> DEFINE file == [href |-> h, cands |-> content.cands,
                      safe |-> content.safe, zstd |-> content.zstd,
                      intact |-> intact]
             got == Write(fs, p, file)
  <2>1. file \in File
    BY PipelineAssumption DEF File
  <2>2. got \in [Paths -> FileOrAbsent]
    BY <1>1, <2>1, WriteType, PathFacts DEF FileOrAbsent
  <2>3. CASE ChecksumRequired(h, checksum) /\ ~intact
    <3>1. fs' = RemovePathOnError(got, p)
      BY <1>3, <2>3 DEF Fetch
    <3>2. last' = FetchCall(p, h, checksum, FALSE, file, "skipped")
      BY <1>3, <2>3 DEF Fetch
    <3>3. last' \in Call
      BY <3>2, <2>1, PathFacts DEF FetchCall, Call, Ops, ZstdSteps
    <3>. QED BY <3>1, <3>3, <2>2, RemoveType, PathFacts DEF TypeOK, FileOrAbsent
  <2>4. CASE ~(ChecksumRequired(h, checksum) /\ ~intact)
    <3>1. PICK zst \in ZstdChoices(file) :
            LET z == HandleZstd(got, p, file, zst) IN
            \E r \in IF forceRaw /\ z.ok THEN ToRawResults(z.fs, p, Part)
                                         ELSE {z} :
              /\ fs' = r.fs
              /\ last' = FetchCall(p, h, checksum, r.ok, file, zst)
      BY <1>3, <2>4 DEF Fetch
    <3> DEFINE z == HandleZstd(got, p, file, zst)
    <3>2. z \in ResultType
      <4>1. CASE ZstdApplies(file)
        BY <4>1, <2>1, <2>2, HandleZstdType DEF ZstdChoices
      <4>2. CASE ~ZstdApplies(file)
        BY <4>2, <2>2 DEF HandleZstd, Result, ResultType
      <4>. QED BY <4>1, <4>2
    <3>3. PICK r \in IF forceRaw /\ z.ok THEN ToRawResults(z.fs, p, Part)
                                         ELSE {z} :
              /\ fs' = r.fs
              /\ last' = FetchCall(p, h, checksum, r.ok, file, zst)
      BY <3>1
    <3>4. r \in ResultType
      <4>1. CASE forceRaw /\ z.ok
        <5>1. z.fs \in [Paths -> FileOrAbsent] /\ p \in Paths /\ Part \in Paths
          BY <3>2, PathFacts DEF ResultType
        <5>. QED BY <3>3, <4>1, <5>1, ToRawResultsType
      <4>2. CASE ~(forceRaw /\ z.ok)
        BY <3>2, <3>3, <4>2
      <4>. QED BY <4>1, <4>2
    <3>5. zst \in ZstdSteps
      BY DEF ZstdChoices, ZstdSteps
    <3>. QED
      BY <3>3, <3>4, <3>5, <2>1, PathFacts
      DEF ResultType, TypeOK, FetchCall, Call, Ops, FileOrAbsent
  <2>. QED BY <2>3, <2>4
<1>4. ASSUME ImageToRaw PROVE TypeOK'
  <2>1. PICK r \in ToRawResults(fs, Image, Part) :
          /\ fs' = r.fs
          /\ last' = [op |-> "to_raw", path |-> Image, href |-> Absent,
                      ok |-> r.ok, checksum |-> FALSE, got |-> Absent,
                      zstd |-> "skipped"]
    BY <1>4 DEF ImageToRaw
  <2>2. r \in ResultType
    BY <1>1, ToRawResultsType, PathFacts
  <2>. QED
    BY <2>1, <2>2, PathFacts DEF ResultType, TypeOK, Call, Ops, ZstdSteps,
                                FileOrAbsent
<1>5. CASE UNCHANGED vars
  BY <1>5 DEF vars, TypeOK
<1>. QED BY <1>2, <1>3, <1>4, <1>5 DEF Next

(* Type correctness: the directory only ever holds files or Absent at   *)
(* the paths the pipeline derives, and the record of the last call is   *)
(* well formed.                                                          *)
THEOREM TypeCorrect == Spec => []TypeOK
BY InitTypeOK, NextTypeOK, PTL DEF Spec

-----------------------------------------------------------------------------
(* What a write leaves at the path written and at every other path. *)
LEMMA WriteAt ==
  ASSUME NEW f, NEW p, NEW c
  PROVE  /\ Write(f, p, c)[p] = c
         /\ \A q \in DOMAIN f \ {p} : Write(f, p, c)[q] = f[q]
BY DEF Write

(***************************************************************************)
(* The inductive invariant behind the contract: outside of a call there  *)
(* is never a "<path>.converted" file (ConvertedCleanedUp), because      *)
(* image_to_raw removes or renames it on every path out of the block     *)
(* that creates it.                                                      *)
(***************************************************************************)
IInv == TypeOK /\ ConvertedCleanedUp

\* ToRawOutcome with the directories before and after the call as arguments.
ToRawMeets(f, g, ok) ==
  /\ g[Part] = Absent
  /\ g[Converted] = Absent
  /\ IF ok
       THEN /\ f[Part] # Absent
            /\ g[Image] # Absent
            /\ IF DetectFileFormat(f[Part]) \in RAW_IMAGE_FORMATS \cup {"iso"}
                 THEN g[Image] = f[Part]
                 ELSE /\ g[Image].href = f[Part].href
                      /\ g[Image].intact = f[Part].intact
                      /\ DetectFileFormat(g[Image]) \in RAW_IMAGE_FORMATS
            /\ DeepInspection =>
                 ImageFormatPermitted(SafetyCheckImage(f[Part]))
       ELSE g[Image] = f[Image]

LEMMA DistinctPaths ==
  /\ Image # Part /\ Image # Converted /\ Part # Converted
  /\ \A p \in FetchPaths : ZstdPath(p) \notin {Converted}
  /\ Converted \notin FetchPaths
BY DEF Image, Part, Converted, FetchPaths, ZstdPath

(* With deep inspection, every outcome of image_to_raw(img, img.part)   *)
(* meets the contract, starting from a directory with no converted file. *)
LEMMA ToRawMeetsContract ==
  ASSUME DeepInspection,
         NEW f \in [Paths -> FileOrAbsent], f[Converted] = Absent,
         NEW conv \in ConvResults, NEW memOk \in BOOLEAN
  PROVE  LET r == ToRaw(f, Image, Part, conv, memOk)
         IN  ToRawMeets(f, r.fs, r.ok)
<1> DEFINE fmt == SafetyCheckImage(f[Part])
           clean == RemovePathOnError(f, Part)
           out == [f[Part] EXCEPT !.cands = conv.out, !.safe = TRUE,
                                  !.zstd = FALSE]
           staged == Write(clean, Converted, out)
           r == ToRaw(f, Image, Part, conv, memOk)
<1>1. /\ clean \in [Paths -> FileOrAbsent]
      /\ clean[Part] = Absent /\ clean[Converted] = Absent
      /\ clean[Image] = f[Image]
  BY PathFacts, DistinctPaths, WriteFacts DEF RemovePathOnError, FileOrAbsent
\* Dropping the converted file from a directory without the staged file.
<1>2. ASSUME NEW g \in [Paths -> FileOrAbsent], g[Part] = Absent,
             g[Image] = f[Image]
      PROVE  ToRawMeets(f, DropStaged(g), FALSE)
  <2>1. /\ DropStaged(g)[Converted] = Absent
        /\ DropStaged(g)[Part] = Absent /\ DropStaged(g)[Image] = f[Image]
    BY <1>2, PathFacts, DistinctPaths, WriteFacts
    DEF DropStaged, RemovePathOnError, FileOrAbsent
  <2>. QED BY <2>1 DEF ToRawMeets
<1>3. ~r.ok /\ r.fs \in {clean, DropStaged(clean)} => ToRawMeets(f, r.fs, r.ok)
  BY <1>1, <1>2 DEF ToRawMeets
<1>4. fmt \notin Errors => fmt = DetectFileFormat(f[Part])
  BY DEF SafetyCheckImage, Errors
<1>5. CASE fmt \in Errors \/ ~ImageFormatPermitted(fmt)
  BY <1>3, <1>5 DEF ToRaw, Result
<1>6. CASE fmt \notin Errors /\ ImageFormatPermitted(fmt) /\ ~NeedsConversion(fmt)
  <2>1. CASE f[Part] = Absent
    BY <1>3, <1>6, <2>1 DEF ToRaw, Result
  <2>2. CASE f[Part] # Absent
    <3> DEFINE g == Move(f, Part, Image)
    <3>1. r = Result(g, TRUE)
      BY <1>6, <2>2 DEF ToRaw
    <3>3. /\ g[Image] = f[Part] /\ g[Part] = Absent
          /\ g[Converted] = Absent
      BY PathFacts, DistinctPaths, MoveFacts
    <3>4. DetectFileFormat(f[Part]) \in RAW_IMAGE_FORMATS \cup {"iso"}
      BY <1>4, <1>6 DEF NeedsConversion
    <3>. QED BY <3>1, <2>2, <3>3, <3>4, <1>4, <1>6 DEF Result, ToRawMeets
  <2>. QED BY <2>1, <2>2
<1>7. CASE fmt \notin Errors /\ ImageFormatPermitted(fmt) /\ NeedsConversion(fmt)
  <2>1. CASE \/ ~memOk
             \/ ~conv.ok \/ f[Part] = Absent \/ fmt \notin Matches(f[Part])
    BY <1>3, <1>7, <2>1 DEF ToRaw, Result
  <2>2. CASE /\ memOk /\ conv.ok /\ f[Part] # Absent
             /\ fmt \in Matches(f[Part])
    <3>1. f[Part] \in File
      BY <2>2, PathFacts DEF FileOrAbsent
    <3>2. out \in File /\ out.href = f[Part].href
          /\ out.intact = f[Part].intact
      <4>1. conv.out \in SUBSET Formats
        BY PipelineAssumption DEF ConvResults
      <4>. QED BY <3>1, <4>1 DEF File
    <3>3. /\ staged \in [Paths -> FileOrAbsent] /\ staged[Converted] = out
          /\ staged[Part] = Absent /\ staged[Image] = f[Image]
      <4>1. out \in FileOrAbsent
        BY <3>2 DEF FileOrAbsent
      <4>. QED BY <1>1, <4>1, PathFacts, DistinctPaths, WriteFacts
    <3>4. CASE GetSourceFormat(out) \notin RAW_IMAGE_FORMATS
      <4>1. r = Result(DropStaged(staged), FALSE)
        BY <1>7, <2>2, <3>4 DEF ToRaw
      <4>2. ToRawMeets(f, DropStaged(staged), FALSE)
        BY <3>3, <1>2
      <4> HIDE DEF staged, out
      <4>3. r.fs = DropStaged(staged) /\ r.ok = FALSE
        BY <4>1 DEF Result
      <4>. QED BY <4>2, <4>3
    <3>5. CASE GetSourceFormat(out) \in RAW_IMAGE_FORMATS
      <4> DEFINE g == Move(staged, Converted, Image)
      <4>1. r.ok = TRUE /\ r.fs = g
        BY <1>7, <2>2, <3>5 DEF ToRaw, Result
      <4>2. /\ g[Image] = out /\ g[Part] = Absent /\ g[Converted] = Absent
        BY <3>3, PathFacts, DistinctPaths, MoveFacts
      <4>3. out # Absent
        BY <3>2, FormatAssumption
      <4>4. DetectFileFormat(out) \in RAW_IMAGE_FORMATS
        BY <3>5 DEF GetSourceFormat, UNACCEPTABLE, RAW_IMAGE_FORMATS
      <4>5. DetectFileFormat(f[Part]) \notin RAW_IMAGE_FORMATS \cup {"iso"}
        BY <1>4, <1>7 DEF NeedsConversion
      <4>6. DeepInspection => ImageFormatPermitted(SafetyCheckImage(f[Part]))
        BY <1>7
      <4>. QED BY <2>2, <4>1, <4>2, <3>2, <4>3, <4>4, <4>5, <4>6
               DEF ToRawMeets
    <3>. QED BY <3>4, <3>5
  <2>. QED BY <2>1, <2>2
<1>. QED BY <1>5, <1>6, <1>7

(* Whatever image_to_raw(img, img.part) does, it leaves no converted    *)
(* file behind, with or without deep inspection.                        *)
LEMMA ToRawNoConverted ==
  ASSUME NEW f \in [Paths -> FileOrAbsent], f[Converted] = Absent,
         NEW conv \in ConvResults, NEW memOk \in BOOLEAN
  PROVE  ToRaw(f, Image, Part, conv, memOk).fs[Converted] = Absent
<1> DEFINE clean == RemovePathOnError(f, Part)
           out == [f[Part] EXCEPT !.cands = conv.out, !.safe = TRUE,
                                  !.zstd = FALSE]
           staged == Write(clean, Converted, out)
<1>1. clean[Converted] = Absent
  BY PathFacts, DistinctPaths, WriteFacts DEF RemovePathOnError, FileOrAbsent
<1>2. \A g : DropStaged(g)[Converted] = Absent
  BY WriteAt DEF DropStaged, RemovePathOnError
<1>3. Move(f, Part, Image)[Converted] = Absent
  BY PathFacts, DistinctPaths, MoveFacts
<1>4. Move(staged, Converted, Image)[Converted] = Absent
  BY WriteAt DEF Move
<1>. QED BY <1>1, <1>2, <1>3, <1>4 DEF ToRaw, Result

\* The zstd step does not touch the converted file.
LEMMA HandleZstdNoConverted ==
  ASSUME NEW f \in [Paths -> FileOrAbsent], NEW p \in FetchPaths,
         NEW file \in File, NEW zst \in ZstdSteps
  PROVE  HandleZstd(f, p, file, zst).fs[Converted] = f[Converted]
<1>1. Converted \in Paths \ {p, ZstdPath(p)}
  BY PathFacts, DistinctPaths
<1>. QED BY <1>1, HandleZstdCases

LEMMA InitIInv == Init => IInv
BY InitTypeOK, PathFacts DEF Init, IInv, ConvertedCleanedUp

LEMMA NextIInv == IInv /\ [Next]_vars => IInv'
<1> SUFFICES ASSUME IInv, [Next]_vars PROVE ConvertedCleanedUp'
  BY NextTypeOK DEF IInv
<1>1. fs \in [Paths -> FileOrAbsent] /\ fs[Converted] = Absent
  BY DEF IInv, TypeOK, ConvertedCleanedUp, FileOrAbsent
<1>2. ASSUME NEW p \in FetchPaths, NEW h \in Hrefs, NEW checksum \in BOOLEAN,
             FetchDownloadFails(p, h, checksum)
      PROVE  ConvertedCleanedUp'
  BY <1>1, <1>2, PathFacts, DistinctPaths, WriteAt
  DEF FetchDownloadFails, RemovePathOnError, ConvertedCleanedUp
<1>3. ASSUME NEW p \in FetchPaths, NEW h \in Hrefs, NEW checksum \in BOOLEAN,
             NEW forceRaw \in FetchForceRaw, NEW content \in Contents,
             NEW intact \in BOOLEAN,
             Fetch(p, h, forceRaw, checksum, content, intact)
      PROVE  ConvertedCleanedUp'
  <2> DEFINE file == [href |-> h, cands |-> content.cands,
                      safe |-> content.safe, zstd |-> content.zstd,
                      intact |-> intact]
             got == Write(fs, p, file)
  <2>1. file \in File
    BY PipelineAssumption DEF File
  <2>2. got \in [Paths -> FileOrAbsent] /\ got[Converted] = Absent
    <3>1. got \in [Paths -> FileOrAbsent]
      BY <1>1, <2>1, WriteType, PathFacts DEF FileOrAbsent
    <3>. QED BY <3>1, <1>1, PathFacts, DistinctPaths, WriteAt
  <2>3. CASE ChecksumRequired(h, checksum) /\ ~intact
    <3>1. fs' = RemovePathOnError(got, p)
      BY <1>3, <2>3 DEF Fetch
    <3>. QED BY <3>1, <2>2, PathFacts, DistinctPaths, WriteAt
             DEF RemovePathOnError, ConvertedCleanedUp
  <2>4. CASE ~(ChecksumRequired(h, checksum) /\ ~intact)
    <3>1. PICK zst \in ZstdChoices(file) :
            LET z == HandleZstd(got, p, file, zst) IN
            \E r \in IF forceRaw /\ z.ok THEN ToRawResults(z.fs, p, Part)
                                         ELSE {z} :
              fs' = r.fs
      BY <1>3, <2>4 DEF Fetch
    <3> DEFINE z == HandleZstd(got, p, file, zst)
    <3>2. z \in ResultType /\ z.fs[Converted] = Absent
      <4>1. zst \in ZstdSteps
        BY DEF ZstdChoices, ZstdSteps
      <4>2. z.fs[Converted] = Absent
        BY <2>1, <2>2, <4>1, HandleZstdNoConverted
      <4>3. z \in ResultType
        <5>1. CASE ZstdApplies(file)
          BY <5>1, <2>1, <2>2, HandleZstdType DEF ZstdChoices
        <5>2. CASE ~ZstdApplies(file)
          BY <5>2, <2>2 DEF HandleZstd, Result, ResultType
        <5>. QED BY <5>1, <5>2
      <4>. QED BY <4>2, <4>3
    <3>3. PICK r \in IF forceRaw /\ z.ok THEN ToRawResults(z.fs, p, Part)
                                         ELSE {z} :
              fs' = r.fs
      BY <3>1
    <3>4. CASE forceRaw /\ z.ok
      <4>1. p = Image
        BY <1>3, <3>4 DEF Fetch
      <4>2. PICK conv \in ConvResults, memOk \in BOOLEAN :
              r = ToRaw(z.fs, Image, Part, conv, memOk)
        BY <3>3, <3>4, <4>1 DEF ToRawResults
      <4>. QED BY <3>2, <3>3, <4>2, ToRawNoConverted DEF ResultType, ConvertedCleanedUp
    <3>5. CASE ~(forceRaw /\ z.ok)
      BY <3>2, <3>3, <3>5 DEF ConvertedCleanedUp
    <3>. QED BY <3>4, <3>5
  <2>. QED BY <2>3, <2>4
<1>4. ASSUME ImageToRaw PROVE ConvertedCleanedUp'
  <2>1. PICK conv \in ConvResults, memOk \in BOOLEAN :
          fs' = ToRaw(fs, Image, Part, conv, memOk).fs
    BY <1>4 DEF ImageToRaw, ToRawResults
  <2>. QED BY <1>1, <2>1, ToRawNoConverted DEF ConvertedCleanedUp
<1>5. CASE UNCHANGED vars
  BY <1>1, <1>5 DEF vars, ConvertedCleanedUp
<1>. QED BY <1>2, <1>3, <1>4, <1>5 DEF Next

\* IInv holds in every reachable state.
LEMMA IInvHolds == Spec => []IInv
BY InitIInv, NextIInv, PTL DEF Spec

(***************************************************************************)
(* ConvertedCleanedUp, the invariant MCImagePipeline.cfg checks: no      *)
(* "<path>.converted" file is ever left between calls, whichever step of *)
(* image_to_raw's conversion fails, whether it is called directly or by  *)
(* fetch with force_raw, for every value of the constants.               *)
(***************************************************************************)
THEOREM ConvertedNeverLeft == Spec => []ConvertedCleanedUp
BY IInvHolds, PTL DEF IInv

(***************************************************************************)
(* With deep inspection enabled, every image_to_raw call meets its       *)
(* contract (the property ToRawContract that MCImagePipeline.cfg checks): *)
(* staging files never survive it, a successful call installs the staged *)
(* file or its checked raw conversion after the staged file passed the   *)
(* safety check with a permitted format, and a failed call leaves the    *)
(* image untouched.                                                      *)
(***************************************************************************)
THEOREM ToRawContractProved ==
  ASSUME DeepInspection
  PROVE  Spec => ToRawContract
<1>1. IInv /\ [Next]_vars => [last'.op = "to_raw" => ToRawOutcome]_vars
  <2> SUFFICES ASSUME IInv, Next, last'.op = "to_raw"
               PROVE  ToRawOutcome
    BY DEF vars
  <2>1. fs \in [Paths -> FileOrAbsent] /\ fs[Converted] = Absent
    BY DEF IInv, TypeOK, ConvertedCleanedUp, FileOrAbsent
  <2>2. ASSUME NEW p \in FetchPaths, NEW h \in Hrefs,
               NEW checksum \in BOOLEAN,
               FetchDownloadFails(p, h, checksum)
        PROVE  FALSE
    BY <2>2 DEF FetchDownloadFails, FetchCall
  <2>3. ASSUME NEW p \in FetchPaths, NEW h \in Hrefs,
               NEW checksum \in BOOLEAN, NEW forceRaw \in FetchForceRaw,
               NEW content \in Contents, NEW intact \in BOOLEAN,
               Fetch(p, h, forceRaw, checksum, content, intact)
        PROVE  FALSE
    BY <2>3 DEF Fetch, FetchCall
  <2>4. ASSUME ImageToRaw PROVE ToRawOutcome
    <3>1. PICK conv \in ConvResults, memOk \in BOOLEAN :
            LET r == ToRaw(fs, Image, Part, conv, memOk) IN
            /\ fs' = r.fs
            /\ last'.ok = r.ok
      BY <2>4 DEF ImageToRaw, ToRawResults
    <3>2. ToRawMeets(fs, fs', last'.ok)
      BY <2>1, <3>1, ToRawMeetsContract
    <3>. QED BY <3>2 DEF ToRawMeets, ToRawOutcome
  <2>. QED BY <2>2, <2>3, <2>4 DEF Next
<1>. QED BY <1>1, IInvHolds, PTL DEF ToRawContract, Spec
-----------------------------------------------------------------------------
(***************************************************************************)
(* fetch without force_raw. FetchAtomic and FetchDelivers describe the   *)
(* directory right after the last call, so every fetch re-establishes    *)
(* them and every image_to_raw call makes them hold vacuously: with      *)
(* TypeOK they are inductive as they stand.                              *)
(***************************************************************************)
FInv == TypeOK /\ FetchAtomic /\ FetchDelivers

(* The file zstd leaves: the download, no longer wrapped. *)
LEMMA UnwrapFacts ==
  ASSUME NEW file \in File
  PROVE  /\ [file EXCEPT !.zstd = FALSE] \in File
         /\ [file EXCEPT !.zstd = FALSE].href = file.href
         /\ [file EXCEPT !.zstd = FALSE].intact = file.intact
BY DEF File

(* What a fetch that got past the checksum leaves at its path: nothing  *)
(* when zstd exited non-zero, else the download, possibly unwrapped.    *)
LEMMA HandleZstdAt ==
  ASSUME NEW f \in [Paths -> FileOrAbsent], NEW p \in FetchPaths,
         NEW file \in File, f[p] = file, NEW zst \in ZstdSteps
  PROVE  LET z == HandleZstd(f, p, file, zst)
         IN  IF z.ok THEN /\ z.fs[p] # Absent
                          /\ z.fs[p].href = file.href
                          /\ z.fs[p].intact = file.intact
                     ELSE z.fs[p] = Absent
<1>1. Absent \notin File
  BY FormatAssumption
<1>2. /\ UnwrappedFile(file) # Absent
      /\ UnwrappedFile(file).href = file.href
      /\ UnwrappedFile(file).intact = file.intact
  BY <1>1, UnwrapFacts DEF UnwrappedFile
<1> DEFINE z == HandleZstd(f, p, file, zst)
<1>3. /\ z.ok => z.fs[p] \in {file, UnwrappedFile(file)}
      /\ ~z.ok => z.fs[p] = Absent
  BY HandleZstdCases
<1>4. file # Absent
  BY <1>1
<1>. QED BY <1>2, <1>3, <1>4

LEMMA InitFInv == Init => FInv
BY InitTypeOK DEF Init, FInv, FetchAtomic, FetchDelivers

LEMMA NextFInv ==
  ASSUME TRUE \notin FetchForceRaw
  PROVE  FInv /\ [Next]_vars => FInv'
<1> SUFFICES ASSUME FInv, [Next]_vars
             PROVE  FetchAtomic' /\ FetchDelivers'
  BY NextTypeOK DEF FInv
<1>1. fs \in [Paths -> FileOrAbsent]
  BY DEF FInv, TypeOK, FileOrAbsent
<1>2. ASSUME NEW p \in FetchPaths, NEW h \in Hrefs, NEW checksum \in BOOLEAN,
             FetchDownloadFails(p, h, checksum)
      PROVE  FetchAtomic' /\ FetchDelivers'
  <2>1. fs'[p] = Absent
    BY <1>2, WriteAt DEF FetchDownloadFails, RemovePathOnError
  <2>. QED BY <1>2, <2>1 DEF FetchDownloadFails, FetchCall,
                             FetchAtomic, FetchDelivers
<1>3. ASSUME NEW p \in FetchPaths, NEW h \in Hrefs, NEW checksum \in BOOLEAN,
             NEW forceRaw \in FetchForceRaw, NEW content \in Contents,
             NEW intact \in BOOLEAN,
             Fetch(p, h, forceRaw, checksum, content, intact)
      PROVE  FetchAtomic' /\ FetchDelivers'
  <2> DEFINE file == [href |-> h, cands |-> content.cands,
                      safe |-> content.safe, zstd |-> content.zstd,
                      intact |-> intact]
             got == Write(fs, p, file)
  <2>1. file \in File /\ ~forceRaw
    <3>1. content \in [cands: SUBSET Formats, safe: BOOLEAN, zstd: BOOLEAN]
      BY PipelineAssumption
    <3>2. file \in File
      BY <3>1 DEF File
    <3>3. forceRaw \in BOOLEAN
      BY PipelineAssumption
    <3>. QED BY <3>2, <3>3
  <2>2. got \in [Paths -> FileOrAbsent] /\ got[p] = file
    <3>1. file \in FileOrAbsent /\ p \in Paths
      BY <2>1, PathFacts DEF FileOrAbsent
    <3>2. got \in [Paths -> FileOrAbsent]
      BY <1>1, <3>1, WriteType
    <3>. QED BY <3>2, WriteAt
  <2>3. CASE ChecksumRequired(h, checksum) /\ ~intact
    <3>1. fs' = RemovePathOnError(got, p)
          /\ last' = FetchCall(p, h, checksum, FALSE, file, "skipped")
      BY <1>3, <2>3 DEF Fetch
    <3>2. fs'[p] = Absent
      BY <3>1, WriteAt DEF RemovePathOnError
    <3>. QED BY <3>1, <3>2 DEF FetchCall, FetchAtomic, FetchDelivers
  <2>4. CASE ~(ChecksumRequired(h, checksum) /\ ~intact)
    <3>1. PICK zst \in ZstdChoices(file) :
            LET z == HandleZstd(got, p, file, zst) IN
            /\ fs' = z.fs
            /\ last' = FetchCall(p, h, checksum, z.ok, file, zst)
      <4>1. \E zst \in ZstdChoices(file) :
              LET z == HandleZstd(got, p, file, zst) IN
              \E r \in IF forceRaw /\ z.ok THEN ToRawResults(z.fs, p, Part)
                                           ELSE {z} :
                /\ fs' = r.fs
                /\ last' = FetchCall(p, h, checksum, r.ok, file, zst)
        BY <1>3, <2>4 DEF Fetch
      <4>. QED BY <4>1, <2>1
    <3> DEFINE z == HandleZstd(got, p, file, zst)
    <3>2. zst \in ZstdSteps
      BY DEF ZstdChoices, ZstdSteps, ZstdOutcomes
    <3>3. IF z.ok THEN /\ z.fs[p] # Absent
                       /\ z.fs[p].href = h
                       /\ z.fs[p].intact = intact
                  ELSE z.fs[p] = Absent
      BY <2>1, <2>2, <3>2, HandleZstdAt
    <3>4. checksum /\ FileChecksum => intact
      <4>1. h \in VerifiedHrefs => intact
        BY <1>3 DEF Fetch
      <4>. QED BY <2>4, <4>1 DEF ChecksumRequired
    <3>. QED BY <3>1, <3>3, <3>4 DEF FetchCall, FetchAtomic, FetchDelivers
  <2>. QED BY <2>3, <2>4
<1>4. ASSUME ImageToRaw PROVE FetchAtomic' /\ FetchDelivers'
  BY <1>4 DEF ImageToRaw, FetchAtomic, FetchDelivers
<1>5. CASE UNCHANGED vars
  BY <1>5 DEF vars, FInv, FetchAtomic, FetchDelivers
<1>. QED BY <1>2, <1>3, <1>4, <1>5 DEF Next

(***************************************************************************)
(* When callers never pass force_raw (the image cache converts in a call *)
(* of its own), fetch is atomic and delivers what it was asked for: a     *)
(* fetch that raised leaves nothing at its destination, and one that     *)
(* returned leaves a file of the requested reference there, intact when  *)
(* a checksum was given and checking is on (FetchAtomic and FetchDelivers *)
(* of MCImagePipeline.cfg), for every set of references and contents.    *)
(***************************************************************************)
THEOREM FetchContract ==
  ASSUME TRUE \notin FetchForceRaw
  PROVE  Spec => [](FetchAtomic /\ FetchDelivers)
<1>1. Spec => []FInv
  BY InitFInv, NextFInv, PTL DEF Spec
<1>. QED BY <1>1, PTL DEF FInv

(***************************************************************************)
(* FetchDelivers on its own: when callers never pass force_raw, a fetch   *)
(* that returned has left at its destination a file fetched from the     *)
(* requested reference, intact when a checksum was given, never a file  *)
(* an earlier call left there.                                           *)
(***************************************************************************)
THEOREM FetchDeliversProved ==
  ASSUME TRUE \notin FetchForceRaw
  PROVE  Spec => []FetchDelivers
<1>1. Spec => [](FetchAtomic /\ FetchDelivers)
  BY FetchContract
<1>. QED BY <1>1, PTL
-----------------------------------------------------------------------------
(***************************************************************************)
(* The refinement of ImageStore. ImageStore is instantiated with the      *)
(* constants of ImageFormat, so its format operators are the pipeline's *)
(* own; the lemmas below say so, one operator at a time.                 *)
(***************************************************************************)
LEMMA SameFormatOps ==
  ASSUME NEW c
  PROVE  /\ IS!DetectFileFormat(c) = DetectFileFormat(c)
         /\ IS!SafetyCheckImage(c) = SafetyCheckImage(c)
         /\ IS!ImageFormatPermitted(c) = ImageFormatPermitted(c)
         /\ IS!RAW_IMAGE_FORMATS = RAW_IMAGE_FORMATS
         /\ IS!File = File
BY DEF IS!DetectFileFormat, DetectFileFormat, IS!Matches, Matches,
       IS!Formats, Formats, IS!SafetyCheckImage, SafetyCheckImage,
       IS!ImageFormatPermitted, ImageFormatPermitted, IS!RAW_IMAGE_FORMATS,
       RAW_IMAGE_FORMATS, IS!File, File, IS!OS_ERROR, OS_ERROR,
       IS!FORMAT_ERROR, FORMAT_ERROR, IS!FORMAT_NONE, FORMAT_NONE,
       IS!INVALID, INVALID

(* The image and the staged file are the two places of the store, and a *)
(* fetch path is the place Place names.                                  *)
LEMMA ViewFacts ==
  ASSUME NEW f \in [Paths -> FileOrAbsent]
  PROVE  LET v == [s \in {"image", "staged"} |->
                     f[IF s = "image" THEN Image ELSE Part]]
         IN  /\ v \in [IS!Places -> File \cup {Absent}]
             /\ v["image"] = f[Image] /\ v["staged"] = f[Part]
             /\ \A p \in FetchPaths : v[Place(p)] = f[p]
             /\ \A p \in FetchPaths : Place(p) \in IS!Places
<1>1. Image # Part /\ FetchPaths = {Image, Part}
  BY DEF Image, Part, FetchPaths
<1>. QED BY <1>1, PathFacts DEF IS!Places, Place, FileOrAbsent

(* The zstd step writes only its own path and that path's sidecar, so a *)
(* fetch leaves the other fetch path alone.                              *)
LEMMA HandleZstdFrame ==
  ASSUME NEW f \in [Paths -> FileOrAbsent], NEW p \in FetchPaths,
         NEW file \in File, NEW zst \in ZstdSteps,
         NEW q \in FetchPaths \ {p}
  PROVE  HandleZstd(f, p, file, zst).fs[q] = f[q]
<1>1. q \in Paths \ {p, ZstdPath(p)}
  BY PathFacts DEF ZstdPath, FetchPaths, Image, Part
<1>. QED BY <1>1, HandleZstdCases

(***************************************************************************)
(* A fetch call of href h into p that keeps the other fetch path and     *)
(* after which FetchAtomic and FetchDelivers hold is a Fetch step of the *)
(* store.                                                                *)
(***************************************************************************)
LEMMA FetchStepRefines ==
  ASSUME TypeOK', FetchAtomic', FetchDelivers',
         NEW f \in [Paths -> FileOrAbsent], fs = f,
         NEW p \in FetchPaths, NEW h \in Hrefs,
         last'.op = "fetch", last'.path = p, last'.href = h,
         \A q \in FetchPaths \ {p} : fs'[q] = fs[q]
  PROVE  IS!Fetch(Place(p), h, last'.checksum /\ FileChecksum)
<1> DEFINE ok == last'.ok
           checked == last'.checksum /\ FileChecksum
<1>1. fs' \in [Paths -> FileOrAbsent] /\ ok \in BOOLEAN
      /\ last'.checksum \in BOOLEAN
  BY DEF TypeOK, Call, FileOrAbsent
<1>2. /\ StoreView' \in [IS!Places -> File \cup {Absent}]
      /\ StoreView'[Place(p)] = fs'[p]
      /\ Place(p) \in IS!Places
  BY <1>1, ViewFacts DEF StoreView
<1>3. StoreView'[Place(p)] \in IF ok THEN IS!Delivered(h, checked)
                                    ELSE {Absent}
  <2>1. CASE ok
    <3>1. fs'[p] # Absent /\ fs'[p].href = h /\ (checked => fs'[p].intact)
      BY <2>1 DEF FetchDelivers
    <3>2. fs'[p] \in File
      BY <1>1, <3>1, PathFacts DEF FileOrAbsent
    <3>. QED BY <1>2, <2>1, <3>1, <3>2, SameFormatOps DEF IS!Delivered
  <2>2. CASE ~ok
    BY <1>2, <2>2 DEF FetchAtomic
  <2>. QED BY <2>1, <2>2
<1>4. \A t \in IS!Places \ {Place(p)} : StoreView'[t] = StoreView[t]
  <2>1. Image # Part /\ FetchPaths = {Image, Part}
    BY DEF Image, Part, FetchPaths
  <2>2. /\ StoreView'["image"] = fs'[Image] /\ StoreView'["staged"] = fs'[Part]
        /\ StoreView["image"] = fs[Image] /\ StoreView["staged"] = fs[Part]
    BY <1>1, ViewFacts DEF StoreView
  <2>. QED BY <2>1, <2>2 DEF IS!Places, Place
<1>5. RequestView' = [op |-> "fetch", place |-> Place(p), href |-> h,
                      checked |-> checked, ok |-> ok]
  BY DEF RequestView
<1>6. /\ StoreView' \in [IS!Places -> File \cup {Absent}]
      /\ StoreView'[Place(p)] \in IF ok THEN IS!Delivered(h, checked)
                                        ELSE {Absent}
      /\ \A t \in IS!Places \ {Place(p)} : StoreView'[t] = StoreView[t]
      /\ RequestView' = [op |-> "fetch", place |-> Place(p), href |-> h,
                         checked |-> checked, ok |-> ok]
  BY <1>2, <1>3, <1>4, <1>5
<1>. QED BY <1>1, <1>6, SameFormatOps DEF IS!Fetch

(***************************************************************************)
(* An image_to_raw call that met its contract is an Install step of the  *)
(* store: it returned only for an installable staged file, the image is *)
(* then that file or a raw conversion of the same reference and         *)
(* integrity, and the staged file is gone either way.                    *)
(***************************************************************************)
LEMMA InstallStepRefines ==
  ASSUME TypeOK', NEW f \in [Paths -> FileOrAbsent], fs = f,
         ToRawMeets(fs, fs', last'.ok),
         last' = [op |-> "to_raw", path |-> Image, href |-> Absent,
                  ok |-> last'.ok, checksum |-> FALSE, got |-> Absent,
                  zstd |-> "skipped"]
  PROVE  IS!Install
<1> DEFINE ok == last'.ok
           st == fs[Part]
<1>1. fs' \in [Paths -> FileOrAbsent] /\ ok \in BOOLEAN
  BY DEF TypeOK, Call, FileOrAbsent
<1>2. /\ StoreView' \in [IS!Places -> File \cup {Absent}]
      /\ StoreView'["image"] = fs'[Image] /\ StoreView'["staged"] = fs'[Part]
      /\ StoreView["image"] = fs[Image] /\ StoreView["staged"] = st
  BY <1>1, ViewFacts DEF StoreView
<1>3. ok => IS!Installable(st)
  BY SameFormatOps DEF ToRawMeets, IS!Installable
<1>4. fs'[Image] \in IF ok THEN IS!Installed(st) ELSE {fs[Image]}
  <2>1. CASE ok /\ DetectFileFormat(st) \in RAW_IMAGE_FORMATS \cup {"iso"}
    <3>1. fs'[Image] = st
      BY <2>1 DEF ToRawMeets
    <3>. QED BY <2>1, <3>1, SameFormatOps DEF IS!Installed
  <2>2. CASE ok /\ DetectFileFormat(st) \notin RAW_IMAGE_FORMATS \cup {"iso"}
    <3>1. /\ fs'[Image] # Absent
          /\ fs'[Image].href = st.href /\ fs'[Image].intact = st.intact
          /\ DetectFileFormat(fs'[Image]) \in RAW_IMAGE_FORMATS
      BY <2>2 DEF ToRawMeets
    <3>2. fs'[Image] \in File
      BY <1>1, <3>1, PathFacts DEF FileOrAbsent
    <3>. QED BY <2>2, <3>1, <3>2, SameFormatOps DEF IS!Installed
  <2>3. CASE ~ok
    BY <2>3 DEF ToRawMeets
  <2>. QED BY <2>1, <2>2, <2>3
<1>5. fs'[Part] = Absent
  BY DEF ToRawMeets
<1>6. RequestView' = [op |-> "to_raw", place |-> "image", href |-> Absent,
                      checked |-> FALSE, ok |-> ok]
  <2>1. last'.op = "to_raw" /\ last'.path = Image /\ last'.href = Absent
        /\ last'.checksum = FALSE
    OBVIOUS
  <2>. QED BY <2>1 DEF RequestView, Place
<1>7. /\ ok => IS!Installable(StoreView["staged"])
      /\ StoreView' \in [IS!Places -> File \cup {Absent}]
      /\ StoreView'["image"] \in IF ok THEN IS!Installed(StoreView["staged"])
                                      ELSE {StoreView["image"]}
      /\ StoreView'["staged"] = Absent
      /\ RequestView' = [op |-> "to_raw", place |-> "image", href |-> Absent,
                         checked |-> FALSE, ok |-> ok]
  BY <1>2, <1>3, <1>4, <1>5, <1>6
<1>. QED BY <1>1, <1>7, SameFormatOps DEF IS!Install

(***************************************************************************)
(* Every step of the pipeline is a step of the store or leaves the image,*)
(* the staged file and the last request as they look from the store. It *)
(* rests on IInv (no converted file, so ToRawMeetsContract applies) and  *)
(* on FInv after the step (what a fetch leaves at its destination).      *)
(***************************************************************************)
LEMMA NextRefines ==
  ASSUME DeepInspection, TRUE \notin FetchForceRaw
  PROVE  IInv /\ FInv /\ [Next]_vars => [IS!Next]_IS!avars
<1> SUFFICES ASSUME IInv, FInv, [Next]_vars PROVE [IS!Next]_IS!avars
  OBVIOUS
<1>1. TypeOK' /\ FetchAtomic' /\ FetchDelivers'
  BY NextFInv DEF FInv
<1>2. fs \in [Paths -> FileOrAbsent] /\ fs[Converted] = Absent
  BY DEF IInv, TypeOK, ConvertedCleanedUp, FileOrAbsent
<1>3. ASSUME NEW p \in FetchPaths, NEW h \in Hrefs, NEW checksum \in BOOLEAN,
             /\ last'.op = "fetch" /\ last'.path = p /\ last'.href = h
             /\ \A q \in FetchPaths \ {p} : fs'[q] = fs[q]
      PROVE  IS!Next
  <2>1. IS!Fetch(Place(p), h, last'.checksum /\ FileChecksum)
    BY <1>1, <1>2, <1>3, FetchStepRefines
  <2>2. Place(p) \in IS!Places
    BY <1>2, ViewFacts
  <2>. QED BY <2>1, <2>2 DEF IS!Next
<1>4. ASSUME NEW p \in FetchPaths, NEW h \in Hrefs, NEW checksum \in BOOLEAN,
             FetchDownloadFails(p, h, checksum)
      PROVE  IS!Next
  <2>1. \A q \in FetchPaths \ {p} : fs'[q] = fs[q]
    BY <1>2, <1>4, PathFacts, WriteAt DEF FetchDownloadFails, RemovePathOnError
  <2>. QED BY <1>3, <1>4, <2>1 DEF FetchDownloadFails, FetchCall
<1>5. ASSUME NEW p \in FetchPaths, NEW h \in Hrefs, NEW checksum \in BOOLEAN,
             NEW forceRaw \in FetchForceRaw, NEW content \in Contents,
             NEW intact \in BOOLEAN,
             Fetch(p, h, forceRaw, checksum, content, intact)
      PROVE  IS!Next
  <2> DEFINE file == [href |-> h, cands |-> content.cands,
                      safe |-> content.safe, zstd |-> content.zstd,
                      intact |-> intact]
             got == Write(fs, p, file)
  <2>1. file \in File /\ forceRaw = FALSE
    BY PipelineAssumption DEF File
  <2>2. /\ got \in [Paths -> FileOrAbsent]
        /\ \A q \in FetchPaths \ {p} : got[q] = fs[q]
    <3>1. got \in [Paths -> FileOrAbsent]
      BY <1>2, <2>1, WriteType, PathFacts DEF FileOrAbsent
    <3>. QED BY <3>1, <1>2, PathFacts, WriteAt
  <2>3. CASE ChecksumRequired(h, checksum) /\ ~intact
    <3>1. fs' = RemovePathOnError(got, p)
          /\ last' = FetchCall(p, h, checksum, FALSE, file, "skipped")
      BY <1>5, <2>3 DEF Fetch
    <3>2. \A q \in FetchPaths \ {p} : fs'[q] = fs[q]
      BY <2>2, <3>1, PathFacts, WriteAt DEF RemovePathOnError
    <3>. QED BY <1>3, <3>1, <3>2 DEF FetchCall
  <2>4. CASE ~(ChecksumRequired(h, checksum) /\ ~intact)
    <3>1. PICK zst \in ZstdChoices(file) :
            LET z == HandleZstd(got, p, file, zst) IN
            /\ fs' = z.fs
            /\ last' = FetchCall(p, h, checksum, z.ok, file, zst)
      <4>1. \E zst \in ZstdChoices(file) :
              LET z == HandleZstd(got, p, file, zst) IN
              \E r \in IF forceRaw /\ z.ok THEN ToRawResults(z.fs, p, Part)
                                           ELSE {z} :
                /\ fs' = r.fs
                /\ last' = FetchCall(p, h, checksum, r.ok, file, zst)
        BY <1>5, <2>4 DEF Fetch
      <4>. QED BY <4>1, <2>1
    <3>2. zst \in ZstdSteps
      BY DEF ZstdChoices, ZstdSteps, ZstdOutcomes
    <3>3. \A q \in FetchPaths \ {p} : fs'[q] = fs[q]
      BY <2>1, <2>2, <3>1, <3>2, HandleZstdFrame
    <3>. QED BY <1>3, <3>1, <3>3 DEF FetchCall
  <2>. QED BY <2>3, <2>4
<1>6. ASSUME ImageToRaw PROVE IS!Next
  <2>1. PICK r \in ToRawResults(fs, Image, Part) :
          /\ fs' = r.fs
          /\ last' = [op |-> "to_raw", path |-> Image, href |-> Absent,
                      ok |-> r.ok, checksum |-> FALSE, got |-> Absent,
                      zstd |-> "skipped"]
    BY <1>6 DEF ImageToRaw
  <2>4. PICK conv \in ConvResults, memOk \in BOOLEAN :
          r = ToRaw(fs, Image, Part, conv, memOk)
    BY DEF ToRawResults
  <2>2. ToRawMeets(fs, fs', last'.ok)
    BY <1>2, <2>1, <2>4, ToRawMeetsContract
  <2>3. IS!Install
    BY <1>1, <1>2, <2>1, <2>2, InstallStepRefines
  <2>. QED BY <2>3 DEF IS!Next
<1>7. CASE UNCHANGED vars
  BY <1>7 DEF vars, IS!avars, StoreView, RequestView
<1>. QED BY <1>4, <1>5, <1>6, <1>7 DEF Next

(***************************************************************************)
(* With deep inspection on and no caller passing force_raw (the image    *)
(* cache's use), the pipeline implements ImageStore, the property        *)
(* ImplementsImageStore of MCImagePipeline.cfg, for every set of         *)
(* references, contents and conversion outputs: each fetch touches only *)
(* its destination and leaves there nothing or a file of the requested  *)
(* reference, intact when checked, and each image_to_raw consumes the    *)
(* staged file and installs it, a raw conversion of it, or nothing.      *)
(***************************************************************************)
THEOREM ImplementsImageStoreProved ==
  ASSUME DeepInspection, TRUE \notin FetchForceRaw
  PROVE  Spec => ImplementsImageStore
<1>1. Init => IS!Init
  <2> SUFFICES ASSUME Init PROVE IS!Init
    OBVIOUS
  <2>1. StoreView = [s \in IS!Places |-> Absent]
    BY PathFacts DEF Init, StoreView, IS!Places
  <2>2. RequestView = [op |-> "none", place |-> "image", href |-> Absent,
                       checked |-> FALSE, ok |-> TRUE]
    <3>1. last = [op |-> "none", path |-> Image, href |-> Absent, ok |-> TRUE,
                  checksum |-> FALSE, got |-> Absent, zstd |-> "skipped"]
      BY DEF Init
    <3>. QED BY <3>1 DEF RequestView, Place
  <2>. QED BY <2>1, <2>2 DEF IS!Init
<1>2. Init => IInv /\ FInv
  BY InitIInv, InitFInv
<1>3. IInv /\ FInv /\ [Next]_vars => (IInv /\ FInv)'
  BY NextIInv, NextFInv
<1>4. IInv /\ FInv /\ [Next]_vars => [IS!Next]_IS!avars
  BY NextRefines
<1>. QED BY <1>1, <1>2, <1>3, <1>4, PTL DEF Spec, ImplementsImageStore, IS!Spec
=============================================================================
