----------------------------- MODULE CrashUpload ----------------------------
(***************************************************************************)
(* One crash report from capture to the server's index: what the hooks     *)
(* write into a spool entry (panic_hook.rs), what read_envelope reads back *)
(* and post_envelope compresses and sends (shipper.rs, compression.rs,     *)
(* multipart.rs), and what the crash handler makes of the parts            *)
(* (crashes.rs), when uploads are given up and repeated while the server   *)
(* still works on the earlier one.                                         *)
(*                                                                         *)
(* File contents are names for what was captured; compressing tags them    *)
(* with the level, and a digest is the content it is computed from.        *)
(* CrashSpool has the interleaving of hooks and shippers, CrashStore the   *)
(* blobs on disk and the janitor, RequestGate the gates before the parts.  *)
(***************************************************************************)
EXTENDS Integers, Sequences, FiniteSets, Functions

CONSTANTS
    None,
    ContextLists,   \* values of PanicHookConfig.context_files
    Levels,         \* values of dump_compression_level
    OtherBodies,    \* uploads that clients without the SDK make
    Oversizes,      \* which contents may be over the server's limits
    Handlers,       \* uploads the server works on at the same time
    MaxUploads      \* bound on upload attempts

VARIABLES
    context,    \* the files the hook was told to attach, or None before it ran
    kind,       \* "panic" or "minidump"
    dir,        \* the entry: file name -> content
    manifest,   \* what metadata.json says of the attachments
    over,       \* the contents over a limit, with the limit
    where,      \* "pending" or "sent"
    waiting,    \* the handler whose answer the shipper waits for, or None
    handler,    \* the server's handlers
    blobs,      \* crashes/by-hash
    index,      \* crashes/by-source, by the digest of the dump
    uploads,
    settings,   \* history: compression levels used so far
    late        \* history: an upload the shipper gave up wrote to the index

vars == <<context, kind, dir, manifest, over, where, waiting, handler, blobs, index,
          uploads, settings, late>>
spool == <<context, kind, dir, manifest, over>>

Reserved == {"metadata.json", "dump.bin", "sdk-config.json"}
Names == Reserved \cup {f.name : f \in UNION {Range(c) : c \in ContextLists}}
Data == {"metadata", "dump", "config", "other"} \cup {f.data : f \in UNION {Range(c) : c \in ContextLists}}

\* Bytes: captured data, compressed at a level or, at level 0, as it is.
Bytes == [data: Data, level: Levels \cup {0}]
Raw(d) == [data |-> d, level |-> 0]

\* Content-Encodings, and what a record says of a part.
Encodings == {None, "zstd"} \cup {p.encoding : p \in UNION {Range(body) : body \in OtherBodies}}
Pointers == [sha: Bytes, encoding: Encodings]

\* METADATA_MAX_BYTES is the limit of the metadata part, max_dump_bytes that of
\* every other.
Limits == {"metadata", "blob"}

\* None is none of the other values, and the dump of another report has another
\* digest.
ASSUME CrashUploadAssumption ==
    /\ Levels \subseteq Nat \ {0} /\ MaxUploads \in Nat
    /\ ContextLists \subseteq Seq([name: Names, data: Data])
    /\ Oversizes \subseteq SUBSET (Limits \X Bytes)
    /\ None \notin Handlers \cup ContextLists \cup Bytes \cup Pointers \cup {"zstd"}
    /\ \A body \in OtherBodies :
        /\ body # <<>> /\ body \in Seq(Range(body))
        /\ \A part \in Range(body) :
            part.bytes \in Bytes /\ (part.name = "dump" => part.bytes.data = "other")

NoIndex == [state |-> "absent", record |-> None]
Idle == [pc |-> "idle", ours |-> FALSE, body |-> <<>>, at |-> 0, dump |-> None, attachments |-> <<>>]

Init ==
    /\ context = None /\ kind = None /\ dir = None /\ manifest = <<>>
    /\ over \in Oversizes
    /\ where = "pending" /\ waiting = None
    /\ handler = [h \in Handlers |-> Idle]
    /\ blobs = {}
    /\ index = [b \in Bytes |-> NoIndex]
    /\ uploads = 0 /\ settings = {} /\ late = FALSE

-----------------------------------------------------------------------------
(* panic_hook.rs                                                           *)

\* Defect: the keys of the context files are not numbered.
ContextKey_Constant(i) == <<"context", 1>>

ContextKey(i) == <<"context", i>>

\* copy_context_files: each is copied under its own base name.
ContextManifest(files) ==
    [i \in 1 .. Len(files) |-> [key |-> ContextKey(i), filename |-> files[i].name,
                                ctype |-> "application/json"]]

SdkConfig == [key |-> <<"sdk-config", 0>>, filename |-> "sdk-config.json",
              ctype |-> "application/json"]

\* The writes of write_pending_crash and write_pending_minidump, in order.
Writes(files) ==
    files \o <<[name |-> "metadata.json", data |-> "metadata"],
               [name |-> "dump.bin", data |-> "dump"],
               [name |-> "sdk-config.json", data |-> "config"]>>

\* What a sequence of fs::write leaves behind: the last one to a name.
Left(writes) ==
    [n \in {writes[i].name : i \in DOMAIN writes} |->
        writes[CHOOSE i \in DOMAIN writes : /\ writes[i].name = n
                                            /\ \A j \in DOMAIN writes : writes[j].name = n => j <= i].data]

\* Only the manifest of a panic names sdk-config.json.  (A context file that
\* cannot be read ends the hook here, and the entry is never complete: what
\* becomes of such entries is in CrashSpool.)
Capture(files, k) ==
    /\ context = None
    /\ context' = files /\ kind' = k
    /\ dir' = Left(Writes(files))
    /\ manifest' = (IF k = "panic" THEN <<SdkConfig>> ELSE <<>>) \o ContextManifest(files)
    /\ UNCHANGED <<over, where, waiting, handler, blobs, index, uploads, settings, late>>

-----------------------------------------------------------------------------
(* shipper.rs, compression.rs, multipart.rs                                *)

ReadEnvelope ==
    [dump |-> Raw(dir["dump.bin"]),
     attachments |-> [i \in 1 .. Len(manifest) |->
                        [key |-> manifest[i].key, ctype |-> manifest[i].ctype,
                         bytes |-> Raw(dir[manifest[i].filename])]]]

\* should_compress_content_type, by family of types.
ShouldCompressContentType(t) ==
    t \in {"text", "application/json", "application/x-ndjson", "application/yaml",
           "application/x-yaml", "application/xml"}

Compress(bytes, level) == [bytes EXCEPT !.level = level]

\* The Content-Encoding of an attachment's part.
Encoding(attachment, config) ==
    IF config.attach /\ ShouldCompressContentType(attachment.ctype) THEN "zstd" ELSE None

\* The compressed bytes of an attachment replace those of the first one in the
\* envelope with its key.
Compressed(attachments, config) ==
    LET first(key) == CHOOSE i \in DOMAIN attachments :
                        /\ attachments[i].key = key
                        /\ \A j \in DOMAIN attachments : attachments[j].key = key => i <= j
        onto(i) == {j \in DOMAIN attachments :
                        Encoding(attachments[j], config) = "zstd" /\ first(attachments[j].key) = i}
    IN  [i \in DOMAIN attachments |->
            IF onto(i) = {} THEN attachments[i]
            ELSE LET last == CHOOSE j \in onto(i) : \A x \in onto(i) : x <= j
                 IN  [attachments[i] EXCEPT !.bytes = Compress(attachments[last].bytes, config.level)]]

Part(name, key, ctype, encoding, bytes) ==
    [name |-> name, key |-> key, ctype |-> ctype, encoding |-> encoding, bytes |-> bytes]

\* Defect: the dump goes first.
WriteTo_DumpFirst(envelope, config) ==
    <<Part("dump", None, "application/octet-stream", "zstd", Compress(envelope.dump, config.level)),
      Part("metadata", None, "application/json", None, Raw("metadata"))>>

\* post_envelope and write_to_with_boundary_and_encodings: the body's parts.
WriteTo(envelope, config) ==
    LET attachments == Compressed(envelope.attachments, config) IN
    <<Part("metadata", None, "application/json", None, Raw("metadata")),
      Part("dump", None, "application/octet-stream", "zstd", Compress(envelope.dump, config.level))>>
    \o [i \in DOMAIN attachments |->
          Part("attach", attachments[i].key, attachments[i].ctype,
               Encoding(envelope.attachments[i], config), attachments[i].bytes)]

\* read_from_with_boundary, the library's own reader: what one turn of its loop
\* makes of a part, whatever came before it, a second dump included.
ReadPart(read, part) ==
    CASE part.name = "metadata" -> [read EXCEPT !.metadata = TRUE]
      [] part.name = "dump" -> [read EXCEPT !.dump = part.bytes]
      [] part.name = "attach" ->
            [read EXCEPT !.attachments = Append(@, [key |-> part.key, ctype |-> part.ctype,
                                                    bytes |-> part.bytes])]
      [] OTHER -> [read EXCEPT !.ok = FALSE]

NothingRead == [ok |-> TRUE, metadata |-> FALSE, dump |-> None, attachments |-> <<>>]

\* What it has read after each part.
ReadParts(body) ==
    LET read[n \in 0 .. Len(body)] ==
            IF n = 0 THEN NothingRead ELSE ReadPart(read[n - 1], body[n])
    IN  read

\* It rejects a body with a part of another name, or without metadata or dump.
ReadFrom(body) ==
    LET read == ReadParts(body)[Len(body)]
    IN  [read EXCEPT !.ok = @ /\ read.metadata /\ read.dump # None]

\* ship_one posts the entry; the settings are the caller's, at every run.
Post(h, config) ==
    /\ context # None /\ where = "pending" /\ waiting = None
    /\ handler[h] = Idle /\ uploads < MaxUploads
    /\ uploads' = uploads + 1
    /\ settings' = settings \cup {config.level}
    /\ waiting' = h
    /\ handler' = [handler EXCEPT ![h] = [Idle EXCEPT !.pc = "first", !.ours = TRUE,
                                                        !.body = WriteTo(ReadEnvelope, config)]]
    /\ UNCHANGED <<spool, where, blobs, index, late>>

\* Another client uploads another report.
PostOther(h, body) ==
    /\ handler[h] = Idle /\ uploads < MaxUploads
    /\ uploads' = uploads + 1
    /\ handler' = [handler EXCEPT ![h] = [Idle EXCEPT !.pc = "first", !.body = body]]
    /\ UNCHANGED <<spool, where, waiting, blobs, index, settings, late>>

\* Defect: any answer will do.
Answered_AnyStatus ==
    /\ waiting # None /\ handler[waiting].pc \in {"created", "rejected", "toolarge", "failed"}
    /\ where' = "sent"
    /\ waiting' = None
    /\ handler' = [handler EXCEPT ![waiting] = Idle]
    /\ UNCHANGED <<spool, blobs, index, uploads, settings, late>>

\* A success moves the entry to sent/, any other status leaves it.
Answered ==
    /\ waiting # None /\ handler[waiting].pc \in {"created", "rejected", "toolarge", "failed"}
    /\ where' = IF handler[waiting].pc = "created" THEN "sent" ELSE where
    /\ waiting' = None
    /\ handler' = [handler EXCEPT ![waiting] = Idle]
    /\ UNCHANGED <<spool, blobs, index, uploads, settings, late>>

\* The upload times out, the connection breaks or the process ends.
GiveUp ==
    /\ waiting # None
    /\ waiting' = None
    /\ UNCHANGED <<spool, where, handler, blobs, index, uploads, settings, late>>

-----------------------------------------------------------------------------
(* crashes_inner                                                           *)

To(h, pc) == handler' = [handler EXCEPT ![h] = [@ EXCEPT !.pc = pc]]

TooLarge(part) == <<IF part.name = "metadata" THEN "metadata" ELSE "blob", part.bytes>> \in over

\* The first part must be the metadata, and no larger than read_metadata takes;
\* then the gates let it in or not.
FirstPart(h) ==
    LET part == handler[h].body[1] IN
    /\ handler[h].pc = "first"
    /\ \/ part.name = "metadata" /\ ~TooLarge(part)
          /\ handler' = [handler EXCEPT ![h] = [@ EXCEPT !.pc = "parts", !.at = 2]]
       \/ part.name = "metadata" /\ TooLarge(part) /\ To(h, "toolarge")
       \/ part.name # "metadata" /\ To(h, "rejected")
       \/ To(h, "failed")
    /\ UNCHANGED <<spool, where, waiting, blobs, index, uploads, settings, late>>

\* write_part_to_blob keeps the part's Content-Encoding with the pointer.
Pointer(part) == [sha |-> part.bytes, encoding |-> part.encoding]

Attachment(part) == [key |-> part.key, ctype |-> part.ctype, pointer |-> Pointer(part)]

\* finalize_blob.
Stored(part) == blobs \cup {part.bytes}

\* A part is refused by its name, or once write_part_to_blob has read more of
\* it than max_dump_bytes.
NextPart(h) ==
    LET part == handler[h].body[handler[h].at] IN
    /\ handler[h].pc = "parts" /\ handler[h].at <= Len(handler[h].body)
    /\ \/ /\ part.name = "dump" /\ handler[h].dump = None /\ ~TooLarge(part)
          /\ handler' = [handler EXCEPT ![h] = [@ EXCEPT !.at = handler[h].at + 1, !.dump = Pointer(part)]]
          /\ blobs' = Stored(part)
       \/ /\ part.name = "attach" /\ ~TooLarge(part)
          /\ handler' = [handler EXCEPT ![h] = [@ EXCEPT
                            !.at = handler[h].at + 1,
                            !.attachments = Append(handler[h].attachments, Attachment(part))]]
          /\ blobs' = Stored(part)
       \/ /\ part.name = "attach" \/ (part.name = "dump" /\ handler[h].dump = None)
          /\ TooLarge(part)
          /\ To(h, "toolarge")
          /\ UNCHANGED blobs
       \/ /\ part.name \notin {"dump", "attach"} \/ (part.name = "dump" /\ handler[h].dump # None)
          /\ To(h, "rejected")
          /\ UNCHANGED blobs
    /\ UNCHANGED <<spool, where, waiting, index, uploads, settings, late>>

\* Defect: the path is made from the last part's digest.
IndexPath_LastPart(h) == handler[h].body[Len(handler[h].body)].bytes

\* index_path: source and timestamp are the report's own, so that the dump's
\* digest is what tells its records apart.
IndexPath(h) == handler[h].dump.sha

\* write_index creates or truncates the file; without a dump part it is a 400.
OpenIndex(h) ==
    /\ handler[h].pc = "parts" /\ handler[h].at > Len(handler[h].body)
    /\ \/ /\ handler[h].dump # None
          /\ index' = [index EXCEPT ![IndexPath(h)] = [NoIndex EXCEPT !.state = "partial"]]
          /\ late' = (late \/ (handler[h].ours /\ waiting # h))
          /\ To(h, "fill")
       \/ /\ handler[h].dump = None
          /\ To(h, "rejected")
          /\ UNCHANGED <<index, late>>
    /\ UNCHANGED <<spool, where, waiting, blobs, uploads, settings>>

\* It writes the record; over another writer's longer text a tail remains.
FillIndex(h) ==
    LET record == [dump |-> handler[h].dump, attachments |-> handler[h].attachments] IN
    /\ handler[h].pc = "fill"
    /\ \E state \in IF index[IndexPath(h)].state = "partial" THEN {"complete"} ELSE {"complete", "garbled"} :
        index' = [index EXCEPT ![IndexPath(h)] = [state |-> state, record |-> record]]
    /\ late' = (late \/ (handler[h].ours /\ waiting # h))
    /\ To(h, "created")
    /\ UNCHANGED <<spool, where, waiting, blobs, uploads, settings>>

\* A handler nobody waits for is dropped, or its answer goes nowhere; a file
\* operation fails; the server is stopped.
Drop(h) ==
    /\ handler[h].pc # "idle"
    /\ \/ waiting # h /\ handler' = [handler EXCEPT ![h] = Idle]
       \/ waiting = h /\ handler[h].pc \in {"parts", "fill"} /\ To(h, "failed")
    /\ UNCHANGED <<spool, where, waiting, blobs, index, uploads, settings, late>>

-----------------------------------------------------------------------------
ShipConfigs == [level: Levels, attach: BOOLEAN]

Next ==
    \/ \E files \in ContextLists, k \in {"panic", "minidump"} : Capture(files, k)
    \/ \E h \in Handlers :
        \/ \E config \in ShipConfigs : Post(h, config)
        \/ \E body \in OtherBodies : PostOther(h, body)
        \/ FirstPart(h) \/ NextPart(h) \/ OpenIndex(h) \/ FillIndex(h) \/ Drop(h)
    \/ Answered \/ GiveUp

Spec == Init /\ [][Next]_vars

-----------------------------------------------------------------------------
\* The context files can be told apart by their base names, and none has the
\* name of a file of the entry itself.
NamesApart ==
    /\ \A i, j \in DOMAIN context : context[i].name = context[j].name => i = j
    /\ \A i \in DOMAIN context : context[i].name \notin Reserved

\* What a reader of an index gets for a pointer, by its Content-Encoding.
Decoded(p) ==
    IF (p.encoding = "zstd") = (p.sha.level # 0) THEN p.sha.data ELSE "undecodable"

\* What the hook was asked to keep, by attachment key.
Wanted ==
    (IF kind = "panic" THEN {<<SdkConfig.key, "config">>} ELSE {})
    \cup {<<<<"context", i>>, context[i].data>> : i \in DOMAIN context}

Faithful(record) ==
    /\ Decoded(record.dump) = "dump"
    /\ {<<a.key, Decoded(a.pointer)>> : a \in Range(record.attachments)} = Wanted

\* Where the records of the report are.
Ours == {b \in Bytes : b.data # "other"}

\* Every record the server keeps of a report yields, decoded, the dump and the
\* files that were captured, each under its own key, whatever the compression
\* settings of the upload - if NamesApart holds.
RecordsAreFaithful ==
    context # None /\ NamesApart =>
        \A b \in Ours : index[b].state = "complete" => Faithful(index[b].record)

\* The handler refuses no body that the shipper writes for the order, the
\* number or the names of its parts: past the gates, only their sizes can cost
\* the upload (413), and post_envelope checks none.  Every part of a body it
\* takes, from whatever client, is within its limit, and it reads from the body
\* what the protocol library's own reader would, which is less strict.
WireAgrees ==
    \A h \in Handlers :
        /\ handler[h].ours => handler[h].pc # "rejected"
        /\ handler[h].pc = "toolarge" => \E part \in Range(handler[h].body) : TooLarge(part)
        /\ handler[h].pc = "created" =>
            /\ \A part \in Range(handler[h].body) : ~TooLarge(part)
            /\ LET read == ReadFrom(handler[h].body) IN
                /\ read.ok
                /\ handler[h].dump.sha = read.dump
                /\ [i \in DOMAIN handler[h].attachments |->
                     [key |-> handler[h].attachments[i].key, ctype |-> handler[h].attachments[i].ctype,
                      bytes |-> handler[h].attachments[i].pointer.sha]] = read.attachments

\* A report that is uploaded again and again, also while the server still works
\* on an earlier upload, has one record per compression level used.
OneRecordPerLevel ==
    Cardinality({b \in Ours : index[b].state # "absent"}) <= Cardinality(settings)

\* An entry in sent/ has a complete record on the server, unless an upload that
\* the shipper had given up on wrote to the index as well.
SentIsStored ==
    where = "sent" /\ ~late => \E b \in Ours : index[b].state = "complete"
=============================================================================
