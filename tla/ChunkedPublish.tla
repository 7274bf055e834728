---------------------------- MODULE ChunkedPublish ----------------------------
(***************************************************************************)
(* A package that is too large for one transaction: chunked_publish.rs cuts *)
(* its metadata and modules into payloads, aptos_experimental's             *)
(* large_packages.move appends what they hold to a staging area, and the    *)
(* last one publishes what was staged.  The client that sends the payloads  *)
(* is outside of the repository: it sends them in order, each in a          *)
(* transaction of its own, and it or a transaction can fail at any time; it *)
(* then starts again, maybe with another build of the package, and cleans   *)
(* the staging area up before, or does not.                                 *)
(*                                                                         *)
(* A byte is <<build, part, position>>; part 0 is the metadata, part k    *)
(* the k-th module.  The builds have the same sizes.                        *)
(***************************************************************************)
EXTENDS CodePublishing, Sequences

CONSTANTS
  Build,          \* the builds of the package that is uploaded
  publication,    \* build -> its Publication at an account, with modules of the same names
  UploadObject,   \* the code object of that account for the other publish types
  ModuleOrder,    \* their modules, in the order of the bundle
  MaxPartSize, MaxChunkSize,   \* bounds: the sizes that are tried
  MaxFaults,      \* bound: failures of the client or of a transaction
  NoStagingArea

VARIABLES
  staging,     \* StagingArea of the account that publishes
  upload       \* the client's: publish_type, build, sizes, chunk_size, payloads, faults

chunkVars == <<staging, upload>>

Parts == 0 .. Len(ModuleOrder)
Byte == Build \X Parts \X Nat

StagingArea ==
  [metadata_serialized : Seq(Byte),
   modules : UNION {[D -> Seq(Byte)] : D \in SUBSET (0 .. Len(ModuleOrder) - 1)},
   last_module_idx : Nat]

ASSUME UploadAssumption ==
  /\ UploadObject \in CodeObject
  /\ \A build \in Build :
       /\ owner_of[UploadObject] = publication[build].destination
       /\ {ModuleOrder[k] : k \in DOMAIN ModuleOrder}
            = DOMAIN publication[build].bundle
  /\ ModuleOrder \in Seq({ModuleOrder[k] : k \in DOMAIN ModuleOrder})
  /\ MaxPartSize \in Nat /\ MaxChunkSize \in Nat
  /\ NoStagingArea \notin StagingArea

bytes(build, sizes, part) == [i \in 1 .. sizes[part] |-> <<build, part, i>>]

create_chunks(data, chunk_size) ==
  [k \in 1 .. (Len(data) + chunk_size - 1) \div chunk_size |->
     SubSeq(data, (k - 1) * chunk_size + 1,
            IF k * chunk_size < Len(data) THEN k * chunk_size ELSE Len(data))]

\* The entry functions that the payloads call
payload(function, metadata_chunk, code_chunks) ==
  [function |-> function, metadata_chunk |-> metadata_chunk, code_chunks |-> code_chunks]

chunks_of(build, sizes, chunk_size, k) ==
  LET chunks == create_chunks(bytes(build, sizes, k), chunk_size)
  IN  [i \in DOMAIN chunks |-> [index |-> k - 1, chunk |-> chunks[i]]]

\* The code chunks of all modules (code_indices, code_chunks)
indexed_chunks(build, sizes, chunk_size) ==
  LET first[k \in 0 .. Len(ModuleOrder)] ==
        IF k = 0 THEN <<>> ELSE first[k - 1] \o chunks_of(build, sizes, chunk_size, k)
  IN  first[Len(ModuleOrder)]

\* One step of the loop: a chunk that does not fit in goes to the next payload.
\* Fault: the chunk that opens a payload is not counted.
accumulate_uncounted(acc, c, chunk_size) ==
  IF acc.taken_size + Len(c.chunk) > chunk_size
    THEN [payloads |-> Append(acc.payloads,
                              payload("stage", acc.metadata_chunk, acc.code_chunks)),
          metadata_chunk |-> <<>>, code_chunks |-> <<c>>, taken_size |-> 0]
    ELSE [acc EXCEPT !.code_chunks = Append(@, c), !.taken_size = @ + Len(c.chunk)]

accumulate(acc, c, chunk_size) ==
  IF acc.taken_size + Len(c.chunk) > chunk_size
    THEN [payloads |-> Append(acc.payloads,
                              payload("stage", acc.metadata_chunk, acc.code_chunks)),
          metadata_chunk |-> <<>>, code_chunks |-> <<c>>, taken_size |-> Len(c.chunk)]
    ELSE [acc EXCEPT !.code_chunks = Append(@, c), !.taken_size = @ + Len(c.chunk)]

\* The loop; the set of one value makes TLC evaluate what comes before just once.
accumulate_all(acc, chunks, chunk_size) ==
  LET after[i \in 0 .. Len(chunks)] ==
        IF i = 0 THEN acc
        ELSE CHOOSE next \in {accumulate(before, chunks[i], chunk_size) :
                                before \in {after[i - 1]}} : TRUE
  IN  after[Len(chunks)]

chunk_package_and_create_payloads(build, sizes, chunk_size) ==
  LET metadata_chunks == create_chunks(bytes(build, sizes, 0), chunk_size)
      last == metadata_chunks[Len(metadata_chunks)]
      start == [payloads |-> [i \in 1 .. Len(metadata_chunks) - 1 |->
                                payload("stage", metadata_chunks[i], <<>>)],
                metadata_chunk |-> last, code_chunks |-> <<>>, taken_size |-> Len(last)]
      end == accumulate_all(start, indexed_chunks(build, sizes, chunk_size), chunk_size)
  IN  Append(end.payloads, payload("publish", end.metadata_chunk, end.code_chunks))

-----------------------------------------------------------------------------
new_staging_area == [metadata_serialized |-> <<>>, modules |-> [i \in {} |-> i],
                     last_module_idx |-> 0]

\* Fault: a chunk takes the place of what its module has.
replaced_chunk(area, c) ==
  [area EXCEPT !.modules = set_entry(@, c.index, c.chunk),
               !.last_module_idx = IF c.index > @ THEN c.index ELSE @]

\* stage_code_chunk_internal: a chunk goes to the end of what its module has.
staged_chunk(area, c) ==
  [area EXCEPT !.modules = set_entry(@, c.index,
                             IF c.index \in DOMAIN @ THEN @[c.index] \o c.chunk ELSE c.chunk),
               !.last_module_idx = IF c.index > @ THEN c.index ELSE @]

staged_chunks(area, chunks) ==
  LET after[i \in 0 .. Len(chunks)] ==
        IF i = 0 THEN area ELSE staged_chunk(after[i - 1], chunks[i])
  IN  after[Len(chunks)]

stage_code_chunk(area, p) ==
  LET there == IF area = NoStagingArea THEN new_staging_area ELSE area
  IN  staged_chunks([there EXCEPT !.metadata_serialized = @ \o p.metadata_chunk],
                    p.code_chunks)

\* What the metadata of a build with some code publishes
published(build, bundle_of) ==
  [destination |-> IF upload.publish_type = "AccountDeploy"
                     THEN publication[build].destination ELSE UploadObject,
   name |-> publication[build].name, upgrade_policy |-> publication[build].upgrade_policy,
   modules |-> publication[build].modules, deps |-> publication[build].deps,
   bundle |-> bundle_of]

\* object_code_deployment creates the object of an ObjectDeploy; the other has it.
destination_there(pack) ==
  /\ upload.publish_type = "ObjectDeploy" => pack.destination \notin DOMAIN registry
  /\ upload.publish_type = "ObjectUpgrade" => pack.destination \in DOMAIN registry

\* The build whose part the bytes are; from_bytes and the deserializer of the VM
\* refuse the rest.
read_part(data, part) == {build \in Build : data = bytes(build, upload.sizes, part)}

\* assemble_module_code and publish_package_txn: the metadata of one build, with
\* the code of any
assembled(area) ==
  LET complete == /\ DOMAIN area.modules = 0 .. area.last_module_idx
                  /\ area.last_module_idx + 1 = Len(ModuleOrder)
      built(k) == read_part(area.modules[k - 1], k)
      of(m) == CHOOSE k \in 1 .. Len(ModuleOrder) : ModuleOrder[k] = m
  IN  {published(build, [m \in DOMAIN publication[build].bundle |->
                           publication[CHOOSE v \in built(of(m)) : TRUE].bundle[m]]) :
         build \in {v \in read_part(area.metadata_serialized, 0) :
                      complete /\ \A k \in 1 .. Len(ModuleOrder) : built(k) # {}}}

Sizes == [Parts -> 1 .. MaxPartSize]

ChunkInit ==
  /\ CodeInit
  /\ staging = NoStagingArea
  /\ \E build \in Build, sizes \in Sizes, chunk_size \in 1 .. MaxChunkSize,
        publish_type \in {"AccountDeploy", "ObjectDeploy"} :
       upload = [status |-> "new", publish_type |-> publish_type, build |-> build,
                 sizes |-> sizes, chunk_size |-> chunk_size, payloads |-> <<>>, faults |-> 0]

begin_upload ==
  /\ upload.status = "new"
  /\ upload' = [upload EXCEPT !.status = "sending", !.payloads =
       chunk_package_and_create_payloads(upload.build, upload.sizes, upload.chunk_size)]
  /\ UNCHANGED <<staging, codeVars>>

send_stage ==
  /\ upload.status = "sending" /\ Head(upload.payloads).function = "stage"
  /\ staging' = stage_code_chunk(staging, Head(upload.payloads))
  /\ upload' = [upload EXCEPT !.payloads = Tail(@)]
  /\ UNCHANGED codeVars

\* The last call: it stages, publishes to the account or the object and cleans up, or
\* does nothing of it.
send_publish ==
  /\ upload.status = "sending" /\ Head(upload.payloads).function = "publish"
  /\ LET packs == assembled(stage_code_chunk(staging, Head(upload.payloads)))
         accepted == {pack \in packs :
                        /\ destination_there(pack) /\ publishable(registry, pack)
                        /\ storable(code, publish_request(registry, pack, code_dependency_check))}
     IN  \/ \E pack \in accepted :
              /\ registry' = with_package(registry, pack)
              /\ code' = with_bundle(code, publish_request(registry, pack, code_dependency_check))
              /\ staging' = NoStagingArea
              /\ upload' = [upload EXCEPT !.status = "published", !.payloads = <<>>]
         \/ /\ accepted = {}
            /\ upload' = [upload EXCEPT !.status = "failed"]
            /\ UNCHANGED <<staging, registry, code>>
  /\ UNCHANGED <<session, code_dependency_check>>

\* A transaction fails, or the client stops between two transactions.
fail_upload ==
  /\ upload.status = "sending" /\ upload.faults < MaxFaults
  /\ upload' = [upload EXCEPT !.status = "failed", !.faults = @ + 1]
  /\ UNCHANGED <<staging, codeVars>>

\* cleanup_staging_area: there must be one.
cleanup_staging_area == staging # NoStagingArea /\ staging' = NoStagingArea

\* The client starts again, with the last build; the cleanup that it sends aborts
\* when nothing was staged.
restart_upload ==
  /\ upload.status = "failed"
  /\ \E build \in Build :
       upload' = [upload EXCEPT !.status = "new", !.build = build, !.payloads = <<>>]
  /\ cleanup_staging_area \/ (staging = NoStagingArea /\ UNCHANGED staging)
  /\ UNCHANGED codeVars

\* It starts again on what an earlier attempt has staged.
restart_careless ==
  /\ upload.status = "failed" /\ upload.faults < MaxFaults
  /\ \E build \in Build :
       upload' = [upload EXCEPT !.status = "new", !.build = build, !.payloads = <<>>,
                                !.faults = @ + 1]
  /\ UNCHANGED <<staging, codeVars>>

\* What was deployed to an object is upgraded by a second upload.
begin_upgrade ==
  /\ upload.status = "published" /\ upload.publish_type = "ObjectDeploy"
  /\ \E build \in Build :
       upload' = [upload EXCEPT !.status = "new", !.publish_type = "ObjectUpgrade",
                                !.build = build]
  /\ UNCHANGED <<staging, codeVars>>

Client == begin_upload \/ send_stage \/ send_publish \/ restart_upload

ChunkNext == Client \/ begin_upgrade \/ fail_upload \/ restart_careless

ChunkSpec == ChunkInit /\ [][ChunkNext]_<<chunkVars, codeVars>> /\ WF_<<chunkVars, codeVars>>(Client)

-----------------------------------------------------------------------------
size_of_chunks(chunks) ==
  LET upto[i \in 0 .. Len(chunks)] == IF i = 0 THEN 0 ELSE upto[i - 1] + Len(chunks[i].chunk)
  IN  upto[Len(chunks)]

size_of_payload(p) == Len(p.metadata_chunk) + size_of_chunks(p.code_chunks)

(* Every payload stays within the size that was asked for; whatever was     *)
(* staged by the attempts that failed, only a whole package is published,   *)
(* the one of the last attempt.                                             *)
PublishedWhole ==
  /\ \A i \in 1 .. Len(upload.payloads) :
       size_of_payload(upload.payloads[i]) <= upload.chunk_size
  /\ upload.status = "published" =>
       LET pack == published(upload.build, publication[upload.build].bundle)
       IN  /\ registry[pack.destination][pack.name].deps = pack.deps
           /\ \A m \in pack.modules : code[<<pack.destination, m>>] = pack.bundle[m]

(* An upload that has begun ends with the package published: the client goes*)
(* on by itself after each failure, and failures are finitely many.         *)
UploadCompletes == (upload.status = "new") ~> (upload.status = "published")
=============================================================================
