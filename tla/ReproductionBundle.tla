------------------------- MODULE ReproductionBundle -------------------------
(***************************************************************************)
(* The reproduction bundle of bench/persist.py: write_bundle while the     *)
(* measured server still appends to its log, then the life of the          *)
(* published bundle, and verify_bundle as a third party runs it.           *)
(*                                                                         *)
(* A file is its content and a digest is the content itself.  The log is   *)
(* append-only: a generation (a rotation starts another) and a length, so  *)
(* its first n bytes are [gen, n].  verify_bundle reads the files while    *)
(* nothing but the log moves, so it is one operator.                       *)
(***************************************************************************)
EXTENDS Integers, FiniteSets

CONSTANTS OwnFiles,    \* records, configs, environment and extra files
          Cap,         \* ENGINE_LOG_SNAPSHOT_MAX_BYTES
          MaxLog,      \* bound: the log's length
          MaxGen       \* bound: rotations of the log

ASSUME BundleAssumption ==
    /\ IsFiniteSet(OwnFiles) /\ "log" \notin OwnFiles
    /\ Cap \in Nat /\ MaxLog \in Nat /\ MaxGen \in Nat

VARIABLES step,      \* where write_bundle stands
          log,       \* the server's log as it is
          snapshot,  \* the log as it was copied into the bundle
          digest,    \* manifest["sha256"]["log"]
          prefix,    \* manifest["hashed_prefix_bytes"], 0 when absent
          raced,     \* the log grew between its digest and its length
          tampered   \* files inside the bundle edited or removed since

bundleVars == <<step, log, snapshot, digest, prefix, raced, tampered>>

Content == [gen : 0 .. MaxGen, len : 0 .. MaxLog]
Missing == [gen |-> 0, len |-> -1]

BundleInit ==
    /\ step = "own_files"
    /\ log \in [gen : {0}, len : 0 .. MaxLog]
    /\ snapshot = Missing /\ digest = Missing
    /\ prefix = 0 /\ raced = FALSE
    /\ tampered = {}

-----------------------------------------------------------------------------
(* write_bundle *)

\* The records, the configs and the environment are written and digested; the
\* log's size decides between a copy and a reference.
WriteOwnFiles ==
    /\ step = "own_files"
    /\ step' = IF log.len <= Cap THEN "copy" ELSE "digest_log"
    /\ UNCHANGED <<log, snapshot, digest, prefix, raced, tampered>>

\* shutil.copyfile reads the log as it is by now.
CopyLog ==
    /\ step = "copy"
    /\ snapshot' = log
    /\ step' = "digest_copy"
    /\ UNCHANGED <<log, digest, prefix, raced, tampered>>

\* Mutated: the digest taken of the live log, not of the copy.
DigestedLive == log
Digested == snapshot

DigestCopy ==
    /\ step = "digest_copy"
    /\ digest' = Digested
    /\ step' = "published"
    /\ UNCHANGED <<log, snapshot, prefix, raced, tampered>>

\* Above the cap the log stays where it is: first its digest ...
DigestLog ==
    /\ step = "digest_log"
    /\ digest' = log
    /\ step' = "measure_log"
    /\ UNCHANGED <<log, snapshot, prefix, raced, tampered>>

MeasuredLength == log.len

\* ... then, on a second look at the file, how many bytes that was.
MeasureLog ==
    /\ step = "measure_log"
    /\ prefix' = MeasuredLength
    /\ raced' = (log # digest)
    /\ step' = "published"
    /\ UNCHANGED <<log, snapshot, digest, tampered>>

WriteBundle == WriteOwnFiles \/ CopyLog \/ DigestCopy \/ DigestLog \/ MeasureLog

-----------------------------------------------------------------------------
(* The server, and whoever holds the bundle *)

ServerLogs ==
    /\ log # Missing /\ log.len < MaxLog
    /\ log' = [log EXCEPT !.len = @ + 1]
    /\ UNCHANGED <<step, snapshot, digest, prefix, raced, tampered>>

\* Another log, or none, where the evidence was; only ever after the run.
RotateLog ==
    /\ step = "published" /\ log # Missing
    /\ \/ log.gen < MaxGen /\ log' \in [gen : {log.gen + 1}, len : 0 .. MaxLog]
       \/ log' = Missing
       \/ log' \in [gen : {log.gen}, len : 0 .. log.len - 1]
    /\ UNCHANGED <<step, snapshot, digest, prefix, raced, tampered>>

\* Edited to other bytes or removed: its digest is not in the manifest any more.
Tamper(f) ==
    /\ step = "published" /\ f \notin tampered
    /\ f = "log" => prefix = 0
    /\ tampered' = tampered \cup {f}
    /\ UNCHANGED <<step, log, snapshot, digest, prefix, raced>>

-----------------------------------------------------------------------------
(* verify_bundle *)

\* What the manifest's log entry resolves to.
LogEntry == IF prefix > 0 THEN log ELSE IF "log" \in tampered THEN Missing ELSE snapshot

\* The digest of the first n bytes of a content.
FirstBytes(content, n) ==
    [content EXCEPT !.len = IF n < content.len THEN n ELSE content.len]

\* Mutated: any log that has grown is accepted.
GrownOfAny(content) == prefix > 0 /\ content.len > prefix
Grown(content) ==
    prefix > 0 /\ content.len > prefix /\ FirstBytes(content, prefix) = digest

LogVerifies ==
    /\ LogEntry # Missing
    /\ LogEntry = digest \/ Grown(LogEntry)

Problems == (tampered \ {"log"})
            \cup (IF LogVerifies THEN {} ELSE {"log"})

-----------------------------------------------------------------------------
World == ServerLogs \/ RotateLog \/ \E f \in OwnFiles \cup {"log"} : Tamper(f)
BundleNext == WriteBundle \/ World
BundleSpec == BundleInit /\ [][BundleNext]_bundleVars

-----------------------------------------------------------------------------
(* Properties *)

\* Whether a pass-through log still begins with the bytes that were digested.
EvidenceInLog == log # Missing /\ log.gen = digest.gen /\ log.len >= digest.len

\* verify_bundle raises no false alarm: an untouched bundle verifies for as long
\* as a copied log is not touched, whatever the server does to its own, and a
\* log left in place has only grown.  Except where the log grew between its
\* digest and its length.
UntouchedVerifies ==
    (/\ step = "published" /\ tampered = {} /\ ~raced
     /\ prefix > 0 => EvidenceInLog)
        => Problems = {}

\* And it misses nothing: a file edited or removed, a log rotated away, shrunk or
\* replaced by a longer one is reported, even after the race.
ChangesReported ==
    step = "published" =>
        /\ tampered \subseteq Problems
        /\ prefix > 0 /\ ~EvidenceInLog => "log" \in Problems

=============================================================================
