----------------------------- MODULE Hydration ------------------------------
(***************************************************************************)
(* How a deployment gets its first data: the "setup" service runs          *)
(* tools/scripts/hydrate_postgres.sh, which downloads the galaxy dump of   *)
(* Spansh, unpacks it and imports it, unless the database looks hydrated.  *)
(* The other services start only after setup has succeeded, and setup runs *)
(* again only with the next "docker compose up".                           *)
(*                                                                         *)
(* The process may be killed, and the connection may drop, at any point;   *)
(* the files stay, and Spansh may publish a new dump, larger or smaller,   *)
(* in the meantime.  download_file asks for the rest of a file and never   *)
(* looks whether it was sent the rest (206) or all of it (200).            *)
(***************************************************************************)
EXTENDS Integers, Sequences

CONSTANTS
    Size,               \* the dumps that Spansh publishes: the blocks of each
    MaxFaults           \* bounds kills, dropped connections and refusals

Dumps == DOMAIN Size

ASSUME HydrationAssumption ==
    /\ Size \in Seq(Nat \ {0}) /\ Size # <<>>
    /\ MaxFaults \in Nat

VARIABLES
    dump,               \* the dump that Spansh serves
    part, gz, json,     \* the files: .json.gz.part, .json.gz and .json
    body,               \* what is still to come of the HTTP response
    stage,              \* what setup is at
    done,               \* the blocks of .json that this import has handed over
    db,                 \* the blocks that were stored whole
    thin,               \* those of which something has always been passed over
    recent,             \* some system has a date of less than a day ago
    interrupted,        \* an import did not reach its end (history)
    orphan,             \* a kill has left this .part whole (history)
    faults

files == <<part, gz, json>>
stored == <<db, thin>>
vars == <<dump, files, body, stage, done, stored, recent, interrupted, orphan, faults>>

Stages == {"down", "check", "request", "stream", "unzip", "import", "up"}

Blocks == UNION {{d} \X (1..Size[d]) : d \in Dumps}

\* A dump from its block "first" on: its bytes, or the systems in them.  A file
\* that is absent is an empty one.
From(d, first) == [n \in 1..(Size[d] - first + 1) |-> <<d, first + n - 1>>]

Content(d) == From(d, 1)

\* The blocks from "start" on are the dump d.
DumpAt(file, start, d) ==
    /\ start >= 0 /\ start + Size[d] <= Len(file)
    /\ \A n \in 1..Size[d] : file[start + n] = <<d, n>>

\* What gzip reads without an error: the members of a file, one after another,
\* each of its length and with its checksum.  Every block stands in a whole dump.
Unpacks(file) ==
    \A n \in DOMAIN file : DumpAt(file, n - file[n][2], file[n][1])

Prefixes(file) == {SubSeq(file, 1, n) : n \in 0..Len(file)}

HydrationInit ==
    /\ dump = 1
    /\ part = <<>> /\ gz = <<>> /\ json = <<>> /\ body = <<>>
    /\ stage = "down"
    /\ done = 0
    /\ db = {} /\ thin = {}
    /\ recent = FALSE
    /\ interrupted = FALSE /\ orphan = FALSE
    /\ faults = 0

-----------------------------------------------------------------------------
Fault == faults < MaxFaults /\ faults' = faults + 1

\* The operator.
Up ==
    /\ stage = "down"
    /\ stage' = "check"
    /\ UNCHANGED <<dump, files, body, done, stored, recent, interrupted, orphan, faults>>

Down ==
    /\ stage = "up"
    /\ stage' = "down"
    /\ UNCHANGED <<dump, files, body, done, stored, recent, interrupted, orphan, faults>>

\* Mutant: any answer of psql will do.
AnyAnswer == TRUE

\* SELECT 1 FROM core.systems WHERE date > NOW() - INTERVAL '1 day'
Hydrated == recent

\* "Database already hydrated."
SkipImport ==
    /\ stage = "check"
    /\ Hydrated
    /\ stage' = "up"
    /\ UNCHANGED <<dump, files, body, done, stored, recent, interrupted, orphan, faults>>

Hydrate ==
    /\ stage = "check"
    /\ ~Hydrated
    /\ stage' = "request"
    /\ UNCHANGED <<dump, files, body, done, stored, recent, interrupted, orphan, faults>>

-----------------------------------------------------------------------------
\* Mutant: the last block is asked for again.
OneBlockBack == IF part = <<>> THEN 0 ELSE Len(part) - 1

\* download_file resumes behind what .part holds.
first_byte == Len(part)

\* 206 for the rest of the dump, or 200 for the whole of it, which is appended as
\* well.
Request ==
    /\ stage = "request"
    /\ \/ first_byte < Size[dump] /\ body' = From(dump, first_byte + 1)
       \/ body' = Content(dump)
    /\ stage' = "stream"
    /\ UNCHANGED <<dump, files, done, stored, recent, interrupted, orphan, faults>>

\* 416: there is no byte behind .part, and raise_for_status raises.
RangeNotSatisfiable ==
    /\ stage = "request"
    /\ first_byte >= Size[dump]
    /\ stage' = "down"
    /\ UNCHANGED <<dump, files, body, done, stored, recent, interrupted, orphan, faults>>

\* iter_content: .part is appended to.
ReceiveChunk ==
    /\ stage = "stream"
    /\ body # <<>>
    /\ part' = Append(part, Head(body))
    /\ body' = Tail(body)
    /\ UNCHANGED <<dump, gz, json, stage, done, stored, recent, interrupted, orphan, faults>>

\* Mutant: .part is copied.
PartAfterCopy == part

PartAfterMove == <<>>

\* shutil.move
MoveToFinalName ==
    /\ stage = "stream"
    /\ body = <<>>
    /\ gz' = part
    /\ part' = PartAfterMove
    /\ orphan' = FALSE
    /\ stage' = "unzip"
    /\ UNCHANGED <<dump, json, body, done, stored, recent, interrupted, faults>>

\* A connection that fails, also after five retries, and a read of 30 seconds
\* without a byte raise: .part stays.
ConnectionFails ==
    /\ stage \in {"request", "stream"}
    /\ body # <<>> \/ stage = "request"
    /\ Fault
    /\ body' = <<>>
    /\ stage' = "down"
    /\ UNCHANGED <<dump, files, done, stored, recent, interrupted, orphan>>

-----------------------------------------------------------------------------
Ungzip ==
    /\ stage = "unzip"
    /\ Unpacks(gz)
    /\ json' = gz
    /\ gz' = <<>>
    /\ stage' = "import"
    /\ done' = 0
    /\ UNCHANGED <<dump, part, body, stored, recent, interrupted, orphan, faults>>

\* Mutant: the steps of run-pipeline do not depend on each other.
NextStepAnyway == "import"

\* make stops at the first step that fails, and so does setup.
AfterFailedStep == "down"

\* BadGzipFile or EOFError, after some of the content has been written.
UngzipFails ==
    /\ stage = "unzip"
    /\ ~Unpacks(gz)
    /\ json' \in Prefixes(gz)
    /\ stage' = AfterFailedStep
    /\ UNCHANGED <<dump, part, gz, body, done, stored, recent, interrupted, orphan, faults>>

-----------------------------------------------------------------------------
\* The import, batch by batch (SpanshImport).  A system that fails validation is
\* skipped, and a batch of presences, signals, listings or hotspots that the
\* database refuses is lost: of such a block something is passed over, which only
\* the log says.  Some of the systems may have been updated within a day.
ImportBlock ==
    /\ stage = "import"
    /\ done < Len(json)
    /\ done > 0 => json[done + 1][2] # 1
    /\ done' = done + 1
    /\ LET block == {json[done + 1]}
       IN  \/ db' = db \cup block /\ thin' = thin \ block
           \/ thin' = thin \cup (block \ db) /\ UNCHANGED db
    /\ recent' \in {recent, TRUE}
    /\ UNCHANGED <<dump, files, body, stage, interrupted, orphan, faults>>

FinishImport ==
    /\ stage = "import"
    /\ done = Len(json)
    /\ stage' = "up"
    /\ UNCHANGED <<dump, files, body, done, stored, recent, interrupted, orphan, faults>>

\* ijson raises for what follows the array that it reads: at its end, or before the
\* last batch of it is flushed.
SecondDump ==
    /\ stage = "import"
    /\ \E n \in {done + 1, done + 2} : n > 1 /\ n <= Len(json) /\ json[n][2] = 1
    /\ interrupted' = TRUE
    /\ stage' = "down"
    /\ UNCHANGED <<dump, files, body, done, stored, recent, orphan, faults>>

\* A refused batch of rows whose ids are needed later raises a KeyError at the
\* first one that is looked up.
ImportRaises ==
    /\ stage = "import"
    /\ Fault
    /\ interrupted' = TRUE
    /\ stage' = "down"
    /\ UNCHANGED <<dump, files, body, done, stored, recent, orphan>>

\* The container is killed: at the request, while it writes, before the move,
\* while it unpacks, or between two batches.
Kill ==
    /\ stage \in {"request", "stream", "unzip", "import"}
    /\ Fault
    /\ orphan' = (orphan \/ (stage = "stream" /\ body = <<>>))
    /\ interrupted' = (interrupted \/ stage = "import")
    /\ json' \in IF stage = "unzip" THEN Prefixes(gz) ELSE {json}
    /\ body' = <<>>
    /\ stage' = "down"
    /\ UNCHANGED <<dump, part, gz, done, stored, recent>>

-----------------------------------------------------------------------------
\* Spansh, the clock, and the EDDN listener of a deployment that is up.
PublishDump ==
    /\ dump < Len(Size)
    /\ dump' = dump + 1
    /\ UNCHANGED <<files, body, stage, done, stored, recent, interrupted, orphan, faults>>

DayPasses ==
    /\ recent' = FALSE
    /\ UNCHANGED <<dump, files, body, stage, done, stored, interrupted, orphan, faults>>

Listen ==
    /\ stage = "up"
    /\ recent' = TRUE
    /\ UNCHANGED <<dump, files, body, stage, done, stored, interrupted, orphan, faults>>

Download == Request \/ RangeNotSatisfiable \/ ReceiveChunk \/ MoveToFinalName

\* What setup does unless something goes wrong.
Setup ==
    \/ SkipImport \/ Hydrate \/ Download \/ Ungzip \/ UngzipFails
    \/ ImportBlock \/ FinishImport \/ SecondDump

HydrationNext ==
    \/ Up \/ Down \/ Setup
    \/ ConnectionFails \/ ImportRaises \/ Kill
    \/ PublishDump \/ DayPasses \/ Listen

HydrationSpec == HydrationInit /\ [][HydrationNext]_vars

\* Setup runs, and the operator tries again after a failure.
FairHydrationSpec == HydrationSpec /\ WF_vars(Setup) /\ WF_vars(Up)

-----------------------------------------------------------------------------
HydrationTypeOK ==
    /\ dump \in Dumps
    /\ {part, gz, json, body} \subseteq Seq(Blocks)
    /\ stage \in Stages
    /\ done \in Nat /\ (stage = "import" => done <= Len(json))
    /\ {db, thin} \subseteq SUBSET Blocks
    /\ {recent, interrupted, orphan} \subseteq BOOLEAN
    /\ faults \in 0..MaxFaults
    /\ stage # "stream" => body = <<>>

(***************************************************************************)
(* However often the download was cut, resumed, sent as a whole and        *)
(* overtaken by a newer dump: what is handed to the database are the       *)
(* blocks of one dump, from a file that begins with the whole of it.       *)
(***************************************************************************)
ImportsWholeDumps ==
    stage = "import" =>
        \E d \in Dumps : DumpAt(json, 0, d) /\ done <= Size[d]

\* Put together from several dumps, or from one that begins twice.
Mixed(file) == \E m, n \in DOMAIN file : file[m][1] # file[n][1]
Restarted(file) == \E n \in DOMAIN file : n > 1 /\ file[n][2] = 1

(***************************************************************************)
(* There is no byte behind .part, for one of three reasons: a kill between *)
(* the last write and the move has left it whole, it holds a dump that was *)
(* sent again from its beginning, or one that was larger than today's.     *)
(***************************************************************************)
NothingBehind ==
    /\ Len(part) >= Size[dump]
    /\ \/ orphan
       \/ Restarted(part)
       \/ \E n \in DOMAIN part : Size[part[n][1]] > Size[dump]

(***************************************************************************)
(* "Download a file with streaming, progress bar, and resume support": a   *)
(* setup that meets no fault fails only for what an earlier one has left   *)
(* in .part - a file that has nothing behind it, bytes of an older dump,   *)
(* or a beginning before the one that was sent again.                      *)
(***************************************************************************)
FailsOnlyForLeftovers ==
    [][stage \notin {"down", "up"} /\ stage' = "down" /\ faults' = faults =>
          \/ stage = "request" /\ NothingBehind
          \/ stage = "unzip" /\ (Mixed(gz) \/ Restarted(gz))
          \/ stage = "import" /\ Restarted(json)]_vars

(***************************************************************************)
(* With an operator who tries again, setup succeeds in the end - unless a  *)
(* .part that has nothing behind it is in its way.                         *)
(***************************************************************************)
TriedUntilUp == stage = "down" ~> stage = "up" \/ NothingBehind

(***************************************************************************)
(* "Database already hydrated.": when the services start, every block of   *)
(* some dump has been imported, whole or with the parts missing that the   *)
(* log names - unless an import was interrupted, whose first systems are   *)
(* enough for the check of the next setup.                                 *)
(***************************************************************************)
UpAfterWholeImport ==
    stage = "up" =>
        \/ interrupted
        \/ \E d \in Dumps : \A n \in 1..Size[d] : <<d, n>> \in db \cup thin

=============================================================================
