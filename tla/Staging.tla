-------------------------------- MODULE Staging --------------------------------
(***************************************************************************)
(* How an accepted update gets its payload: Resolver.Resolve chooses the   *)
(* asset of a release, the release CDN streams it through a body that      *)
(* completes short tails, StageArchive writes and hashes it under a bound, *)
(* Staged.Extract unpacks and verifies it, and Prepare takes it over in    *)
(* the operation's record.  install retries the download as a whole.       *)
(*                                                                         *)
(* Bytes come in chunks, a download is the number of chunks it has and     *)
(* whether one was damaged (its digest is that of the release when it has  *)
(* all and none was).  The archive behind the digest is any sequence of a  *)
(* few kinds of members, known as they are read: the checks after the      *)
(* digest are on the content that was published.                           *)
(***************************************************************************)
EXTENDS Naturals, Sequences, FiniteSets

CONSTANTS
    AssetSizes,       \* chunks a published asset may have
    CompressedLimit,  \* Limits.Compressed, in chunks
    ExpandedLimit,    \* Limits.Expanded
    EntryLimit,       \* Limits.Entries
    MaxResumes,       \* maxAssetTailResumes (5 in the code)
    MaxAttempts,      \* downloads of one operation (3 in the code)
    MaxStagings       \* bound: operations, one of them ended by a crash

ASSUME StagingAssumption ==
    /\ AssetSizes \subseteq Nat \ {0}
    /\ {CompressedLimit, ExpandedLimit, EntryLimit, MaxAttempts} \subseteq Nat \ {0}
    /\ MaxResumes \in Nat /\ MaxStagings \in Nat

VARIABLES
    asset,        \* the release's asset: its size, the flavor it is for
    stage,        \* where install has got to
    attempt,      \* its attempt at download and extraction
    body,         \* the asset's body: length known, read, resumes, at its end
    part,         \* the staging file: there, chunks, damaged
    tree,         \* the extraction directory: there, its members, who it is
    leftovers,    \* staging files and directories of earlier operations
    stagingGaps,  \* what has happened that leaves such files behind
    stagings      \* operations so far

stagingVars == <<asset, stage, attempt, body, part, tree, leftovers, stagingGaps,
                 stagings>>

(* Members of an archive: the payload's executable, loose or in a bundle,  *)
(* whole or with fewer bytes than it declares, another file, a file of a   *)
(* second bundle, a link that stays in its bundle or leaves it, something  *)
(* that is none of these, and a name the rules reject.                     *)
File(name, root, size, delivered) ==
    [name |-> name, root |-> root, kind |-> "file",
     size |-> size, delivered |-> delivered]
Other(name, root, kind) ==
    [name |-> name, root |-> root, kind |-> kind, size |-> 0, delivered |-> 0]
Members ==
    { File("exe", "", 1, 1), File("exe", "", 1, 0), File("lib", "", 2, 2),
      File("exe", "A", 1, 1), File("lib", "B", 1, 1), File("rejected", "A", 1, 1),
      Other("link", "A", "link"), Other("leaving", "A", "link"),
      Other("dir", "A", "dir"), Other("fifo", "", "other") }

(* What the payload may say of itself.                                     *)
Identities == {"right", "other machine", "other build", "other bundle"}

(* An asset: flavor is what the installation is.                           *)
Assets == [size : AssetSizes, flavor : {"file", "bundle"}]
NoAsset == [size |-> 0, flavor |-> "file"]
NoPart == [there |-> FALSE, chunks |-> 0, damaged |-> FALSE]
NoTree == [there |-> FALSE, members |-> <<>>, identity |-> "right"]
NoBody == [known |-> FALSE, read |-> 0, resumes |-> 0, ended |-> FALSE]

StagingInit ==
    /\ asset = NoAsset
    /\ stage = "idle" /\ attempt = 0 /\ body = NoBody
    /\ part = NoPart /\ tree = NoTree /\ leftovers = {}
    /\ stagingGaps = {} /\ stagings = 0

(********************************* Resolve *********************************)

(* What the repository's release metadata may look like.                   *)
Announcements ==
    [canonical : BOOLEAN, stable : BOOLEAN, tagMatches : BOOLEAN,
     trusted : BOOLEAN, matches : 0..2,
     manifest : {"entry", "no entry", "malformed", "duplicate"}]

(* One asset with the name of this installation, from the repository, and  *)
(* one well-formed line for it in the manifest.                            *)
exactAsset(a) == a.matches = 1
checkRepositoryURL(a) == a.trusted
manifestDigest(a) == a.manifest = "entry"

Resolvable(a) ==
    /\ a.canonical /\ a.stable /\ a.tagMatches
    /\ exactAsset(a) /\ checkRepositoryURL(a) /\ manifestDigest(a)

Resolve ==
    /\ stage = "idle" /\ stagings < MaxStagings
    /\ stagings' = stagings + 1
    /\ \E a \in Announcements :
          IF Resolvable(a) THEN stage' = "open" /\ asset' \in Assets
          ELSE stage' = "failed" /\ asset' = NoAsset
    /\ attempt' = 1
    /\ UNCHANGED <<body, part, tree, leftovers, stagingGaps>>

(******************************** the body *********************************)

(* fetchReleaseAsset: no asset ends the operation; otherwise the body      *)
(* starts, its length known or not, and StageArchive has made its file.    *)
OpenAsset ==
    /\ stage = "open"
    /\ \/ stage' = "failed" /\ UNCHANGED <<body, part>>
       \/ /\ stage' = "copy"
          /\ \E known \in BOOLEAN : body' = [NoBody EXCEPT !.known = known]
          /\ part' = [NoPart EXCEPT !.there = TRUE]
    /\ UNCHANGED <<asset, attempt, tree, leftovers, stagingGaps, stagings>>

(* One read of boundedReader: with nothing left of the bound it fails      *)
(* without asking the body, at its end or not.                             *)
OverLimit == part.chunks >= CompressedLimit /\ ~body.ended

(* A chunk arrives, perhaps damaged; the last may bring the end with it.   *)
ReadChunk ==
    /\ stage = "copy" /\ ~OverLimit /\ ~body.ended /\ body.read < asset.size
    /\ \E damaged, last \in BOOLEAN :
          /\ last => body.read + 1 = asset.size
          /\ body' = [body EXCEPT !.read = @ + 1, !.ended = last]
          /\ part' = [part EXCEPT !.chunks = @ + 1, !.damaged = @ \/ damaged]
    /\ UNCHANGED <<asset, stage, attempt, tree, leftovers, stagingGaps, stagings>>

(* The connection ends.  completingAssetBody asks for the missing tail     *)
(* while it knows that one is missing; a range that is refused, or nothing *)
(* known to be missing, is the end of the body.                            *)
ConnectionEnds ==
    /\ stage = "copy" /\ ~OverLimit /\ ~body.ended
    /\ LET missing == body.known /\ body.read < asset.size /\ body.resumes < MaxResumes
       IN \/ /\ missing /\ body' = [body EXCEPT !.resumes = @ + 1]
          \/ /\ body' = [body EXCEPT !.ended = TRUE,
                                     !.resumes = IF missing THEN @ + 1 ELSE @]
    /\ UNCHANGED <<asset, stage, attempt, part, tree, leftovers, stagingGaps, stagings>>

(****************************** StageArchive *******************************)

(* A failed attempt removes its files, and is followed by another while    *)
(* the operation's context and the bound allow.                            *)
AttemptFails ==
    /\ part' = NoPart /\ tree' = NoTree /\ body' = NoBody
    /\ \/ attempt < MaxAttempts /\ stage' = "open" /\ attempt' = attempt + 1
       \/ stage' = "failed" /\ attempt' = attempt

(* The copy fails: over the bound, or an error of the body or the disk.    *)
CopyFails ==
    /\ stage = "copy" /\ AttemptFails
    /\ UNCHANGED <<asset, leftovers, stagingGaps, stagings>>

\* Mutant: a body that ended is taken for the asset.
VerifyDigestByLength ==
    /\ stage = "copy" /\ body.ended
    /\ IF part.chunks = asset.size \/ ~body.known
       THEN /\ stage' = "extract" /\ tree' = [NoTree EXCEPT !.there = TRUE]
            /\ UNCHANGED <<part, body, attempt>>
       ELSE AttemptFails
    /\ UNCHANGED <<asset, leftovers, stagingGaps, stagings>>

(* The body has ended: the digest of what landed on disk decides, and      *)
(* Extract makes its directory.                                            *)
VerifyDigest ==
    /\ stage = "copy" /\ body.ended
    /\ IF part.chunks = asset.size /\ ~part.damaged
       THEN /\ stage' = "extract" /\ tree' = [NoTree EXCEPT !.there = TRUE]
            /\ UNCHANGED <<part, body, attempt>>
       ELSE AttemptFails
    /\ UNCHANGED <<asset, leftovers, stagingGaps, stagings>>

(********************************* Extract *********************************)

(* The rules' running total of the sizes that the members declare.         *)
expanded(k) ==
    LET total[n \in 0..Len(k.members)] ==
            IF n = 0 THEN 0 ELSE total[n - 1] + k.members[n].size
    IN  total[Len(k.members)]

(* The names: within the entries, allowed, and seen once.                  *)
memberPath(k, m) ==
    /\ Len(k.members) < EntryLimit /\ m.name # "rejected"
    /\ \A i \in DOMAIN k.members :
          <<k.members[i].root, k.members[i].name>> # <<m.root, m.name>>

(* A bundle's members are all in one bundle, nothing else has any.         *)
markBundle(k, m) ==
    IF asset.flavor = "bundle"
    THEN m.root # "" /\ \A i \in DOMAIN k.members : k.members[i].root = m.root
    ELSE m.root = ""

checkLinkTarget(m) == asset.flavor = "bundle" /\ m.root # "" /\ m.name # "leaving"

(* archiveRules.accountSize: the cumulative bound, on declared sizes.      *)
accountSize(k, m) == expanded(k) + m.size <= ExpandedLimit

(* writeFileVerified: the member has the bytes it declares.                *)
writeFileVerified(m) == m.delivered = m.size

Accepted(k, m) ==
    /\ memberPath(k, m) /\ markBundle(k, m)
    /\ \/ m.kind = "file" /\ accountSize(k, m) /\ writeFileVerified(m)
       \/ m.kind = "link" /\ checkLinkTarget(m)
       \/ m.kind = "dir"

(* extractTarGz and extractZip, one member.                                *)
ExtractMember ==
    /\ stage = "extract"
    /\ \E m \in Members : /\ Accepted(tree, m)
                         /\ tree' = [tree EXCEPT !.members = Append(@, m)]
    /\ UNCHANGED <<asset, stage, attempt, body, part, leftovers, stagingGaps, stagings>>

\* Mutant: a rejected archive stays where it was staged.
ExtractFailsLeaving ==
    /\ stage = "extract"
    /\ tree' = NoTree /\ body' = NoBody /\ part' = NoPart
    /\ leftovers' = leftovers \cup {"part"}
    /\ \/ attempt < MaxAttempts /\ stage' = "open" /\ attempt' = attempt + 1
       \/ stage' = "failed" /\ attempt' = attempt
    /\ UNCHANGED <<asset, stagingGaps, stagings>>

(* A member the rules reject, or a read of the disk that goes wrong: the   *)
(* directory goes, and install removes the archive.                        *)
ExtractFails ==
    /\ stage = "extract" /\ AttemptFails
    /\ UNCHANGED <<asset, leftovers, stagingGaps, stagings>>

(* checkHeaderMachine: the format and architecture of the executable.      *)
checkHeaderMachine(id) == id # "other machine"

(* The embedded build information: system, flavour, version.               *)
VerifyExecutable(id) == checkHeaderMachine(id) /\ id # "other build"

(* The bundle's Info.plist, its executable and its signature.              *)
verifyBundle(id) == id # "other bundle" /\ VerifyExecutable(id)

(* The executable is where the installation has its own, and passes.       *)
verifyPayload(k, id) ==
    /\ \E i \in DOMAIN k.members : k.members[i].name = "exe"
    /\ IF asset.flavor = "bundle" THEN verifyBundle(id) ELSE VerifyExecutable(id)

VerifyPayload ==
    /\ stage = "extract"
    /\ \E id \in Identities :
          IF verifyPayload(tree, id)
          THEN /\ stage' = "verified" /\ tree' = [tree EXCEPT !.identity = id]
               /\ UNCHANGED <<part, body, attempt>>
          ELSE AttemptFails
    /\ UNCHANGED <<asset, leftovers, stagingGaps, stagings>>

(******************************* the operation *****************************)

(* OpenJournal and Prepare: the record names the files, or another process *)
(* or operation is in the way and nothing does.                            *)
TakeOver ==
    /\ stage = "verified"
    /\ \/ stage' = "recorded" /\ UNCHANGED <<leftovers, stagingGaps, part, tree>>
       \/ /\ stage' = "failed" /\ leftovers' = leftovers \cup {"part", "tree"}
          /\ part' = NoPart /\ tree' = NoTree
          /\ stagingGaps' = stagingGaps \cup {"refused"}
    /\ body' = NoBody
    /\ UNCHANGED <<asset, attempt, stagings>>

(* The process ends before the record is written: no start looks for files *)
(* that no record names.                                                   *)
StagingCrash ==
    /\ stage \notin {"idle", "recorded", "failed"}
    /\ stage' = "failed"
    /\ leftovers' = leftovers \cup (IF part.there THEN {"part"} ELSE {})
                              \cup (IF tree.there THEN {"tree"} ELSE {})
    /\ part' = NoPart /\ tree' = NoTree /\ body' = NoBody
    /\ stagingGaps' = stagingGaps \cup {"crashed"}
    /\ UNCHANGED <<asset, attempt, stagings>>

(* The next start, or the next request, tries again.                       *)
StagingAgain ==
    /\ stage = "failed" /\ stagings < MaxStagings
    /\ stage' = "idle" /\ attempt' = 0 /\ asset' = NoAsset
    /\ UNCHANGED <<body, part, tree, leftovers, stagingGaps, stagings>>

StagingNext ==
    \/ Resolve \/ OpenAsset \/ ReadChunk \/ ConnectionEnds \/ CopyFails
    \/ VerifyDigest \/ ExtractMember \/ ExtractFails \/ VerifyPayload
    \/ TakeOver \/ StagingCrash \/ StagingAgain

StagingTypeOK ==
    /\ stage \in {"idle", "open", "copy", "extract", "verified", "recorded", "failed"}
    /\ attempt \in 0..MaxAttempts /\ body.resumes \in 0..MaxResumes
    /\ leftovers \subseteq {"part", "tree"}

(* What is installed is what was published, and is within the bounds: all  *)
(* of its chunks, none damaged, whatever the connection did and however    *)
(* often it was resumed and retried; each member once and whole; and the   *)
(* disk never holds more than the bounds allow on the way there.           *)
StagedIsPublished ==
    /\ part.chunks <= CompressedLimit /\ expanded(tree) <= ExpandedLimit
    /\ Len(tree.members) <= EntryLimit
    /\ stage \in {"verified", "recorded"} =>
          /\ part.chunks = asset.size /\ ~part.damaged
          /\ tree.identity \notin {"other machine", "other build"}
          /\ \A i, j \in DOMAIN tree.members :
                /\ tree.members[i] = tree.members[j] => i = j
                /\ tree.members[i].delivered = tree.members[i].size
                /\ asset.flavor = "bundle" => tree.members[i].root = tree.members[j].root

(* An operation that failed leaves no release-sized files behind: unless   *)
(* it ended before any record named them, by a crash or because another    *)
(* operation was in the way.                                               *)
NoLeftovers ==
    stagingGaps = {} =>
       /\ leftovers = {}
       /\ stage \in {"idle", "failed"} => ~part.there /\ ~tree.there

(* Only what was published is installed, and a failure leaves nothing.     *)
StagingSafe == StagingTypeOK /\ StagedIsPublished /\ NoLeftovers
================================================================================
