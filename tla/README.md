# ditm in TLA+

ditm ("demon in the middle") is an HTTP proxy for testing distributed systems.
The containers of a system under test send all their requests through it. It
records them, blocks some of them (at random, by a partition of the nodes, or as
an earlier recording says), and *replays* a recording: it sends the recorded
requests that came from outside the system once more, and
decides on the requests that the system's nodes then send to each other by
matching them with the recorded ones.

Paths below are relative to `src/`. `PROJECT.json` maps every definition to the
lines it translates.

## Inventory

| Component | State | Operations | What makes it correct |
|---|---|---|---|
| Block configuration, `proxy.go` 73-128 | mode, previous mode, partitions, percentage, matcher | `Block` on every request; changed by the user and by replays | a request from outside always passes; a replay's mode ends with the replay; a recording tells which configuration made it |
| Request matchers, `request_matcher.go` | the marks ("seen") | `Match`, `Seen`, `MarkSeen`, five kinds | a replay blocks what the recording blocked, no more and no less |
| Handler, `proxy.go` 130-203 | per connection: where it is | decide and record under the lock; forward; read `isReplaying` and `replayTimer` without the lock | every connection is answered or closed; every request is recorded |
| Replay, `proxy.go` 205-289 | `isReplaying`, `replayingFrom`, marks, `replayTimer`, the channel `endReplayC` | `nextOutsideRequest`, `ResetReplayTimer`, `EndReplay` | each outside request is marked and recorded once, in order (each is then sent by a goroutine of its own); a replay ends, and only when all are marked |
| API, `api.go` 72-257 | `isRecording`, `isInspecting`, `recording` | start and end of recordings and replays, inspection, the home page (which cancels a replay), the block configuration | the lock is released; recordings are kept |
| Files, `files.go` | `/recordings`, `/snapshots`, `lastSavedId` | write, load and list recordings and snapshots of the volumes | a recording finds its snapshot; nothing is overwritten |
| Live updates, `api.go` 259-335, with the script of `templates/main.html` | per page: counters and a copy of the mode | polls the recording and the logs, sends what is new, tells the page when a replay is over; the page connects again when the connection breaks | a connection shows the recording it began with, each event once; the page is sent to the recording it showed |
| Logs, `api.go` 337-352 | `recording.Logs` | append | they are saved and emptied with their recording |
| Status and latest recording, `api.go` 372-392 | - | tell a script how far its replay is, and what it has recorded | the script gets the recording of its own replay |
| Diff, layout, start-up | - | display, routing | - |
| Raft node, `examples/raft_redis` and its variants `raft_mongo`, `raft_elastic` | term, votes, log, role, `nextIndex`, `committedIndex` | run loop, elections, broadcasts, the handlers of peers' and clients' requests | one leader in a term; what is committed stays; a leader in the end |
| Other `examples/` | - | systems to try ditm on: a bank, traffic generators | - |

The actors run concurrently: a goroutine per connection, one per call of an API
handler, one per timer that fires, one per replayed request. One mutex, `p.mu`,
guards the state, but not all of it all of the time. What is hard is what
happens outside the lock: a handler tests `isReplaying` and calls
`nextOutsideRequest` later; it tests the pointer to the replay timer, reads it again,
and sets the timer later; `StartReplayHandler` sleeps 100 ms before it sends the first
request, and `EndReplay` sleeps 100 ms before it ends the replay; both
`nextOutsideRequest` and `EndReplay` speak over a channel of one place. The user
may cancel a replay, or start another, between any two of these steps.
The Raft nodes, the systems that ditm is tried on, are concurrent in another way:
the handlers of a node take no lock at all, and the run loop holds one that only
it takes, so a request from a peer is handled while the node waits for the
answers to its own, and two requests are handled at once: `raft.go` 211 says "TODO
needs locking". `PROJECT.json` lists the hazards line by line.

## Modules

| Module | Models | Extends |
|---|---|---|
| `Requests` | messages, requests, verdicts, `checkPartitions`, `Block` | - |
| `RequestMatcher` | the five matchers as operators on sequences and sets of marks | `Requests` |
| `Proxy` | the proxy as a state machine, with its properties | `RequestMatcher` |
| `OutsideReplay` | the abstract promise of a replay: what is left to mark and record goes from the front, and all of it goes | - |
| `Files` | the files: recordings, snapshots, volumes, and the handlers that use them | - |
| `LiveUpdates` | `Proxy` with its callers: a tab that shows live updates, a script that runs replays, the log driver | `Proxy` |
| `Raft` | the Raft node of `examples/`, in its three variants | - |
| `MCProxy`, `MCFiles`, `MCLive`, `MCRaft` | constants and symmetry for TLC | `Proxy`, `Files`, `LiveUpdates`, `Raft` |
| `RequestMatcherProofs` | what the matchers answer | `RequestMatcher`, `TLAPS` |
| `ProxyProofs` | theorems of `Proxy`: types, timers; the order in which outside requests are marked | `Proxy`, `TLAPS` |
| `ReplayProofs` | theorems of `Proxy`: what a replay repeats and promises | `ProxyProofs`, `RequestMatcherProofs` |
| `OutsideReplayProofs` | that `Proxy` implements `OutsideReplay` | `ProxyProofs` |
| `FilesProofs` | theorems of `Files` | `Files`, `TLAPS` |
| `LiveProofs` | theorems of `LiveUpdates`, and that it implements `Proxy` | `LiveUpdates`, `ProxyProofs` |
| `RaftProofs` | theorems of `Raft`: types, votes, winners, indices | `Raft`, `TLAPS` |
| `RaftLogProofs` | that committed entries of `Raft` are kept | `RaftProofs` |

`Proxy` instantiates `OutsideReplay` with a refinement mapping: the timers made so
far for the replays begun, `isReplaying` for whether one is on, and the outside
requests that are not marked for what is left. `Files` is a component of
its own rather than a part of `Proxy`: the two share the handlers, each with its
side of them, and neither side depends on what the other leaves out.

**How the state corresponds.** The variables of `Proxy` have the names of the
fields of the struct `Proxy`. `recording` and `replayingFrom` keep the requests and
the block configurations. A matcher's map from `*Request` to `struct{}` is `seen`,
a set of indices of the replayed recording: loading a recording allocates new
requests, so the marks of another recording never apply. A timer is a number;
`armed` is the set of those that run. `endReplayC` is a sequence: the token in the
buffer, then the senders that wait behind it. `pc` says where each connection's
goroutine is. The other goroutines differ only by the place they are at, so
`goroutines` counts them per place (`kick`, `fired`, `next`, `sleep`, `offer`).

**How the actions correspond.** A critical section of `p.mu` is one action, with
everything it does. Each access outside the lock is an action of its own. So
`Handler` becomes `HandlerDecide` (to the unlock, and the panic that closes the
connection), `HandlerResponse` or `HandlerUpstreamError` (the round trip),
`HandlerCheck` (the unlocked test), `HandlerNext` (`nextOutsideRequest(false)`),
`HandlerOffer` (its send on the channel), and `HandlerTestTimer`, `HandlerLoadTimer`
and `HandlerRearm`, the three parts of `ResetReplayTimer`: its test for nil, its second
read of the field, which may find nil by then (`Reset` panics, and the connection
ends), and the setting of the timer it has read. `EndReplay` becomes `TimerFires`, then one of
`EndReplayToken`, `EndReplayContinue`, `EndReplayAllSeen`, then `EndReplayNext` or
`EndReplayFinish`. A handler that returns or panics with the lock held sets `mu` to
"leaked"; no action that locks is possible afterwards, as in the code.

In `Files` a handler that waits for the archiver holds the lock (`lock` is its
name), and the archiver goes through the volumes one file at a time
(`ArchiveFile`, `ArchiveSkips`, `RestoreFile`) while the system may write: so
`StartRecordingHandler` and `SaveVolumesHandler` have a second half
(`StartRecordingArchived`, `SaveVolumesArchived`), and `Restored` is the end of
`LoadVolumesHandler` and of `StartReplayHandler`. `snapshots` and `recordings` are
functions from numbers to files, each missing, cut short or whole; `start` and
`begun` are history. The archiver is a library, modelled by the options in
`files.go` 16-22: it overwrites, goes on after an error, removes nothing.

`LiveUpdates` conjoins to the handlers of `Proxy` what becomes of their callers. A tab
is the page the browser shows and the `LiveUpdatesHandler` that serves it: `at` says
whether the page is connecting ("loading"), connected ("live") or has been told that a
replay is over ("finished", with `told`), `requests` and `logs` are what the connection
has put on the page, and `writtenRequests` and `writtenLogs` the handler's counters.
`TabClicks` calls a handler, whose critical section is over long before the browser
has the page that it answers with; until `TabLoads` (`next` says what is loaded) the old
page is there and its `LiveUpdatesHandler` goes on polling, over a recording that may
be another. `TabConnects` is the unlocked read of the mode; `LiveUpdatesHandler` and
`LiveUpdatesFinish` are the two ends of a round of the loop; `TabBreaks` is a connection
that breaks, or an event that cannot be written (`api.go` 311 and 322), after which
the `EventSource` connects again and the counters begin from 0; `TabFollows` is the
redirect. The script is `run_replay` of `examples/synthetic/experiments.py`. `stale` and
`alone` are history: whether a handler, the tab's own too, has replaced the recording
since the page connected, and whether nobody else has called a handler since the
script started its replay.

In `Raft` a request to all peers, with the wait for their answers, is a *call*:
`Send` puts the requests on their way, the handlers of the peers take them one by one
and answer, and what the caller does with the answers is `ElectionWon`, `ElectionLost`,
`BroadcastDone`, `BroadcastStale` or `BroadcastPanics`. A request may be lost before
or after it was handled (`RequestLost`, the answer `Lost`): this is what ditm does to
them. The run loop and a client's handler of one node may each have a call.

A handler of a node takes no lock. Each test it makes of the term, the role or the vote
is a step, and what it assigns on the outcome, up to its next test, is another:

| `raft.go` | steps |
|---|---|
| `append_entry` | `AppendEntryTo` (396), `AppendEntryCompares` (400), `AppendEntryAdopts` (401-406), `AppendEntryStores` (407-422) |
| `request_vote` | `RequestVoteFrom` (431), `RequestVoteCompares` (435), `RequestVoteRaises` (436-437), `RequestVoteDecides` (439-451), `Vote` (453) |
| a client's request | `ClientRequest` (358-387 and 318; the term it has read may be an older one by 318), `ClientAppends` (335 and the first half of 336) |

`at` in a call says how far the handler of each of its requests is, `taken` which entry
the client's handler is about to append. Assignments in a row, and what the loop does
between two network operations, are one step. So in the model, as in the code, a term
falls when a request for a vote comes between 400 and 402, a vote is overwritten when
two are decided on at once, and the entry of an old leader is acknowledged after a
vote in a later term. All of these take two goroutines of *one* node, one of which
changes the node while the other is between two of its steps. `upsets` then has a
"clash" (`Clash`), which is history and which no guard reads.

`inbound` is the channel by which a handler restarts the loop's timeout, and makes the
handler wait. `Variant` chooses between the three programs, which differ in a few lines.
`won` and `committed` are history, and `upsets` names what has happened that the code has
no answer to: "clash", "late" (answers counted when their term is over), "overlap" (two
broadcasts of a node at a time) and "members" (the cluster changes). Each property says
which upsets it excludes. Server numbers are never 0, as in the compose
files (with 0, any client's entry would look like the removal of the node).

**What is abstracted.** URIs and bodies are atoms with a length. Time stamps,
headers and response bodies are left out, a log entry is an atom; the timing matcher, the one
decision that depends on time, may find any amount of time passed. Percentages
are the outcomes that have a positive chance. A timer may fire, and a sleep may
end, at any moment. `go send(&r)`, whose result nobody waits for, leaves only the
mark and the record of the request, which are made under the lock: the properties speak
of these, and say nothing of the order in which the goroutines send. Float rounding in the heuristic score is not modelled
(the score is scaled to integers). Of the time a Raft node has heard nothing, only
that is kept which the code compares it with: less than the time in which it
must not vote ("short"), or more than an election countdown may be ("long").

Operators named `Faulty...` are bugs that would be easy to write. No action uses
them; they show, one by one, that each property would notice.

## Runs

The traffic is small and chosen so that the interesting cases happen: a
client's write, a repetition of it between two nodes, and longer repetitions
(so that the matchers disagree on length, content and position). The recordings
on disk have a write, a blocked repetition and a write, where a handler must
stop and wait at the inside request; or only the client's requests, where
nothing ever waits; or both of these; or two and three repetitions with
different verdicts.
`Events` names which of the user's calls and failures may happen in a run.

| Run | Question | Bounds, and why they suffice |
|---|---|---|
| `Proxy_races` | Do the unlocked steps of handlers, timers and `EndReplay` keep the replay's timer, its ender, and the number and order of the outside requests that are marked and recorded, while replays are started over one another and cancelled (by the home page or an inspection)? Does the proxy implement the abstract replay (`OutsideInTurn`)? | two replays (a second one over the first; one of a recording that is not there), two goroutines at each place, two requests: enough for each pair of callers of `nextOutsideRequest` to meet |
| `Proxy_verdicts` | Under each of the five matchers: is a request that is sent in its place (`InPlaceSameVerdict`), or that only one recorded request resembles (`UniqueSameVerdict`), blocked as it was? Does the counting matcher block no more than the recording has (`CountingBlocksNoMore`)? Before a replay, is the last configuration in the recording the one in force (`RecordedConfigIsCurrent`)? | one recording of three repetitions with three verdicts, one of two, and three requests like and unlike them, so that a replay is longer than the recording or out of its order; two configurations in a recording; recordings are started and ended meanwhile |
| `Proxy_ending` | Does a replay that is left alone end, only when everything from outside was marked and recorded (`CompletedReplayIsComplete`, `OutsideAllSent`), and its mode with it (`ReplayEnds`, `ReplayModeEnds`)? | two connections, three requests, upstreams and writes that fail |
| `Files_faults` | Is anything that is saved ever overwritten, with every fault at once? | two recordings, two snapshots, one file with one content: the faults are in the numbers and the states of the files |
| `Files_replays` | Does a recording name its own snapshot, does a replay start where it started, and is the latest recording the newest file? | two recordings, two snapshots, two files with two contents, so that a restart can leave the volumes half restored |
| `Live_callers` | Does a connection show the events of the recording it began with, each once (`ShowsTheRecording`), and does the page go to the recording it showed (`FinishedIsShown`)? Does a script get the recording of its own replay (`ReturnsNewRecording`)? | one tab with one click and one connection that breaks, one script with one replay, one connection of the proxy, one request, one log entry, a recording on disk and one more: a recording, inspection or replay under the old page, with the script's replay beside it |
| `Raft_elections` | Do three nodes, one of them started as leader, keep their votes (`VotesAreFinal`), elect one leader in a term (`OneWinner`), keep what was committed (`CommittedKept`) and stay within their logs (`IndexInLog`)? | one election beyond the first leader, one entry, a write or the removal of that leader, two calls at a time: an old leader's broadcast meets a candidate's election and the new leader's broadcast, step by step |
| `Claim_match_once` | refutes, for the default matcher, that a replay blocks no more than the recording | |
| `Claim_complete` | refutes that a replay which ends by itself is complete, when it follows another | |
| `Claim_answers` | refutes that a connection is always answered or closed | |
| `Claim_volumes` | refutes that restoring a snapshot brings the volumes back | one snapshot, two files |
| `Claim_leader` | refutes that three Raft nodes elect a leader in the end | two elections, no client, one call at a time |

The `Claim_` runs state what the thesis or a comment says and the code does not
do; `PROJECT.json` quotes the text under `findings`. `CHECK_DEADLOCK FALSE` is set
because the calls of the user, the traffic and the terms of Raft are bounded, and
because a leaked lock stops everything that locks.

`Raft_elections` runs the variant `raft_redis`; `raft_mongo` differs from it in when a
change of the cluster is in force, and `raft_elastic` leaves out the checks that the
properties rest on (it is an example of a bug), so they except it. The run does
not let a node broadcast twice at a time (`Overlaps`): then `nextIndex` may move twice
for one entry, and the states are too many. It goes on through the upsets "late" and
"members". After a "clash" it does not (`CONSTRAINT NoClash`): every property but
`TypeOK` excepts one, as TLC refutes `VotesAreFinal` and `OneWinner` within seconds when the
exception is taken away, with one term, no leader to start with and no client. What is
left are all interleavings of the steps of different nodes, and of a node's handlers
with its own call; `TypeOK` after a clash is proved (`RaftTypes`). With one term to elect
in, the answers to an election are never late in the run, and `OneWinner` has them only
as a theorem.

`Files_replays` leaves out events, under which its properties fail in the
code as it is: the system writing during an archive (`busy`), a file that the
archiver skips (`unreadable`), a snapshot or a recording whose file cannot be
made (`create_fails`) and the deletion of files (`delete_snapshot`,
`delete_recording`), whose numbers are then given out again. The theorems have the
same conditions.

**Fairness** (`Proxy_ending`, `Claim_answers`): weak fairness of every step a
goroutine takes once it has begun, and of timers. Go's scheduler runs every
runnable goroutine; a `sync.Mutex` that a goroutine has awaited for 1 ms is handed
to it, so a step that waits for the lock is not starved; senders on a channel are
served in order; a timer that was set fires. The upstream answers or fails.
Nothing is assumed about the user or the arrival of messages, except that the
bound `MaxRequests` ends the traffic: traffic that never pauses for 4 seconds
sets the timer again and again, and a replay under the matchers that do not mark
has no other end. `ReplayEnds` is checked under the bound only. In `Claim_leader`, weak
fairness of the loop of each node and of the end of a call, and strong fairness of
the requests that arrive: one that is sent again and again is not always blocked.
No request need be
blocked for it: TLC finds one too when none may be lost.

## Known to fail

The lock is kept for ever after a block configuration that is posted during a
replay (`api.go` 121), a body that cannot be read (`proxy.go` 138) and a replay of a
recording that cannot be loaded (`api.go` 238): `mu` is then "leaked".

While modelling, more was found that the code does and no run states, since a
property against it fails at once: one call of `nextOutsideRequest` sends two
requests when the first is directly followed by another from outside
(`proxy.go` 240); opening the home page empties a recording that goes on
(`api.go` 80); requests are sent after a replay was cancelled (`api.go` 256,
`proxy.go` 198, 275); two of them may be sent out of order (`proxy.go` 232);
`ResetReplayTimer` panics if the replay ends between its test and its second read
of the timer (`proxy.go` 215); an `EndReplay` that runs after a cancellation puts back the
mode from before the replay (`proxy.go` 215, 285); cancelling leaves mode "replay"
(`api.go` 74); a recording started during a replay lacks the change of mode at the
replay's end (`proxy.go` 285); a tab that is open when another caller starts a replay
is told that a replay is over, and its redirect cancels the new one (`api.go` 301);
the page that is left by a click gets the events of the new recording, or is told
that a replay is over, until the browser has the next page (`api.go` 293-330); a page
whose connection breaks shows every event again (`templates/main.html` 138);
of the Raft node, the term falls (`raft.go` 402, 437), a vote is given twice in a term
(453) and two candidates win one if two requests are handled at once, 406 takes over a `committedIndex` for a log that may not match, 530
panics in a cluster of two, and 576 lets half of an even cluster elect. The conditions in the comments of the
properties and the `Events` of the runs exclude exactly these.

## Proofs

Each theorem holds for every value of the constants, whatever the bounds.

`ProxyProofs`, of `Proxy`:

- `TypeCorrect`: `Spec => []TypeOK`, by one lemma for each group of actions
  (`HandlerType`, `UserType`, `ReplayType`), over lemmas about the operators
  (`MatchType`, `DecisionType`, `BatchType`, `AppendedType`).
- `ReplayTimer`, `ReplayEnder`: `Spec => []TimerIffReplaying` and
  `Spec => []ReplayHasEnder`. The inductive invariant is `TimerInv`, both together:
  `ReplayHasEnder` alone is not inductive, because `EndReplayContinue` sets the timer
  only if there is one.
- Two lemmas about `Spec` that the theorems of `ReplayProofs` and `OutsideReplayProofs`
  rest on. `OutsideOrder`: outside requests are marked in their order, since
  `nextOutsideRequest` marks exactly those up to the first of `Stops`, and a matcher marks
  inside requests only (`DecisionType`). `OutsidePasses`: no recording has a blocked
  request from outside, if those found on disk have none.

`RequestMatcherProofs`, of the operators of `RequestMatcher`, for every traffic and
recording: positions in a stream are numbers without gaps, each request at its own,
and appending leaves them as they were (`PositionType`, `PositionsDiffer`,
`PositionAppend`); each score is bounded, and only the same message reaches the bound
(`HeuristicScoreType`, `MixScoreType`, `ExactScoreType`). So a message that is in its
place is found, if it is not marked (`MatchInPlace`), and by the heuristic and the mix
matcher one that the recording has once is found wherever it is, since no distance
outweighs the content (`MatchUnique`).

`ReplayProofs`, of `Proxy`:

- `SameInPlace`, `SameWhereUnique`: `Spec => []InPlaceSameVerdict`,
  `Spec => []UniqueSameVerdict`. The inductive invariant `VerdictInv` adds to both what
  may be marked (`MarksBehind`): `Match` skips what is marked, so the request that is
  looked for must not be. The counting matcher marks only requests whose position the
  new recording has gone past; the other matchers that search mark none.
- `CountingBlocks`: `Spec => []CountingBlocksNoMore`. `BlockedAreMarked` says that the
  counting matcher has marked a recorded request that is blocked for each one it has
  blocked, stream by stream.
- `ConfigRecording`: `Spec => []RecordedConfigIsCurrent`. `ConfigInv` adds that before
  the first replay no goroutine is there that could put back a mode.
- `ModeEnds`: `[]ReplayModeEnds`, if nobody posts the mode "replay" by a form, and
  replays are left alone (`LeftAlone`: not cancelled, not begun over one another). The
  invariant `ModeInv` says that the mode that a replay's end brings back is never
  "replay". A timer of an earlier replay may still end a later one.
- `OnlyReplayIsComplete`: `CompletedReplayIsComplete`, if there is at most one replay
  (`timers <= 1`; `Claim_complete` refutes it for two). `EndInv` follows the saying that
  nothing is left from the caller of `nextOutsideRequest` through the channel to
  `EndReplayFinish`, and says that it is true.
- `OutsideOnce`: `[]OutsideReplayedOnce`, if no client sends requests of its own, and no
  recording is ended during a replay. The outside requests in the recording are then
  those of `nextOutsideRequest`, which marks what it sends; `OutsideSeenInOrder` makes
  it inductive.

`OutsideReplayProofs`: `InTurn`, `Spec => OutsideInTurn`. A call of
`nextOutsideRequest` is a step `Advance` of the abstract replay
(`SendDueAdvances`: a stop comes after everything the call sends and before
everything it leaves); the user's calls are `Start`, `Cancel` or, since a
configuration is refused during a replay, `Forget`; everything else stutters.

`FilesProofs`, of `Files`:

- `FilesType`: `Spec => []TypeOK`.
- `Kept`: `Spec => NothingOverwritten`. The strengthening is `ArchiveOpen`: the
  archive that is being made is not complete yet.
- `Linked`: `[]SnapshotBelongs`, if snapshots are not deleted and their files can be
  made. The strengthening `LinkInv` says that a free number belongs to no
  recording, and that the archive made for a recording carries its start before
  the recording names it. `KnownBelong` covers at once all the steps that only
  copy recordings about.
- `Latest`: `[]LatestIsNewest`, if recordings are not deleted and their files can be
  made; the strengthening is that numbers are taken without gaps.
- `Alike`: `ReplayStartsAlike`, if nothing disturbs the archiver (`Undisturbed`). The
  inductive invariant `AlikeInv` follows the volumes from the start of the
  recording into the archive (`ArchivedSoFar`), through its completion
  (`WholeSnapshots`), and back (`RestoredSoFar`).

`LiveProofs`, of `LiveUpdates`:

- `CallersRefine`: `LiveSpec => Spec`, so every theorem of `ProxyProofs` holds with the
  callers: each of their steps is a handler of `Proxy` or leaves its variables alone.
- `LiveTypes`: `[]LiveTypeOK`; what needs an argument is that every file has its logs.
- `LiveShows`: `[]ShowsTheRecording`. Two facts make it inductive: a page that has not
  connected has counted nothing (`LoadingIsNew`), and a recording that no handler
  replaces only grows (`ProxyStepGrows`), so what was shown stays its beginning
  (`ShownGrows`).
- `LiveReturns`: `[]ReturnsNewRecording`. `ReturnsInv` says that the script's replay is
  still on or a number beyond `before` has been given out: `EndReplayFinish` ends the
  replay and saves in one critical section (`ProxyStepSaves`).
- `LiveFinishes`: `[]FinishedIsShown`. `FinishInv` says of a page that is not stale that
  it fits the recording with the number it was told, or will be told when the loop
  finds that the replay it has seen is over. The number may have no file yet: the file
  that is written then gets the same recording, grown since (`FitsGrows`).

`RaftProofs`, of `Raft`, for every variant, cluster, log and number of calls:

- `RaftTypes`: `Spec => []TypeOK`.
- `RaftVotes`: `Spec => VotesAreFinal`. While no goroutines of a node have clashed, what a
  handler has found out by its tests is still so at its next step: `Knows` says what that
  is at each step (`TestedAppend`, `TestedVote`, `TestedByClient`), and is inductive because
  a step that changes a node leaves the node's other handlers nothing to forget, or
  is a clash (`KnowsStep`). So a vote that is written down was decided on for the same
  term and is still free. `VoteInv` adds that whoever has answered with a vote has it
  written down, that nobody votes in a term to come, and that a candidate asks in a term
  he has voted for himself in.
- `RaftWinner`: `Spec => []OneWinner`. The invariant `CalmWinInv` adds that a winner has the
  votes of more than half of the cluster; two such sets of nodes meet
  (`QuorumsMeet`), and the node in both has voted once.
- `RaftIndices`: `Spec => []IndexInLog`. A node that leads has been started as leader
  or has won its term, which nobody else has, and a broadcast comes from its leader
  (`Leaders`); so a leader refuses every entry, since it could only be of an older term
  (`LeaderRefuses`), its log only grows, and `nextIndex`, which each answer moves by
  one at most, stays within it (`NextInLog`).

`RaftLogProofs`: `RaftKeeps`, `Spec => []CommittedKept`. The inductive invariant
`CommitInv` speaks of two functions that the program does not keep, and that are
quantified over: `lead`, the log of each term's leader, and `ack`, how much of it each
node has acknowledged. It says that

- the logs consist of what leaders have sent: two logs with an entry of the same term
  at the same place agree up to it (`LeadersAgree`, `LogFits`);
- what a node has acknowledged it still has, or a leader since has been without it
  (`AcksKept`). This is what a follower that cuts its log might break; it does not, as
  what the leader sends never begins before what the follower has of it (`InStep`: a
  leader goes back by one only where the logs differ, and one answer is awaited at a
  time);
- a vote is for a candidate whose log has what the voter has acknowledged, or some
  leader since has been without it (`VoteSafe`, from the comparison of the last entries
  in `UpToDate`, `VoteDecision`); every winner has such votes of a majority;
- what is committed ends with an entry of the leader's own term that a majority has
  acknowledged (`CommitFits`), as `broadcastEntry` counts such entries only.

Of the leaders after a commitment, the first one without it had the vote of a node that
has acknowledged it, so an earlier leader was without it: there is none (`LedHave`).
A step is looked at under `Calm`, which collects the invariants proved before; each
action has its lemma, and `CommitStep` puts them together. Of the steps of a handler only
its last ones do anything to the logs and the votes (`DecisionStep`, `AppendedStep`,
`RefusedStep`); at the earlier ones the invariant stays because of what `Knows` says
(`EarlyStep`, `GoesOnStep`). A cluster of one node commits
what it has (`Alone`). The theorem is about a cluster of an odd size with at most one
forced leader and no upset (`Orderly`), which is what `CommittedKept` says itself.

Assumptions: the constants have their types, and the recordings found on disk
were made by this proxy (`SavedAssumption`), which the proxy itself preserves.

Only model-checked are the liveness properties, which these provers cannot reach:
`ReplayEnds` and `OutsideAllSent` (and `HandlerAnswers` and `NewLeader` of the claims,
which fail). Every invariant and every action property of a passing run is a theorem,
under the conditions named above.

## Plan

Done: `Requests`, `RequestMatcher`, `Proxy`, `OutsideReplay`, `Files`, `LiveUpdates` and
`Raft`, with their proofs. What would come next:

1. Which of the upsets `CommittedKept` and `IndexInLog` bear: for each of "late" and
   "overlap", either the theorem without that condition or a counterexample by TLC; and
   which clashes do no harm.
2. The conditions of `OutsideOnce` and `OnlyReplayIsComplete`: requests of clients during a
   replay, told apart from the replayed ones; a second replay that begins when
   nothing of the first is left.
3. What a liveness proof would rest on: the measure that falls with every step of a
   replay that is left alone, as an action property.

## Not modelled

Diff (a library call, and its handler is not routed), the layout of the templates,
the looking up of host names and the start of the servers (display and I/O). The
place at which the page inserts a row. Response bodies, which `send` and
`ModifyResponse` store in a recorded request that may be being saved, decide
nothing. Of the Raft node: `kill` and a second `start` (nothing but outdated tests,
which do not compile, calls them), so crashes are panics only; the `leaderId` by
which a follower forwards a client's request; two clients' requests at a node at a
time; the reads of clients. The bank and the traffic generators of `examples/`
(systems to try ditm on), the rest of the experiments, the thesis.
