-------------------------- MODULE TranscriptCache ---------------------------
(***************************************************************************)
(* The transcripts of the hub (src/server/event-store.ts): appendMessage   *)
(* puts an entry into the cached transcript at once and its line behind    *)
(* the write chain; getMessages and getMessageCount fill the cache from    *)
(* the file.  They are called by commands of different types, by every     *)
(* snapshot of a chat and by the start of a turn, so that several reads of *)
(* one transcript overlap.  Entries are numbered; a torn line, a chain     *)
(* that failed and the entries of the old messages.jsonl are left out.     *)
(***************************************************************************)
EXTENDS Naturals, SequencesExt

CONSTANTS
    Transcripts,    \* the chats whose transcripts are read
    MaxLines,       \* bound on the entries of a chat
    Readers,        \* reads that may overlap
    MaxReads,       \* bound on the reads
    CacheMax        \* TRANSCRIPT_CACHE_MAX

ASSUME CacheConstants == {MaxLines, MaxReads} \subseteq Nat /\ CacheMax \in Nat \ {0}

VARIABLES
    said,           \* per chat the number of entries appended so far
    lines,          \* per chat its transcript file
    lineChain,      \* the transcript lines in writeChain
    transcriptCache,\* the map: <<chat, entries>>, in the order of insertion
    reads,          \* the reads under way
    unread,         \* per cached chat: appended while the read that filled it ran (history)
    readsLeft

cacheVars == <<said, lines, lineChain, transcriptCache, reads, unread, readsLeft>>

NoRead == [state |-> "idle", log |-> "", behind |-> 0, text |-> <<>>, missed |-> {}]

CacheInit ==
    /\ said = [c \in Transcripts |-> 0]
    /\ lines = [c \in Transcripts |-> <<>>]
    /\ lineChain = <<>>
    /\ transcriptCache = <<>>
    /\ reads = [r \in Readers |-> NoRead]
    /\ unread = [c \in Transcripts |-> {}]
    /\ readsLeft = MaxReads

CachedLogs == {transcriptCache[k].log : k \in DOMAIN transcriptCache}
\* The map without a chat, which it has once at most.
Without(c) ==
    IF c \notin CachedLogs THEN transcriptCache
    ELSE RemoveAt(transcriptCache, CHOOSE k \in DOMAIN transcriptCache : transcriptCache[k].log = c)

\* appendMessage: the line goes to the file later.
AppendMessage(c) ==
    /\ said[c] < MaxLines
    /\ said' = [said EXCEPT ![c] = @ + 1]
    /\ transcriptCache' = [k \in DOMAIN transcriptCache |->
          IF transcriptCache[k].log = c
          THEN [transcriptCache[k] EXCEPT !.entries = Append(@, said'[c])]
          ELSE transcriptCache[k]]
    /\ lineChain' = Append(lineChain, [log |-> c, entry |-> said'[c]])
    /\ reads' = [r \in Readers |->
          IF reads[r].log = c THEN [reads[r] EXCEPT !.missed = @ \union {said'[c]}] ELSE reads[r]]
    /\ UNCHANGED <<lines, unread, readsLeft>>

\* One link of the chain: appendFile.  Each read that waits for the chain as it was
\* has one link less before it.
LineWritten ==
    /\ lineChain # <<>> /\ lineChain' = Tail(lineChain)
    /\ lines' = [lines EXCEPT ![Head(lineChain).log] = Append(@, Head(lineChain).entry)]
    /\ reads' = [r \in Readers |->
          IF reads[r].behind > 0 THEN [reads[r] EXCEPT !.behind = @ - 1] ELSE reads[r]]
    /\ UNCHANGED <<said, transcriptCache, unread, readsLeft>>

\* Fault seeded in GetMessages: the read does not wait for the writes before it.
GetMessagesAtOnce(r, c) ==
    /\ reads[r].state = "idle" /\ readsLeft > 0
    /\ c \notin CachedLogs
    /\ reads' = [reads EXCEPT ![r] = [NoRead EXCEPT !.state = "reading", !.log = c]]
    /\ readsLeft' = readsLeft - 1
    /\ UNCHANGED <<said, lines, lineChain, transcriptCache, unread>>

\* getMessages, getMessageCount of a chat that is not cached: "await this.writeChain"
\* is the chain as it is now.  A cached transcript is answered from the cache.
GetMessages(r, c) ==
    /\ reads[r].state = "idle" /\ readsLeft > 0
    /\ c \notin CachedLogs
    /\ reads' = [reads EXCEPT ![r] =
          [NoRead EXCEPT !.state = "reading", !.log = c, !.behind = Len(lineChain)]]
    /\ readsLeft' = readsLeft - 1
    /\ UNCHANGED <<said, lines, lineChain, transcriptCache, unread>>

\* loadTranscriptFromDisk: what the file holds when its text is read.
LoadTranscript(r) ==
    /\ reads[r].state = "reading" /\ reads[r].behind = 0
    /\ reads' = [reads EXCEPT ![r].state = "read", ![r].text = lines[reads[r].log]]
    /\ UNCHANGED <<said, lines, lineChain, transcriptCache, unread, readsLeft>>

\* setTranscriptCache: whatever is cached by now is replaced, and the oldest goes.
SetTranscriptCache(r) ==
    /\ reads[r].state = "read"
    /\ LET c == reads[r].log
           filled == Append(Without(c), [log |-> c, entries |-> reads[r].text])
       IN /\ transcriptCache' = IF Len(filled) > CacheMax THEN Tail(filled) ELSE filled
          /\ unread' = [unread EXCEPT ![c] = reads[r].missed]
    /\ reads' = [reads EXCEPT ![r] = NoRead]
    /\ UNCHANGED <<said, lines, lineChain, readsLeft>>

CacheStep ==
    \/ \E c \in Transcripts : AppendMessage(c) \/ \E r \in Readers : GetMessages(r, c)
    \/ LineWritten
    \/ \E r \in Readers : LoadTranscript(r) \/ SetTranscriptCache(r)

CacheSpec == CacheInit /\ [][CacheStep]_cacheVars

-----------------------------------------------------------------------------
(* Properties *)

\* Files, cache and reads have the shape the code gives them; the cache is bounded.
CacheTypeOK ==
    /\ said \in [Transcripts -> 0..MaxLines]
    /\ lines \in [Transcripts -> Seq(1..MaxLines)]
    /\ lineChain \in Seq([log: Transcripts, entry: 1..MaxLines])
    /\ transcriptCache \in Seq([log: Transcripts, entries: Seq(1..MaxLines)])
    /\ Len(transcriptCache) <= CacheMax
    /\ reads \in [Readers -> [state: {"idle", "reading", "read"}, log: Transcripts \union {""},
                              behind: Nat, text: Seq(1..MaxLines), missed: SUBSET (1..MaxLines)]]
    /\ unread \in [Transcripts -> SUBSET (1..MaxLines)]
    /\ readsLeft \in 0..MaxReads

\* A cached transcript holds the entries of its chat in their order, each once, and
\* all of them but what was appended while the read that filled the cache was under
\* way: of overlapping reads the last one counts, even if it is the older one.
CacheTellsAll ==
    \A k \in DOMAIN transcriptCache :
        LET c == transcriptCache[k].log entries == transcriptCache[k].entries IN
        /\ \A i, j \in DOMAIN entries : i < j => entries[i] < entries[j]
        /\ 1..said[c] \subseteq ToSet(entries) \union unread[c]
=============================================================================
