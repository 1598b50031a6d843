------------------------------ MODULE LobChain ------------------------------
(***************************************************************************)
(* Reading a value out of line: the first page is looked up in every file  *)
(* of the group, then the chain of pages is read call by call until the    *)
(* length in the locator is reached; a value without such a page is looked *)
(* up as a record on a long-row page (dmLOBReader and dmLOBChainReader in  *)
(* data_lob.go).                                                           *)
(*                                                                         *)
(* A page is a record [read, mine, kind, lob, payload, record, next]: it   *)
(* can be read, its header names its place, its kind, the LOB it belongs   *)
(* to, its part of the value, the long-row record for this locator, and    *)
(* the place of the next page, a pair of a file and a page number.         *)
(* A world also says where the server put the value: at and cut.           *)
(***************************************************************************)
EXTENDS Integers, Sequences, FiniteSets

CONSTANTS
  LobWorlds,     \* records [page, files, lob, first, content, at, cut, sound]
  NoPage,        \* no reference to a next page
  ReadSize,      \* the size of the buffer a caller reads into
  WalkFactor     \* maxLeafChainWalkMultiplier

\* Page n of a value as the server wrote it: the value is on the pages at, and
\* what is after cut[n] on the n-th
AsWritten(w, n) ==
  LET page == w.page[w.at[n]] IN
  /\ page.read /\ page.mine /\ page.kind = "lob" /\ page.lob = w.lob
  /\ page.payload = SubSeq(w.content, w.cut[n] + 1, w.cut[n + 1])
  /\ IF n < Len(w.at) THEN page.next = w.at[n + 1]
     ELSE \A m \in DOMAIN w.at : page.next # w.at[m]

\* A value on pages, one of which may be damaged, but holds no more and nothing
\* else for this value; or a value in a record, for which at is empty
IsStored(w) ==
  LET Byte == 0 .. 255
      pages == DOMAIN w.at
      places == {<<f, w.first>> : f \in w.files} \cap DOMAIN w.page
  IN /\ IsFiniteSet(DOMAIN w.page) /\ NoPage \notin DOMAIN w.page
     /\ w.content \in Seq(Byte) /\ w.at \in Seq(DOMAIN w.page)
     /\ \A r \in DOMAIN w.page :
          /\ w.page[r].payload \in Seq(Byte)
          /\ w.page[r].lob = w.lob => \E n \in pages : w.at[n] = r
     /\ \A r \in places :
          /\ w.page[r].record \in {<<>>, w.content}
          /\ w.page[r].lob = w.lob => r = w.at[1]
     /\ \A n, m \in pages : w.at[n] = w.at[m] => n = m
     /\ w.cut \in Seq(Nat) /\ Len(w.cut) = Len(w.at) + 1
     /\ w.at # <<>> => w.cut[1] = 0 /\ w.cut[Len(w.at) + 1] = Len(w.content)
     /\ \A n \in pages :
          /\ w.cut[n] < w.cut[n + 1]
          /\ ~AsWritten(w, n) =>
               /\ \A m \in pages \ {n} : AsWritten(w, m)
               /\ LET part == SubSeq(w.content, w.cut[n] + 1, w.cut[n + 1])
                      found == w.page[w.at[n]].payload
                  IN found = part \/ Len(found) < Len(part)
     /\ w.sound =>
          /\ \A n \in pages : AsWritten(w, n)
          /\ IF w.at # <<>> THEN w.at[1] \in places
             ELSE \E r \in places : w.page[r].read /\ w.page[r].mine
                    /\ w.page[r].kind = "long" /\ w.page[r].record = w.content
                    /\ w.content # <<>>

ASSUME LobAssumption ==
  /\ ReadSize \in Nat \ {0} /\ WalkFactor \in Nat \ {0}
  /\ \A w \in LobWorlds : IsStored(w)

VARIABLES
  lobWorld,
  chainAt,    \* current and hasCurrent: the page to load next, or NoPage
  unread,     \* remaining
  chunk,      \* what is left of payload
  passed,     \* seen; the steps are as many
  room,       \* room left in the caller's buffer, -1 between calls
  owed,       \* terminalErr: the error the next call returns
  delivered,  \* what the caller got so far
  lobPhase

lobVars == <<lobWorld, chainAt, unread, chunk, passed, room, owed, delivered, lobPhase>>

LobPage(ref) == lobWorld.page[ref]
LobLength == Len(lobWorld.content)   \* locator.byteLen
IsLobPage(ref, kind) ==
  /\ ref \in DOMAIN lobWorld.page
  /\ LobPage(ref).read /\ LobPage(ref).mine /\ LobPage(ref).kind = kind
\* Fault: the LOB a page belongs to is not compared.
IsPageOfAnyLob(ref) == IsLobPage(ref, "lob")
IsPageOfLob(ref) == IsLobPage(ref, "lob") /\ LobPage(ref).lob = lobWorld.lob

\* findFirstLOBPage: the file is not in the locator
FirstPages == {r \in {<<f, lobWorld.first>> : f \in lobWorld.files} : IsPageOfLob(r)}
LongRowPlaces ==
  {r \in {<<f, lobWorld.first>> : f \in lobWorld.files} :
     /\ IsLobPage(r, "long")
     /\ LobPage(r).record # <<>> /\ Len(LobPage(r).record) <= LobLength}

LobInit ==
  /\ lobWorld \in LobWorlds
  /\ chainAt = NoPage /\ unread = 0 /\ chunk = <<>> /\ passed = {}
  /\ room = -1 /\ owed = FALSE /\ delivered = <<>> /\ lobPhase = "start"

\* openLOBPayload: which of several files is found first is left open, as the
\* order of a Go map is.
OpenChain ==
  /\ lobPhase = "start" /\ FirstPages # {}
  /\ chainAt' \in FirstPages
  /\ unread' = LobLength /\ lobPhase' = "open"
  /\ UNCHANGED <<lobWorld, chunk, passed, room, owed, delivered>>

\* readLongRowPayload
ReadLongRow ==
  /\ lobPhase = "start" /\ FirstPages = {}
  /\ IF LongRowPlaces = {} THEN lobPhase' = "error" /\ UNCHANGED delivered
     ELSE /\ \E r \in LongRowPlaces : delivered' = LobPage(r).record
          /\ lobPhase' = "done"
  /\ UNCHANGED <<lobWorld, chainAt, unread, chunk, passed, room, owed>>

\* dmLOBChainReader.Read, entered: an error put off, or the end of the value
CallRead ==
  /\ lobPhase = "open" /\ room = -1
  /\ IF owed THEN lobPhase' = "error" /\ UNCHANGED room
     ELSE IF unread = 0 THEN lobPhase' = "done" /\ UNCHANGED room
     ELSE room' = ReadSize /\ UNCHANGED lobPhase
  /\ UNCHANGED <<lobWorld, chainAt, unread, chunk, passed, owed, delivered>>

InCall == lobPhase = "open" /\ room > 0 /\ unread > 0

\* loadNextPayload fails: what this call already has is returned first.
FailRead ==
  /\ IF room < ReadSize THEN owed' = TRUE /\ UNCHANGED lobPhase
     ELSE lobPhase' = "error" /\ UNCHANGED owed
  /\ room' = -1
  /\ UNCHANGED <<chainAt, chunk>>

\* loadNextPayload.  A page read for nothing counts as passed, as in the code.
LoadNextPayload ==
  /\ InCall /\ chunk = <<>>
  /\ LET steps == Cardinality(passed)
         limit == WalkFactor * Cardinality(DOMAIN lobWorld.page)
         page == LobPage(chainAt)
         part == SubSeq(page.payload, 1, unread)
     IN IF chainAt = NoPage \/ steps >= limit \/ chainAt \in passed
        THEN FailRead /\ UNCHANGED passed
        ELSE /\ passed' = passed \cup {chainAt}
             /\ IF ~IsPageOfLob(chainAt) \/ (page.payload = <<>> /\ page.next = NoPage)
                THEN FailRead
                ELSE /\ chunk' = IF Len(page.payload) > unread THEN part ELSE page.payload
                     /\ chainAt' = page.next
                     /\ UNCHANGED <<room, owed, lobPhase>>
  /\ UNCHANGED <<lobWorld, unread, delivered>>

CopyPayload ==
  /\ InCall /\ chunk # <<>>
  /\ LET n == CHOOSE k \in {Len(chunk), room, unread} :
                \A j \in {Len(chunk), room, unread} : k <= j
     IN /\ delivered' = delivered \o SubSeq(chunk, 1, n)
        /\ chunk' = SubSeq(chunk, n + 1, Len(chunk))
        /\ room' = room - n /\ unread' = unread - n
  /\ UNCHANGED <<lobWorld, chainAt, passed, owed, lobPhase>>

ReturnFromRead ==
  /\ lobPhase = "open" /\ room # -1 /\ ~InCall
  /\ room' = -1
  /\ UNCHANGED <<lobWorld, chainAt, unread, chunk, passed, owed, delivered, lobPhase>>

LobNext ==
  OpenChain \/ ReadLongRow \/ CallRead \/ LoadNextPayload \/ CopyPayload \/ ReturnFromRead

LobSpec == LobInit /\ [][LobNext]_lobVars
-----------------------------------------------------------------------------

LobRefs == DOMAIN lobWorld.page \cup {LobPage(r).next : r \in DOMAIN lobWorld.page}

LobTypeOK ==
  /\ chainAt \in LobRefs \cup {NoPage}
  /\ unread \in 0 .. LobLength
  /\ passed \subseteq LobRefs
  /\ room \in -1 .. ReadSize /\ owed \in BOOLEAN
  /\ lobPhase \in {"start", "open", "done", "error"}

\* A value of several pages, one of which may be unreadable, overwritten, cut
\* short, linked back or linked to another value, is delivered as it was stored or
\* not at all, however the calls cut it into pieces; and a sound one is always
\* delivered (dmLOBChainReader.Read and loadNextPayload).
LobWhole ==
  /\ lobPhase = "done" => delivered = lobWorld.content
  /\ lobWorld.sound => lobPhase # "error"
=============================================================================
