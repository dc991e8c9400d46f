# vnim in TLA+

vnim is an input method for Vietnamese: a server that X applications talk to in
the XIM protocol, and that turns `hojacw` into *hoặc* while it is typed. This
directory holds TLA+ modules that model its C code, configurations that check
them with TLC, and proofs checked by TLAPS. `PROJECT.json` maps every
definition to the source lines it stands for.

## The system

| component | source | state it keeps | operations |
|---|---|---|---|
| composing engine | `viEngine/vi-engine.c`, `-private.h` | `sCurrentWord` (letters with marks, one tone), `sRules` | `ViProcessKey`, `ViProcessBackspace`, `ViResetEngine`, `ViGetCurrentWord`, `SetInputEngine` |
| glyph table | `viEngine/charset.c` | constant | look-up by an index that is a sum of shifts |
| front end | `main.c` | `preEditText`, `preEditLength`, `engineEnabled`, `triggerNum` | `XIMProcessKey`, `ProcessHotKey`, `EngineReset` behind four callbacks |
| XIM server | `xim.c` | the ring `Queue`, and the preedit fields of a context | `ProcessKey`, `IMPreeditShow/Draw/SoftHide/Hide/Commit`, `MyProtoHandler`, the event loop |
| context table | `IC.c` | `ic_list`, `free_list`, the last id | `CreateIC`, `DestroyIC`, `FindIC`, `SetIC`, `GetIC` |
| dispatch | `IMdkit/i18nPtHdr.c` | `client->sync`, `client->pending`, `ims->sync` | `_Xi18nMessageHandler`, one procedure a message, `AddQueue`, `ProcessQueue` |
| sending | `IMdkit/i18nMethod.c`, `i18nClbk.c` | `client->sync` | `xi18n_forwardEvent`, `xi18n_commit`, the callbacks; opening the input method, selections |
| client table | `IMdkit/i18nUtil.c` | `clients`, `free_clients`, the last `connect_id` | `_Xi18nNewClient`, `Find`, `Delete`, `_Xi18nSendMessage` |
| registration | `IMdkit/i18nMethod.c` | none of its own: `XIM_SERVERS` and a selection at the X server | `SetXi18nSelectionOwner`, `DeleteXi18nAtom` |
| X transport | `IMdkit/i18nX.c`, `i18nOffsetCache.c` | properties of windows, the offset of each atom, a sequence of atoms | `ReadXConnectMessage`, `ReadXIMMessage`, `Xi18nXSend`, `Xi18nXWait`, `Xi18nXDisconnect` |
| IC attributes | `IMdkit/i18nIc.c`, `i18nAttr.c` | ids of attributes | `_Xi18nChangeIC`, `_Xi18nGetIC` |
| marshalling | `IMdkit/FrameMgr.c`, `i18nIMProto.c` | a cursor in a frame | `FrameMgrInit`, `GetToken`, `PutToken`, `SetSize`, ... |
| IMdkit front | `IMdkit/IMConn.c`, `IMMethod.c`, `IMValues.c` | none after start-up | calls through a table of methods |

How they interact. A client sends XIM messages as X client messages, the long
ones in a window property. The event loop of `xim.c` filters them into
`ReadXIMMessage`, which hands a packet to `_Xi18nMessageHandler`. That calls
`MyProtoHandler` back, which calls `XIMProcessKey`, which calls the engine; the
answer says what to draw, commit or forward, and these calls send messages the
other way. One process with one thread serves every client, and there is *one*
word, *one* `Queue` and *one* `ims->sync` for all of them.

What is hard about it:

* a key can be put aside in two places: in the pending list of its client while
  `client->sync` waits for a `SYNC_REPLY`, and in `Queue` behind the commit of
  the word it ended. Each is emptied by the reply of a client, at a moment the
  server does not choose;
* users type ahead, clients answer late, and two clients' messages interleave;
* the focus moves while keys are put aside or on their way, and its messages
  are not put aside with them;
* the client displays a preedit it was told of in steps (`chg_length` characters
  replaced by `length`), so both sides must agree on what is on display;
* hot keys are recognised by a small automaton over presses and releases, which
  misses those that go to other windows;
* a client's record, id, window filter and property serve the next client after
  it, whose machine may have the other byte order; clients die with requests on
  their way, and the ids of contexts are 16 bits of a counter;
* a frame is walked by a cursor that finds the ends of nested lists by counting
  bytes, and is filled by sizes that were handed over in advance, in an order
  that only convention keeps;
* the engine spreads the meaning of a word over letters, marks and one tone,
  and many paths change two of the three.

What makes each part correct: the engine never loses, duplicates or misdraws a
letter or a tone, and refuses a key only if the key left no trace; the front end
switches the engine when and only when a chord is let go; the server gives every
key its effect once, in order, in the context it was typed in, strands none, and
keeps the display in step; the transport delivers messages whole, once and in
order; the frame manager writes the bytes the protocol asks for and gives back
what a client wrote; every request is answered once, to the one who asked, in its
byte order; a starting server is found by clients, and refused only for one that
is there. The `hazards` of `PROJECT.json` list where each of these could go
wrong, line by line.

## The modules

| module | models | kind |
|---|---|---|
| `ViWord` | the algorithms of `vi-engine.c` as operators on a word | pure, parameters `MaxLen`, `Rules` |
| `WordLength` | what one letter does to the length of a word | pure |
| `Composer` | what the front end counts on from the engine | abstract specification |
| `ViEngine` | the engine behind `vi-engine.h` | state machine, refines `Composer` |
| `FrontEnd` | `ProcessHotKey` and `XIMProcessKey` as operators | pure, over the promise of `Composer` |
| `HotKey` | the front end at a physical keyboard | state machine over `FrontEnd` |
| `XimServer` | `xim.c`, the preedit of `IC.c`, dispatch and synchronisation of IMdkit, with clients | state machine over `FrontEnd` |
| `KeyQueue`, `BoundedQueue` | `Queue` as a bounded sequence: `Push`, and what the server counts on | operator, used by `XimServer`, and abstract specification |
| `RingQueue` | `Queue` as the array with two indices of `xim.c` | state machine, refines `BoundedQueue` |
| `Channel` | what the dispatcher counts on from the transport | abstract specification |
| `PropertyTransport` | `ReadXIMMessage` and the cache of offsets, with a client and the X server | state machine, refines `Channel` |
| `FrameInst` | the cursor of `FrameMgr.c`: instances of frames, iterations, sizes | pure, recursive |
| `XimFrames` | the templates of `i18nIMProto.c`, and the layout of messages in the protocol | pure, the reference for `FrameMgr` |
| `FrameMgr` | the handlers' calls of the frame manager, token by token | state machine |
| `Connections` | the list of clients, the free list, the contexts; connect, open, use, close, disconnect, death | state machine |
| `Registration` | `SetXi18nSelectionOwner` among instances of vnim | state machine |
| `Service` | the clients of one instance, while instances come and go | composition of `Connections` and `Registration` |
| `MC*` | values of the constants for TLC | |
| `*Proofs` | theorems and their proofs | |

**ViWord, ViEngine.** A word is `[chars, tone]`, a letter `[origin, mark]`; marks
and tones are the code's shifts (`IndexShift…`). Each static function of
`vi-engine.c` is one operator that returns the word and the value returned
(`PROCESSED`, `REVERTED`, `NOTHING`); the loops that look for the last matching
letter are a choice of the greatest position. `ViEngine` has one action per
function of the header that works on the word; `SetInputEngine` is the choice of
`Rules`. `wordBreak` is recomputed before each use, so it is an operator; the case of
a letter only adds one to the index of its glyph and is ranged over there.

**Composer, FrontEnd.** The front end sees of the engine only the length of the
word and whether a key was taken. `Composer` states what it counts on,
`ViEngine!PromiseKept` shows that the engine implements it, and `FrontEnd` is
written over it: `XIMProcessKey(fe, ev)` is the *set* of decisions the code may
take, one for each length the engine may answer with.

**HotKey.** Keys go down and up, repeat, and may go to another window. The
X server (which modifiers an event carries, what `z` becomes under shift,
auto-repeat as a release and a press) is external.

**XimServer.** The variables of the server are those of the code: `fe`, `ics`,
`lastId`, `imsSync`, `queue`, `sync`, `pending`; `typed` remembers which keys the
word is made of, `busy` that `ProcessQueue` is running, so that each turn of its
loop is a step and nothing else of the server is. `ProcessKey` has a disjunct for
each case of the switch in `xim.c` and is called from both places that call it
(`HandleForwardEvent`, `DrainPending`). `PREEDIT_ACTION_COMMIT` is not among them:
`XIMProcessKey` never returns it. The two message channels of each client are FIFO.

The clients are not in the repository; they are modelled by what the handlers
assume of them: they send the keys of the focused context at once, block on
`CREATE_IC`, `DESTROY_IC`, `RESET_IC` and `DISCONNECT` until the reply, answer
every `COMMIT` and `FORWARD_EVENT` with a `SYNC_REPLY` (the server sets the
synchronous bit of both), and apply messages in the order they arrive. Replies
that change no state on either side are left out. Clients that die are the subject of
`Connections`. Clients connect by `CREATE_IC`; a context id is used
once (`XimAssumption`).

**KeyQueue, BoundedQueue, RingQueue.** `XimServer` has a sequence where `xim.c` has the
array `Queue` with `FirstIndex` and `LastIndex`, and its `Push` empties the sequence
that gets too long. `RingQueue` is the array, with `Push`, `Pop` and the resets of both
indices; `RingIsAQueue` says that it implements `BoundedQueue`, which is written with
the same `Push` (`KeyQueue`).

**Channel, PropertyTransport.** The bytes of a property are pairs of a message and
a place in it, so that a read from the wrong offset cannot go unseen. Reading a
long message takes two steps, `AskProperty` (the request, which the X server
carries out and which may delete the property) and `ReadProperty` (the offset and
the copy): the client may append between them. `LookupPropertyOffset` and
`SetPropertyOffset` are the functions of `i18nOffsetCache.c`. `Channel` is the FIFO
of the client's channel in `XimServer`. That an event outruns no write of its
client to a property is the order X guarantees to one connection. The lengths are
multiples of four (`TransportAssumption`), which the header of XIM gives; the
rounding of `i18nX.c:158` would otherwise lose messages.

**FrameInst, XimFrames, FrameMgr.** A template is a sequence of slots as in
`i18nIMProto.c`, numbered from 1 (so 0 is the `-1` of the code). A frame instance
or an iteration is a value, and a function of the code that changes one returns
the changed one; a chain of data made on demand is a partial function from slots or
items. A behaviour of `FrameMgr` is one message. A *written* one sets sizes and
counts, allocates what `FrameMgrGetTotalSize` says, and puts tokens; a *read* one
starts with the bytes a client has laid out. `todo` holds the calls that the
handler has still to make, in its order (`Putting`, and the operators
`OpenCalls`, `CreateICCalls`, ... that spell out the reading handlers); each action is one
function of `FrameMgr.c` taking the next call. `PutToken` and `GetToken` of the
code call themselves to pass counters and paddings: these are disjuncts of their
own here, and so are the paddings that `FrameMgrIsIterLoopEnd` passes. `iters`
is the list of counters that watch lists being read. `XimFrames` says what the
message should look like without any of this (`Layout` of `Parts`): fields,
lengths, strings, counts of bytes, and gaps to the next multiple of four.

**Connections.** `clients`, `freeClients`, `connectId`, `ics` and `created` are the
variables of the code (the lists are sets: ids and windows are unique, which is
`OneRecordEach`, and contexts carry the number of their creation, for the newest
stands first). `accepting` holds the applications whose `accept_win` has a filter.
Each handler of `i18nPtHdr.c` that opens, uses or closes a connection is an
action; the three queries that only answer are one. A message of an application
that has no filter, or has not said its byte order, is dropped (`Drop`). Clients
are external and follow Xlib: one request at a time, but a `SYNC_REPLY` may come
late, behind a `DISCONNECT`. `Die` takes a client's window and leaves its messages
on their way; an answer to such a window sets `badWindow`. No X error handler is
set, so Xlib ends the process: `End` stands for that as for `kill`, and starts
the tables anew, because clients see of a new process only that the old one is gone.

**Registration, Service.** Each request of `SetXi18nSelectionOwner` to the X
server is a step, so that two instances may interleave anywhere; `found` is its
local variable. `raced` remembers that two were starting at the same time, the
case in which the code promises nothing. An instance that ends never takes its
atom out of `XIM_SERVERS` (`DeleteXi18nAtom` is reached, if at all, behind an error
that ends the process). `Service` puts the two together: a client dials the owner
of the selection, and `End` is the `Stop` of the instance looked at.

## What the runs show

| run | bounds | properties |
|---|---|---|
| `ViEngine` | 4 characters, 10 keys of Telex and VNI | `TypeOK`, `ToneIsDrawn`, `GlyphShowsItsLetter`, `ToneKeyIsFree`, `ToneKeyTwiceIsLiteral`, `RefusedLeavesWord`, `PromiseKept` |
| `HotKey` | 6 keys, 4 presses a gesture, 2 events elsewhere | `TypeOK`, `ChordSwitchesOnce`, `SwitchNeedsChord`, `DisabledHoldsNoWord` |
| `HotKeyElsewhere` | the same, 1 event elsewhere | finds `OnlyChordsSwitch` violated |
| `XimFast` | 1 client, 1 context, 4 keys, 2 focus moves, 1 request, ring of 3 | `TypeOK`, `PendingMeansSync`, `SyncHasReplyComing`, `KeysHandledInOrder`, `PendingIsEmptied`, `HeldKeyIsReleased` |
| `XimTwo` | 2 clients, 2 contexts, 2 keys, 3 focus moves, 1 request | `PreeditInStep`, `KeyInOnePlace` |
| `XimPatient` | 1 client, 2 contexts, 4 keys (Shift among them), 3 focus moves, 1 request, a patient user | `EffectInOrder`, `NothingLost`, `DisplayIsTheWord` |
| `RingQueue` | 4 slots, 2 keys | `RingIsAQueue` |
| `PropertyTransport` | 2 properties, 3 lengths, 7 messages | `TypeOK`, `OffsetInStep`, `TransportIsFifo`, `EveryMessageArrives` |
| `XimOvertake` | 1 client, 1 context, 3 keys, 3 focus moves | finds `EffectInOrder` violated |
| `FrameMgr` | 17 messages, lists of 0 to 2 items, strings of 0 to 4 bytes, both byte orders | `TypeOK`, `InsideTheMessage`, `WrittenAsSpecified`, `ReadAsSent` |
| `FrameMgrEmpty` | the same messages, with lists of no item from clients | finds `EmptyListHasNoItem` violated |
| `Service` | 2 applications of different byte order, 2 instances, 3 contexts with ids modulo 2, 1 death | `TypeOK`, `OneRecordEach`, `ReadInItsOrder`, `ContextIsItsOwners`, `OnlyTheDeadBreakIt`, `NoOneWaitsInVain`, `ServerIsFound`, `OnlyTheAskerHears`, `RefusedForALiveServer` |

Why the bounds are enough. Every rule of the engine looks at no more than three
letters that stand together (`gi`, `qu` and a vowel) and one tone; four letters
leave room for one more, and the proofs cover every length, key and table.
The run has the keys of both tables at once, since `SetInputEngine` may change the
table between any two keys: letters, marks and a tone by Telex (`u o a d w s`), another
tone and the rules only VNI has (`2 6 7`), and a key that no table has. A
chord has two keys; four presses let a gesture hold a chord and two keys that
disturb it. A key of the server passes through at most two waiting places; four
keys fill the word, end it, and leave two to be put aside behind the one held
back. `Queue` has `MaxBuffer - 1` usable slots; a ring of three has room for
the two keys that four keys can put there. The `Push` that loses all keys would need
more (99 in the code, each the end of a word, before the first reply): it is reached in
`RingQueue`, and the proofs about `XimServer` have it. `MaxLen = 2` lets a word grow, shrink and be
full. The user's actions are bounded (`MaxKeys`, `MaxFocus`, `MaxRequests`,
`MaxICs`); the bounds are guards of the user's actions only, so the server always
runs to the end of what was asked of it. Only `FrameMgr` and `RingQueue` check for deadlock: a call
the frame manager cannot answer (a length of `NO_VALUE`, an array without a size,
a look ahead that never ends) is one; `RingQueue` never stops. Elsewhere a system whose
user has gone may stop.

In `RingQueue` four slots hold up to three keys, so that there is a first, a middle and
a last one, at each place where the ring can be cut; two keys tell any two
neighbours apart.

In `PropertyTransport` seven messages over two properties let three long ones stand
in one, while another is behind them in the second; the lengths differ, so that
an offset can be right for one message only, and events hold four bytes instead
of twenty to keep the long ones short.

In `FrameMgr` strings of 0 to 4 bytes give every remainder by four, and a
full unit; two items are a first one and a later one, and every template with two
lists has both with each number of items. Lists that clients send have at
least one item, except the second of the encoding negotiation, which Xlib leaves
empty; `FrameMgrEmpty` drops that. Three contexts over two ids make the id wrap
onto a live one and onto a free one; two applications that come, go and come
again use each other's records and ids, with the byte order of the other; after one
death there is still a client that must not suffer from it. `Service` has two and a
half million states.

The two users of a property. The properties of `XimFast` and `XimTwo` hold for
every user. A *patient* one acts only when nothing is under way. `EffectInOrder`
and `DisplayIsTheWord` hold for him, with one client as checked and with any number as
proved; for one who types ahead `EffectInOrder` fails, which is the first finding below. A key that is let go,
or a Shift, is passed on while letters typed before it are still being composed; it
has no effect on a text (`HasEffect`), and is not compared. `NothingLost` holds with one
client only: with two the server may hear `SET_IC_FOCUS` of the new one before
`UNSET_IC_FOCUS` of the old one, and then the new focus resets the word that the old
one was about to commit (`xim.c:291`).

Fairness. `FairSpec` asks of the server that a client with a message waiting is
eventually served, and of a client that it eventually receives: the event loops
of both are `while (1)` over `XNextEvent`, and X delivers in order.
`PropertyTransport` asks the same of the server alone. Nothing makes a user act,
or a client write. Liveness is checked under it in `XimFast` (pending keys are
taken up again, and so is a key of `Queue`) and `PropertyTransport`
(every message arrives). `HeldKeyIsReleased` is for a user who types ahead, and has two
conditions, each of which TLC shows to be needed: that no second key is held
(`AtMostOneHeld`, see the findings), and that no client leaves with a commit unanswered. `Connections`, `Registration` and
`Service` state none: any process may stop there at any moment. `NoOneWaitsInVain`
is what can be said instead: the request of every client that waits is on its way,
and will be taken, not dropped.

## Findings

* `XimOvertake`: when a key ends a word, the word is committed, and the key waits
  in `Queue` for the `SYNC_REPLY` of the commit. A forwarded event sets
  `client->sync`, which makes the dispatcher put later keys aside; a commit does
  not, although its message is synchronous too. A key typed before the reply is
  forwarded ahead of the key held back (`xim.c:236`).
  For the same reason a second word may be ended before that reply: `a`, Return, `b`,
  Return. Then two keys are in `Queue`, and one may stay there. `ims->sync` is one
  Boolean (`xim.c:231`); the first `SYNC_REPLY` clears it (`i18nPtHdr.c:571`) and takes
  out one key, and no later reply takes out the second, which waits until another word
  is ended, and is then late and out of order, or is dropped when the focus moves. No run
  has this for its subject: it is what `HeldKeyIsReleased` fails on in `XimFast` without its
  condition `AtMostOneHeld`.
* `HotKeyElsewhere`: `README.md` says Ctrl+Shift or Alt+Z switch the engine.
  `triggerNum` survives while another window has the keyboard, so that a Shift
  alone can do it after a Ctrl that was let go elsewhere (`main.c:22`).
* `FrameMgrEmpty`: a list is seen to end when its bytes have been counted, while
  they are taken; a list without bytes is never seen to end, and the loop takes
  one item from behind it (`i18nPtHdr.c:452`). The case "query all extensions" of
  `MakeExtensionList` is for a list without items, and is never reached.
  `GET_IM_VALUES`, `GET_IC_VALUES` and `_Xi18nChangeIC` loop alike;
  `ENCODING_NEGOTIATION` looks at the length first, and is right.

Seen on the way, without a run: of two instances that start at once, both may be
up, or one may be refused for one that then ends; `i18nPtHdr.c:1446` clears
`encoding` where the line above it allocates `encodinginfo`.

## What is proved

All theorems are for every value of the constants that the named assumptions
allow: any word length, any rule table, any keyboard, any number of clients,
contexts and keys.

* `ViEngineProofs`. The inductive invariant is the conjunction of `TypeOK` (which
  says that each letter carries a mark its rows of the glyph table have),
  `ToneHasVowel` and `NoUBreve`. `ToneHasVowel` is needed for `ToneIsDrawn`:
  lemma `VowelHasSeat` shows that a word with a vowel always has a seat for the
  tone. `NoUBreve` is needed for `RefusedLeavesWord`: a refused key still runs
  `ViCorrection`, which changes nothing only if there is nothing to correct.
  `RowsOfLetter` does the index arithmetic behind `GlyphShowsItsLetter`. From
  `ProcessKeyKeeps`, one case for each trigger, everything else follows, with
  `EngineKeepsPromise`, the refinement of `Composer`.
  The two theorems about tone keys (`ToneKeyAnywhere`, `ToneKeyTwice`) compare two
  computations rather than two states. They rest on a lemma for each transform
  that two words which differ in the tone alone come out of it with the same
  letters and the same answer (`Alike`), and on `ToneStroke`, what a tone key does
  to a word that has a vowel; the greatest and least positions that the
  transforms choose exist by the well-foundedness of `<` on the naturals.
* `HotKeyProofs`. The invariant is `TypeOK`, `DisabledHoldsNoWord` and
  `TriggerIsHeld`: while vnim sees every event, a non-zero `triggerNum` means that
  the keys it stands for are down. `SwitchNeedsChord` follows from it.
  `ChordSwitchesOnce` needs `Gesture` besides, which ties the automaton to the
  history of the gesture: which press each value of `triggerNum` stands for, that a
  gesture of one key has not switched yet, that a switch leaves a chord behind in the
  presses, and that a gesture that is a chord has switched once as soon as
  `triggerNum` has left the value that stands for it. The last part is what a repeat of the second key could break.
* `XimServerProofs`. Type correctness, with the messages each channel may carry,
  then `PendingMeansSync` and `SyncHasReplyComing`. The second needs the first
  and follows each `FORWARD_EVENT` from the server's channel to the client's
  `SYNC_REPLY` behind it.
* `XimKeysProofs`, for any number of clients, contexts and keys, and any user. It
  proves `PreeditInStep`, `KeyInOnePlace` and `KeysHandledInOrder`, none of which
  is inductive.
  - `Owners` says who knows a context. A client is blocked on one request or its
    answer (`OneRequest`), so `lastId` never passes the number of contexts asked
    for (`Counted`) and ids do not wrap; every id that a client, its channels and its
    pending list name was created and belongs to no other client (`Owned`); a key's
    message names the context it was typed in (`AtHome`); and a context to be
    destroyed is not used again (`GivenUp`).
  - `InStep` extends `PreeditInStep` to contexts whose `CREATE_IC_REPLY` is still on
    its way (`Fitted`), to those not created yet (`Unseen`), to those that show no
    preedit (`Dark`) and to clients that leave (`Parted`). It needs `Owners`: a draw on
    the channel of another client would change the record and not the display.
  - `OnePlace` puts the keys in boxes: the word, `Queue`, and each application, pending
    list and channel. No number is in two boxes (`Apart`) or twice in one (`Singly`), and
    none is above the last key pressed (`Numbered`). Each step moves keys between
    boxes: `Taken` and `Dealt` say which a handler takes from its client and where they
    go; `Deals` is shown for each case of `ProcessKey` and each handler that ends a word.
  - `InTurn` says that channels and pending lists are sorted, that what is pending
    comes before what is on its way, and what was handled in a context before both.
    It needs `Owners`, because the keys of a context wait at one client, and
    `OnePlace` for a key just typed.
  That the last `PREEDIT_DRAW` of a channel exists, and the first message of a kind,
  is the well-foundedness of strict inclusion on finite sets (`LeastNumber`).
* `XimPatientProofs`, for a patient user and any number of contexts and keys. It
  proves `DisplayIsTheWord` and `EffectInOrder` for any number of clients, and
  `NothingLost` for one (`OneClient`) with a ring that has room for a key
  (`MaxBuffer > 1`; the code's is 100). Between two of his actions the server hears of one
  key, one request, or one move of the focus, which two clients may tell in either order;
  the invariant says what each of these leaves on its way, beside `Owners`,
  `OnePlace`, `InTurn` and `InStep`, which hold for every user.
  - `Calm`: a key or a request is alone on its way, no key is pending, and a key
    names the context that has the focus.
  - `Known`: the server has a record of each context that a client has, without which
    a message would be about nothing.
  - `Lit`: only the context that has the focus, or had it while `UNSET_IC_FOCUS` is on
    its way, shows anything, and what it shows is as long as the word. With `PreeditInStep`
    this is `DisplayIsTheWord`. It is about the server's record, so that a draw under
    way needs no case of its own.
  - `WordOK`: the keys of the word were typed in that context, so that the commit goes
    where they were.
  - `QueueOK`: at most one key is in `Queue`, the `COMMIT` or the `SYNC_REPLY` that will
    release it is on its way, no move of the focus is, and each such reply is about the
    context of the key. That is what a user who types ahead breaks.
  - `Ordered`: what an application has comes before what is on its way to it, and that
    before what the server has: a key in `Queue`, the word, the key being handled.
  - `UnsetFirst` and `Kept`, for one client: `UNSET_IC_FOCUS` stands before
    `SET_IC_FOCUS` in its channel, so the word is committed before it is reset, and each
    key pressed is in one of the boxes of `OnePlace`. When nothing is under way, the
    word and the applications are the only boxes left.
* `PropertyTransportProofs`, for any number of properties, messages and lengths. The
  invariant adds to `TypeOK` that events are numbered up to the last message sent
  (`Numbered`), that offsets and properties are whole words (`InWords`, without
  which a read of 32-bit units would take bytes of the next message), that the messages
  announced in a property stand one behind the other from the offset to the end
  (`Chained`, of which `OffsetInStep` is the first part: it does not say
  where the second message stands, so it is not inductive), and that a read
  under way holds the message at the head (`Answered`). `ImplementsChannel` is
  the refinement of `Channel`, `TransportIsFifo`: writing a message is a `Send`, the
  end of a read a `Deliver`, and asking for a property a stutter. So the channels to the
  server that `XimServer` has as FIFO queues are proved to be that.
* `ServiceProofs`, in three parts. `Connections`, for any number of applications and any
  width of the ids of contexts: the invariant is `TypeOK`, `Tables` (`OneRecordEach`, `FreedOnce`,
  `ReadInItsOrder`), `OnlyTheDeadBreakIt`, and for each application `Orderly` (its
  stage, its request and what it has sent belong together) and `Received` (it has
  a record with its byte order from the stage on that needs one). `FreedOnce` says
  that a record is freed once, without which `OneRecordEach` is not inductive.
  `Orderly` and `Received` give `NoOneWaitsInVain` and `OnlyTheAskerHears`.
  `ContextIsItsOwners` needs `Contexts`: it holds only while no context of the list
  is as old as there are ids, a condition that can fail and hold again, so the
  invariant must say what survives in between. An id has no more users (clients that
  hold it, or have named it in a message not yet read) than contexts on the list; the
  newest is destroyed first, so when the old ones are gone as many users are gone too.
  The assumption is that there are fewer than 65536 applications, so that the
  16 bits of `connect_id` suffice.
  `Registration`, for any number of instances: the invariant adds to the
  types that without a race one instance at most is starting, and what
  the property and the selection are at each of its steps.
  `Service`: it implements `Connections` and `Registration`
  (`ServiceConnects`, `ServiceRegisters`): each step is one of one part and leaves
  the other alone, or is the end of the instance, which is a step of both. So
  what is proved of the parts holds of the whole.
* `RingQueueProofs`, for any number of slots and any keys: `RingImplementsQueue`, the
  refinement of `BoundedQueue`. The invariant is `TypeOK` alone, because what the ring holds
  is a function of the indices and the slots between them (`Ring`); the work is that one
  step of an index changes the number of these slots by one, modulo `MaxBuffer`, and
  leaves each key its place (`Wrap`, `BetweenIs`, `PlaceIs`).

The assumptions are those named in the modules (`...Assumption`). Where they
restrict, they say what the code or the protocol gives: fewer than 65536 applications
(`Connections`), no context id used twice (`XimServer`; what happens beyond is
`ContextIsItsOwners`), lengths that are multiples of four (`PropertyTransport`). The
theorems of `XimPatientProofs` have hypotheses instead: `Patient` and, for
`NothingLost`, `OneClient` and `MaxBuffer > 1`. Each is needed: the run
`XimOvertake` is without the first, two clients lose a word as told above, and a
ring of one has no usable slot.

Model-checked only: the liveness properties `PendingIsEmptied`, `HeldKeyIsReleased` and
`EveryMessageArrives` (out of the prover's reach, as is anything about `ENABLED`),
and all of `FrameMgr`.

Templates nest, so `FrameInst`, and `FrameMgr` over it, are written with RECURSIVE
operators, about which TLAPS proves nothing. No other module has one.

## Not modelled

* Code points, the conversion to compound text, logging, allocation failures.
* The frames of authentication, of extensions and of status, the templates that
  have only fixed fields, fields of 64 bits (not compiled in), and the functions of
  `FrameMgr.c` that nothing calls (`FrameMgrSkipToken`, `FrameMgrReset`,
  `FrameMgrSetTotalSize`, `FrameMgrInitWithData`).
* The handlers' own arrays of 10 or 20 strings, and the values inside attributes
  (nested lists and `SwapAttributes` in `i18nIc.c`).
* Triggers, status and geometry callbacks, string conversion, extensions: never
  configured, sent or asked for by `xim.c` and its clients.
* The answers to `LOCALES` and `TRANSPORT`, which concern no state.
* `Xi18nXSend`'s choice between event and property, and `MakeNewAtom`: the reader is
  the client, outside this repository.
* `connect_id` beyond 65535 clients at a time.
* `IMConn.c`, `IMMethod.c`, `IMValues.c`: argument lists and a table of methods that
  never changes.

## Plan

What is left, in this order:

1. `Xi18nXSend` and the atoms of `MakeNewAtom`, with a reader.
2. `SetIC` and `GetIC`: attributes that are kept, and given back as they were set.
3. Two clients that answer late and a focus that moves ahead of pending
   keys; what is lost there, against what the comments say.
