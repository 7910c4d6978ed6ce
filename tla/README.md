# Specifications of sm2_psi

TLA+ models of the private set intersection demo in `src/`, the TLC runs that
check them and the TLAPS proofs about them. Paths below are relative to the
repository, whose sources are under `src/` (so `src/src/util/helpers.h` is
written `util/helpers.h`).

## The system

Two programs, a server and a client, each with a file of elements, agree over
one TCP connection on the elements they have in common; the client prints them.
Each party masks its elements as curve points times a secret scalar, sends them,
and multiplies what it receives by its own scalar. The server sends the doubly
masked points of the client back, in the client's order. The client compares
them with its own doubly masked list of the server's points. Both lists travel
with an SM2 signature under keys exchanged at the start.

| component | state | operations | interacts with |
|---|---|---|---|
| `mains/psi_demo.cpp` | elements, counts, `sockfd` | `psi_demonstrator`, `read_elements`, `read_psi_demo_options` | calls all others, ignores most results |
| `util/parse_options.cpp` | argv position, option table | `parse_options` | writes through pointers given by psi_demo |
| `util/connection.cpp`, `util/socket.h` | socket handles, byte counters | `listen`, `connect`, `Send`, `Receive` | kernel |
| `util/helpers.h` | buffers, sender thread, hash table | `exchange_information`, `snd_and_rcv` (two), `find_intersection`, `create_result_from_matches_var_bitlen` | called by psi_demo, dh-psi, crypto |
| `ecdh-psi/dh-psi.cpp` | `randC`, point buffers | `dh_psi` | crypto, helpers |
| `util/gmCrypto/crypto.cpp` | key pair, peer's key | `sign_verify_init`, `sign_and_verify` (two), `sm2_do_sign`, `sm2_do_verify`, `oaid_hashpoint`, `mul_randkey` | IPP library, helpers |
| `util/bigNum` | `IppsBigNumState` | arithmetic, conversions, random numbers | IPP library |
| `util/thread.h` | `m_bRunning`, mutex, condition | `CThread`, `CLock`, `CEvent` | not used by the program |

What is hard:

* **Threads.** In a duplex exchange the main thread is in `Receive` while a
  thread it started sends. The buffer belongs to both until the join. A thread
  that could not be created is noticed only after `Receive`.
* **Framing.** Messages have neither type nor length. The two programs cut the
  streams at the same places only because they make the same calls with
  crosswise equal sizes, and round 2 is one-way.
* **End of stream.** No caller of `Receive` looks at its result. A peer that
  ends leaves buffers with whatever they held: own key, round 1's data, freed
  memory. Only the signatures stand between that and a wrong answer.
* **Failure on one side.** Any crypto call may fail and end one program in the
  middle; the other must notice.
* **The hash table** of `find_intersection`, in which every key pointer is the
  address of the same local variable.
* **Repetitions** in the files, empty files, lists of different lengths.
* **The command line.** The loop over the words has an early return that looks
  like success, a turn that makes no progress, a look at a word that may not be
  there, and a store of four octets into one.
* **Sizes.** Results of big-number operators get the words their operands
  suggest; octets are copied by fixed lengths from buffers that may be shorter.
* **Error paths** of the signature functions: some forty calls, each of which may
  fail after others have allocated.

`PROJECT.json` lists these hazards line by line with the properties that are
about them.

## Modules

| module | models |
|---|---|
| `Connection` | `listen`, `connect` and the socket calls below them, as called by `psi_demonstrator` |
| `Exchange` | the rounds of `exchange_information` and `snd_and_rcv`, chunk by chunk through bounded kernel buffers |
| `RoundSync` | abstract: a party leaves a round it receives in after the peer entered it |
| `Matching` | what `find_intersection` computes, as set expressions |
| `FindIntersection` | the loops of `find_intersection` and `create_result_from_matches_var_bitlen` |
| `DhPsi` | both programs from `read_elements` to the end, with sender threads, byte streams and faults |
| `PsiIdeal` | abstract: what the exchange promises to the two parties |
| `DhPsiInv` | the inductive invariant of `DhPsi` |
| `Settings` | the variables of `psi_demonstrator` that the options set |
| `ParseOptions` | `parse_options` with the table of `read_psi_demo_options`, one turn of the loop per step |
| `ReadElements` | both passes of `read_elements`, one `getline` per step |
| `HashToPoint` | `oaid_hashpoint` in the loop of `dh_psi`, one try per step |
| `Startup` | the composition of these: the program from its command line to its points |
| `CThread`, `CEvent` | the classes of `util/thread.h` |
| `Sm2Calls` | calls, allocations and releases of the functions of `crypto.cpp` around the signature |
| `BigNumbers` | the class `BigNumber` and `IppBNStoIpp8u` |
| `DhPsi_proofs`, `DhPsiResults_proofs`, `FindIntersection_proofs`, `Connection_proofs`, `Exchange_proofs`, `Startup_proofs`, `Library_proofs`, `BigNumbers_proofs` | proofs |
| `MCConnection`, `MCExchange`, `MCFindIntersection`, `MCDhPsi`, `MCStartup`, `MCLibrary` | instances for TLC |

They are layered: `Connection` ends where the sockets are there. `Exchange`
starts there and shows that the rounds work with bounded buffers and partial
transfers (it implements `RoundSync`); `DhPsi` therefore takes a message at a
time. `FindIntersection` shows that the loops compute the operators of
`Matching`; `DhPsi` uses these operators as one step. `DhPsi` implements
`PsiIdeal`, and its `Framed` is what `Exchange` assumes of the sizes. `Startup` is what each program does by itself before it sends what it
computed: it yields the files and the injective hashing to points that `DhPsi`
starts from. `Sm2Calls` justifies that `DhPsi` lets any crypto call fail as one
step with an error, and `BigNumbers` says for which coordinates and signatures a
transfer is the identity, as `DhPsi` takes it.

### DhPsi

`step[p]` says at which exchange a party is, `phase[p]` whether it is about to
start it (`send`), in `Receive` (`recv`), in `pthread_join` (`join`) or at
`sm2_do_verify` (`verify`).

| step | code | server | client |
|---|---|---|---|
| `Read` | `read_elements` | | |
| `Info` | `exchange_information`, main thread sends | both ways | both ways |
| `Key` | `sign_verify_init` | both ways | both ways |
| `Pts` | `dh_psi`, first `snd_and_rcv` | both ways | both ways |
| `SigX`, `SigY`, `Uid` | `sign_and_verify` | both ways, verify | both ways, verify |
| `Pts2` | `dh_psi`, `snd_and_rcv` with the role | sends | receives |
| `SigX2`, `SigY2`, `Uid2` | `sign_and_verify` with the role | sends | receives, verify |
| `Find` | end of `dh_psi` | returns | `find_intersection` |

`sender[p]` is the thread of `snd_and_rcv`; `ThreadSend` reads the buffer at the
moment it runs. `stream[p]` holds what `p` has written as segments with offsets,
`written[p]` how much of it the peer can still read, `pos[p]` how much of the
peer's stream `p` has consumed. `Receive` takes as many octets as the code asks
for; if that is not exactly one segment, the content is `Junk`. `ReceiveEof` is
a `Receive` that returns before the buffer is full: the step goes on with a
value of `Unreceived`, what that buffer may hold in this program. The four
assertions and values of `exchange_information` are taken together.

One part of `Unreceived` is an assumption about the allocator. The key, the user
id and the points of round 2 may be stale in any way, but the buffers of the
two halves of a signature (`HalfLeft`) hold no half of a valid one:
`sign_and_verify` gets them from `new` (crypto.cpp:621, 678), and where the
memory is that of round 1's halves, freed in crypto.cpp:668, the links of the
free list have overwritten its first octets, as they do in glibc. With an
allocator that leaves freed memory as it was, a client could take round 1's
points and signature for those of round 2.

`result[i]` says how often the client copies and prints its element i. Every hit
of the partner's list puts the last own position with that tag into `matches`
once, and `create_result_from_matches_var_bitlen` copies the element for every
entry, so an element that the server's file repeats is printed as often
(`Copies` in `Matching`). `found` is the number of hits.

Faults are a constant: `read` (missing file), `crypto` (any call that reports an
error), `thread` (`pthread_create` fails), `crash`. Independently of it, a send
to a peer that is gone may raise SIGPIPE, and a process that ends with unread
input resets the connection, which loses what the peer has not read (`Reset`).

A signature is a record of key, user id, message and call; `Valid` says when
`sm2_do_verify` accepts. Scalars, points, hashing to a point and multiplication
are constants with the algebra the protocol needs (injective, commuting). The
tag, 32 bits of a point, is any function of the point: nothing assumes that it
tells points apart. That signatures cannot be produced otherwise and that the two parties draw different
keys (`KeyAssumption`; the seed of `rand32` is a heap address, which differs
between two processes with randomised address spaces) are assumptions.

### FindIntersection

One action per turn of each loop. A node of the table holds the hash it was
inserted under, the key pointer and the value. `Deref` evaluates a key pointer
while `tmpkey` holds the key looked up, so that `g_int64_equal` compares equal
values whenever the hashes are equal. Positions count from 1.

### Exchange

`Kind` is the script of the run: one inline round, duplex rounds, one-way
rounds. `size` is what each party passes as `snd_bytes`, `RcvBytes` what it
passes as `rcv_bytes`, from the numbers it holds. That these agree crosswise is
an assumption of the module (`Crosswise`); it is a property of `dh_psi`, and
`DhPsi` shows it (`Framed`). `CopyOut` is the kernel taking some chunks of a
`send(2)`, `CopyIn` one `recv(2)`. No end of the stream and no error happens
here; these are in `DhPsi`. The counters are incremented where the code increments them: before
the send, after the receive.

### Connection

One action per call of `listen`, one per try of `connect`. Descriptors of the
client are named by socket and try, and name the connection once it is
established. The kernel completes a connection before it is accepted. The
number of sockets is a constant; the program has one (`ntasks = 1`), so the
array of several is code of the functions, not of a run of the demo. What the
program does with a socket it did not get connected is not modelled here.

### Startup

`pc` is where the program is, or how it ended; `val` is what the pointers of the
option table lead to. The user's command line is a sequence of groups (`given`):
an option with or without a value, or an operand. `Grouped` says how words make
groups (an option that takes a value has the next word in its group, whatever that
looks like, and is alone only at the end; a number is in 32 bits); every command
line can be read in this way. The code sees the words one after
the other (`argv`) and knows nothing of groups. A word is a letter (the word `-x`), a number or
a text. `adjacent` says whether the compiler put `nelements` two octets behind
`col`, as it does in the shipped program; `Store` then overwrites the low half of
it. A pointer behind the last word (`NoValue`) and a column behind the last field
(`no field`, or `Garbage` as the element) are where the behaviour is undefined.
`hdr` counts modulo `HeaderCount`, and `OnCurve` is any relation.

Between `read_elements` and the hashing the program exchanges its element count
and its key; they touch nothing of `Startup` and are in `DhPsi`.

### CThread, CEvent

One action per access of the flag, which both threads write without a lock. The
owner may call anything in any order, except that it does not start a thread
while another of the same object runs. In `CEvent` what is done under the mutex
is one step, `pthread_cond_wait` gives it up, and may return without a signal.

### Sm2Calls

A function is a table of steps: a call whose status is looked at, an allocation,
a call of another function whose pointer is looked at or not. `Fail` lets any of
them fail; `Return` releases what the code releases on that return. The heap
holds each block with the depth of the function whose pointer leads to it.

### BigNumbers

A number is the integer it stands for; a result that has no room in the words the
code gives it is `Lost`. The octets of a number are as many as its words; what
lies behind them in memory is arbitrary. Of the class the program only
makes a `BigNumber` from an `IppsBigNumState` (the call of `mul_randkey`); nobody
calls the operators, and `NumbersExact` is about them as a library. `Carried` is
about `IppBNStoIpp8u`, which every message with a signature or a key passes
through. The IPP library may round the room of a number up to 64 bits; then
fewer results are `Lost` than here.

## Runs

| run | question | bounds |
|---|---|---|
| `dhpsi_clean` | do the two programs complete with the right lines and count, over all thread interleavings? | 7 files of up to 3 lines for each party, 2 scalars, tags that collide under one pair of scalars |
| `dhpsi_faults` | what holds when anything fails? | 3 files each (empty; 1,2; 3,1,1), tags that collide, all faults, an unfilled `pneles` 1 or the right value |
| `dhpsi_ideal` | is the ideal exchange implemented with its liveness? | 3 files each, all faults but `thread` |
| `findint` | do the loops compute `Matching`? | all pairs of lists up to length 3 over 4 digests, 2 of which collide |
| `exchange` | do rounds complete through small kernel buffers? | 6 rounds, messages of 0 to 4 chunks, 2 chunks in the kernel |
| `connection` | do the sockets get paired? | 3 sockets, 2 tries, a queue of 2 |
| `startup` | does the program get its settings, elements and points right, and does it get there? | command lines of up to 3 groups out of 15, and the required options with up to 3 numbers; files of up to 2 lines out of 5; 16 headers |
| `library` | what do the parts below the protocol promise to callers? | 3 starts of a thread; 3 waiters; every failing call; numbers from -15 to 15 in words of 2 bits, fields of 2 words |
| `thread_hang` | finding, below | |
| `zero_found` | finding, below | |
| `assert_repeats` | finding, below | |
| `hash_collision` | finding, below | |

*Why the bounds are enough.* Lines of a file matter to `DhPsi` through equality,
order and number only; the files include an empty one, repetitions on either
side, permutations, containment, partial overlap and different lengths.
`dhpsi_faults` has all faults and three files: an empty one and two that overlap
in part, in another order, with a repetition. A point is a residue modulo 7 and
its tag the residue of that modulo 3, so that with one pair of scalars two
elements collide and with the others they do not. Two scalars let the
parties have equal and different ones. With one scalar, an answer computed from
points that were masked once would be right by accident. The multiplication is
that of the residues modulo 7, where both scalars act as permutations without
fixed points. In `exchange` a message may be smaller than, equal to, larger than
the kernel buffer, and empty. For `connection`, a queue shorter than the number
of sockets makes refusals possible while the server listens.

For `startup`, three groups are enough to give an option twice with another
between, or to have an option of either kind in front of and behind the group
where the loop stops; values above one and two octets show the widths. Sixteen headers are a
power of two as in the program, so that an odd step reaches each of them and an
even one does not. The words of `library` are two bits wide, so that all pairs of
signs, of lengths in words and of positions next to the boundary of a word occur.

*Fairness.* Weak fairness of each thread: the operating system runs what can
run. No fairness for faults, signals, resets and failing calls. In `DhPsi` each
local step that may fail may also succeed, so fairness never forces a failure.
`Startup` is one sequential program: weak fairness of its next step says that it
runs. `library` checks safety only.

*Deadlock* is checked except where the programs may really stop: `dhpsi_faults`
and `thread_hang` (both thread creations fail, see below), `exchange` (the
module ends with the last round) and `connection` (the server waits in accept
for a client that has run out of tries).

### What the runs show

`dhpsi_clean`: the streams are cut at the same places (`Framed`), buffers are
stable while a sender thread may read them (`BufferStable`), an element that
shares its tag with no other is printed as often as the server's file holds it,
at its last place in the own file (`ExactResult`), the count is at least that of
the server's lines that are in the client's file, and is that number when no
tags collide (`CountExact`), and both programs complete if no two lines of the
server's file have the same tag (`Succeeds`).

`dhpsi_faults`: whatever fails, points that passed verification are those the
peer masked (`Authentic`), `ExactResult` holds of every client that completes, a
party that completes has read all it was sent, so that its
exit cannot take data from the peer (`DoneQuiet`), the programs implement
`PsiIdeal` (`Implements`), and both end, except when both thread creations fail
(`EndsOrHangs`). `IInv` is the inductive invariant of the proofs.

In `PsiIdeal` the client learns the intersection up to `alike`, a relation fixed
at the start; `DhPsi` implements it with the relation of sharing a tag.

`dhpsi_ideal` adds liveness to the refinement: each party completes or fails.

`findint`: `TableExact` (one node per tag, with its last position),
`MatchesExact` (each own position is in `matches` as often as `Copies` says),
`AbortExact`, `ResultInOrder` (ascending positions, each once if the partner's
tags are distinct).

`exchange`: `Delivered`, `CountersAgree`, `Completes`, a `Receive` that never
writes behind its buffer (`TypeOK`), and the refinement of `RoundSync`: a party leaves a round only after the peer entered it, so that a
duplex round is a barrier as long as no message is empty.

`connection`: `Paired` (the i-th sockets are two ends of one connection),
`ListenerKept`, `NoneLeft`, `ClientReturns`, `Connects`.

`startup`: the loop over argv ends in the way the groups of the command line say
(`OptionsOutcome`), each setting is the last value given, in any order of options
(`LastValueWins`), element k is the field of line k (`ReadExact`), its point is
that of the first header on the curve and so depends on the element alone
(`PointsExact`), and the program gets to the exchange or ends (`StartupEnds`).
The properties state the exceptions they found, so that they describe the code
as it is: an operand ends the options as a success although required ones are
missing, and the role then has no value; `-c` behind `-n` spoils the count where
the variables are adjacent; the last word as an option without its value follows
a null pointer; an unknown option keeps the program in the loop for ever, and so
does an element that no header puts on the curve.

`library`: the flag of `CThread` is up while `ThreadMain` runs, but stays up for
ever if the thread ended within `Start`, and only then may a second `Wait` join
twice (`WaitSound`). `CEvent` loses no wake-up if it resets itself; a manual event
may stay set over sleepers (`EventWakes`). The signature functions release what
they allocated on every return, except the blocks named in `Released`, and report
every failure, except that `sign_verify_init` may return 0 although it had no
memory for a coordinate. The operators of `BigNumber` are exact except for the
difference of numbers of different signs whose magnitudes carry into a new word
(`NumbersExact`). A coordinate or half a signature arrives as it was if its top
word is not zero, and only then, zero aside (`Carried`).

### Disagreements

* `thread_hang`: `snd_and_rcv` asserts that the thread was created, after
  `Receive` (helpers.h:89, 90). When both creations fail, both parties wait in
  `Receive` and neither gets to the assertion.
* `zero_found`: `dh_psi` returns 0 for an error; psi_demo.cpp:70 then prints
  "Found 0 intersecting elements" of sets that intersect.
* `assert_repeats`: helpers.h:144 asserts that the hits do not outnumber the
  shorter list. They do when the server's file repeats an element that the
  shorter list of the client contains. `AbortExact` says that this is the only
  way: without repeated tags the assertion holds. Where the shorter list is long
  enough nothing ends the program and the element is counted and printed once
  per repetition: with the server's file 1,1 and the client's 1,2 psi_demo.cpp:70
  speaks of 2 intersecting elements. `ExactResult` and `CountExact` say so.
* `hash_collision`: since keys are compared through one shared pointer, two
  points with the same 32-bit hash are the same element to the table, and an
  element can be printed that no partner has. At 32 bits this is to be expected
  in files of 100,000 lines, as the repository's samples are. So no property of `DhPsi` assumes distinct tags
  of all points: each says what it promises of the elements that collide.

## Proofs

Everything below is proved for all values of the constants that satisfy the
named assumptions of the modules.

`DhPsi_proofs`: `Inductive`, the invariant `IInv`, and from it `TypeCorrect`.
The properties of `DhPsi` are not inductive because a party that met the end of
the stream goes on. `IInv` therefore distinguishes two situations of each
running party. In the first (`Good`), it has received the first n messages of
its peer's program as they were meant, and has read up to the offset the
programs imply. In the second (`Bad`), its peer has ended, it has read all there
was, and from the first unfilled `Receive` on every half of a signature is
`Junk`; everything before is as meant. `Valid` refuses in the second situation,
so a party passes verification only in the first. `StreamInv` says what is in the
streams (each segment is a message of the program at its place, also after a
reset has cut the stream), `ControlInv` which phases and thread states go
together, `BufferInv` what the computed buffers hold. The proof has one step per
action, and one lemma per group of actions.

`DhPsiResults_proofs`, from `IInv`:

* `AlwaysAuthentic`, `AlwaysDoneQuiet`, `AlwaysStable`;
* `AlwaysFramed`, with `Boundaries` on top: streams end and are read between two
  messages;
* `AlwaysExact`: the tags compared are the `FinalTag`s of the elements of the
  two files (`TagFacts`), and those of an element that is `Alone` agree exactly
  where the elements do (`AnswerExact`). Nothing is assumed of `Tag`;
* `AlwaysCountExact`: the number printed is that of the hits, which include the
  positions whose elements are in the own file and are these if every element
  is `Alone` (`CountOfHits`);
* `Refinement` maps every step to a step of `PsiIdeal` or to a stutter, with
  `Released` on top: a client that holds a signature of round 2 got it from a
  server in round 2. What the client learns is the intersection up to `Alike`
  (`AnswerAlike`).

`FindIntersection_proofs`: `LoopsInductive` and from it `LoopTypes`,
`TableCorrect`, `MatchesCorrect`, `AbortCorrect`, `OrderCorrect`.

`Connection_proofs`: `ConnectionInductive`, the invariant `CInv`, and from it
`ConnectionTypes`, `SocketsPaired`, `ListenerStays`, `NoDescriptorLost`. `Paired`
speaks of accepted connections only, so `CInv` numbers the connections the
kernel has established, accepted or queued (`Nth`): as long as no try failed, the
n-th of them is that of the n-th socket and none is missing (`OrderInv`). Accept
moves one from the queue to `sockfds` and changes no number.

`Exchange_proofs`: `ExchangeTypeOK`, `AlwaysDelivered`, `AlwaysCountersAgree` and
`ExchangeImplements`, for any script of rounds, any sizes that agree crosswise
(`Crosswise`, which `AsksForAll` brings to a round) and any `Cap` (that inline messages fit the kernel's buffer, `InlineFits`, matters for `Completes`
only). `Delivered` speaks of one receive buffer and is not inductive: what a
`Receive` gets depends on everything still on its way. `XInv` therefore
describes, for each direction, the line of chunks in the kernel and in the
current `send(2)` (`Line`): all are of rounds that the sender has begun and the
receiver has not left, in order and without gaps, the first one goes on where
the receive buffer ends, and no round begun is missing. The lemmas `LineTake`,
`LineNextRound`, `LineBegin` and `LineBeginSilent` are what a `recv(2)`, the end
of a round and the two ways to begin one do to a line; copying chunks into the
kernel does nothing to it (`Move`). `Counted` balances the counters with what is
on the line. `ExchangeImplements` needs one thing of it, `GoesOn`: who holds
chunks of a round has a peer that began it.

`Startup_proofs`: `StartupTypes`, `AlwaysOptionsOutcome`, `AlwaysLastValueWins`,
`AlwaysReadExact` and `AlwaysPointsExact`, for all command lines that are made of
groups (`Grouped`), all files, any `OnCurve` and any number of headers.

* *Options.* `OptionsOutcome` and `LastValueWins` compare groups with a loop that
  sees words only. The invariant `OptInv` says that between two turns the words
  left are those of the groups behind the first `result` ones, that none of these
  groups ends the loop, and that every setting is what `LastValueWins` says of
  the groups up to `result` (`LastTo`). That a turn takes exactly one group is
  `NextGroup`. It needs what `FlattenSeq` does with one group more
  (`FlattenSteps`, `FlattenRests`), which the proofs take from the steps of its
  recursive function, with the set of the lengths for which a fact holds in place
  of an induction predicate (`Climb`).
* *File.* `ReadInv` says that while the file is read the stream is past as many
  lines as there are elements.
* *Points.* `HashInv` says that the header at hand is the k-th of the order for
  some k, and that none before it is on the curve. That a hit is one of the first
  `HeaderCount` tries follows because the order repeats after that many
  (`HeaderPeriod`, from the lemmas on remainders).

`Library_proofs`: `WaitAlwaysSound` and `EventAlwaysWakes`, for any number of
starts and of waiters; `ThreadInv` adds to `WaitSound` that only the thread created
last can be at work, and what `Start` has and has not done in between.
`AlwaysReleased`, for every way through the signature functions; `Sm2Calls` has no
constants, so that `library` shows as much, and the proof says why it holds. Of
the tables it uses what `StepsOf` says of every step (whom a function calls, what
it leaves unchecked, what it allocates) and how a function and its releases fit
together (`Leaves`). `CallInv` says that the functions on the stack are a chain of
calls (`StackInv`), that each block belongs to one of them or may be left
(`HeapInv`), and that a failure nobody looked at has left a null pointer, with
which `sm2_do_verify` does not get past its last step (`NullInv`).

`BigNumbers_proofs`: `AlwaysNumbersExact` and `AlwaysCarried`, for octets, words
and fields of any positive width and all numbers (`Lost` is no integer).

* The laws of powers of two come from the number of subsets of a finite set
  (`PowNext`, `PowAdd`, `PowGrows`); from them what `BitLen` and `WordsOf` bound
  (`BitLenFacts`, `WordsLeast`).
* A sum and a product then have room in the words they get (`PlusExact`,
  `TimesExact`), a difference unless its magnitudes carry into a new word
  (`CarryFacts`, `MinusExact`). The other operators compose these.
* `MSB` and `LSB` look for a bit of a word; `HighestBit` and `BitOfWord` say where
  it is in the number.
* `FromOctets` reads one octet per step. `ReadFirst` and `ReadMore` say what is
  read after the octets of the number, and after what lies behind them: more only
  if the top word was zero.
* `NumInv` keeps the operands together with the answer of the operation applied
  last; each operator's lemma gives it for one step.

Model-checked only: every liveness property and `ImplementsFair` (liveness and
ENABLED are out of the prover's reach).

## Not modelled

* the arithmetic of the IPP library, GLib's table beyond lookup and replacing,
  what the linker and the kernel do;
* widths of sizes: `neles * 64` is a natural number here. From 2^25 elements on it
  is a negative `int` in `Receive`, which then returns at once; a run with lists
  of that length is out of TLC's reach, and an unfilled buffer is in `DhPsi`;
* `EAGAIN` in `Receive`, which needs the receive time limit of 100000 s, and a
  `send(2)` that is interrupted (the program installs no handler);
* of `BigNumber`: the string constructor, the hexadecimal output, the contexts
  for primes and discrete logarithms, all unused by the program; with them
  `strlen_safe` and `common.h`;
* of `typedefs.h`: security levels, logarithms and timing, unused or without
  state; `GFpECinit` and `mul_randkey`, which have no control;
* Windows branches; the Python loader, the generator, the build.

## Plan

Done, in this order: `Matching`, `DhPsi`, `DhPsiInv` with its proofs,
`PsiIdeal`, `FindIntersection` with its proofs, `Exchange` and `RoundSync` with
the proofs, `Connection` with its proofs; `Settings`, `ParseOptions`, `ReadElements`,
`HashToPoint` and `Startup` with its proofs; `CThread` and `CEvent` with theirs;
`Sm2Calls`; `BigNumbers` with its proofs; the command line, `CountExact` and
`Released` with theirs.

Every safety property a run checks is stated by a theorem. What is left is
liveness, which stays with TLC, and what "Not modelled" lists.
