# A TLA+ verification of the AIP reference implementation

The Agent Interaction Protocol lets two agents negotiate a contract, execute an
action under it, keep signed evidence of the execution and settle the payment.
This directory models the Go packages that implement those steps, checks the
models with TLC and proves theorems about them with TLAPS.

## The system

| component | state | operations | talks to |
|---|---|---|---|
| negotiation engine, `pkg/negotiation` | a map of sessions, each with a state, a list of offers, a deadline and a binding; the operator's key | `NewSession`, `GetSession`, `SubmitOffer`, `AcceptOffer`, `DeclineOffer`, `SignBindingOnAccept`, `IsExpired`, `SignOffer`, `SignOfferWith`, `VerifyOffer`, `SetConsumerKey` | makes a `contract.Binding`; signs with `internal/crypto` |
| contracts, `pkg/contract` | a binding with a signature of each party | `CanonicalBytes`, `SignBinding`, `VerifyBindingSignature` | signed by the engine, by `aip sign-contract` and by the demo |
| execution engine, `pkg/execution` | an HTTP client; calls in progress | `Execute` | the provider's endpoint, over HTTP |
| evidence, `pkg/evidence` | receipts, a store by receipt ID | `NewReceipt`, `Sign`, `Verify`, `Store`, `Get` | made from the result of `Execute`; pushed to WitnessOS by `aip execute` |
| settlement, `pkg/settlement` | transactions and settlement receipts | `RecordTransaction`, `Settle` | called with the fields of a binding |
| action schemas, `pkg/action` | none | `ParseSchema` | read by `Execute` |
| keys, `internal/crypto` | key pairs | `GenerateKeyPair`, `Sign`, `Verify` | everything that signs |
| command line, `cmd/aip` | none of its own: what a process prints, users keep in files | `keygen`, `negotiate`, `sign-contract`, `execute`, `settle`, `verify`, `demo` | all packages |
| MCP server, `mcp-server` | temporary files | a tool per command | runs `aip` in a subprocess, returns what it finds in its output by counting braces |

Only the negotiation engine has locks (`Engine.mu` and one `Session.mu` per
session). The execution engine may be shared by goroutines, for it has only an
`http.Client`. The store and the ledger are meant for one goroutine.

What is hard, and what makes each part correct:

* **Negotiation.** Two parties call in any order, on any session, while deadlines
  pass. The turns must be kept; the contract must be made of the offer that
  stood last, all of it; nothing may happen to a session that is closed or past
  its deadline; sessions must not shadow each other in the map.
* **Locks.** Every handler reads a session, decides, and writes. No other call may
  come in between; no handler may take a lock it holds; every call must return.
* **Signatures.** Documents are copied and signed in any order. What verifies must
  have been signed as it stands, and one signature must not spoil the other.
* **Execution.** The provider may act and not be heard, answer too late, refuse in
  JSON, or never answer. A success must be one, and `Execute` must return.
* **Evidence and settlement.** A receipt must belong to the call it is about, and
  verify however often it is signed; the ledger's two lists must agree.
* **Command line.** Each process has an engine, a ledger and keys of its own; what
  the next one knows is what was printed. It may be killed while it waits for the
  provider or for WitnessOS. What was pushed must be what is printed; a contract is
  edited, signed again and paid without a look at its signatures, and only what
  they are over can tie a payment to what a party agreed to.
* **MCP server.** A tool goes by aip's exit status and by the text it prints, gives
  it 30 seconds and kills it. Its answer must be a whole object of what aip said, or
  all of it, whatever braces the strings have; a valid receipt must be one, its files must go, and it must return, for nothing else runs
  meanwhile.

`PROJECT.json` lists these hazards line by line.

## The modules

| module | models | extends |
|---|---|---|
| `SessionStates` | the session states and the transition table | |
| `Agreement` | abstract: what a negotiation promises | |
| `Negotiation` | the engine, one handler per action | `SessionStates` |
| `NegotiationProofs` | theorems about `Negotiation` | `Negotiation`, `TLAPS` |
| `NegotiationLocks` | the same engine, in goroutines and lock by lock | `Negotiation` |
| `LocksProofs` | theorems about `NegotiationLocks` | `NegotiationLocks`, `NegotiationProofs`; an instance of the latter |
| `Signatures` | signatures on bindings and offers | |
| `SignatureProofs` | theorems about `Signatures` | `Signatures`, `TLAPS` |
| `Execution` | `Engine.Execute` and an external provider | |
| `Receipts` | what a receipt says and its signature | |
| `Evidence` | receipts and their store | `Execution`, `Receipts` |
| `Settlement` | the ledger | |
| `Outcomes` | abstract: what the execution of actions promises | |
| `Delivery` | execution, evidence and settlement together | `Evidence`, `Settlement` |
| `ExecutionProofs` | lemmas about calls of `Execute`, whoever makes them | `Execution`, `TLAPS` |
| `DeliveryProofs` | theorems about execution and evidence | `Delivery`, `ExecutionProofs` |
| `LedgerProofs` | a theorem about the ledger as `Delivery` uses it | `DeliveryProofs`, `SequenceTheorems` |
| `CommandLine` | the commands of `aip`, a process each | `Execution`, `Receipts`; an instance of `Settlement` |
| `JsonText` | texts, and the search for an object in one (`_last_json`) | |
| `McpServer` | the tools that run them | `CommandLine`, `JsonText` |
| `CommandProofs` | theorems about commands and tools | `McpServer`, `ExecutionProofs` |
| `LastJsonProofs` | theorems about what tools hand back | `CommandProofs`, `SequenceTheorems`, `FiniteSetTheorems`, `WellFoundedInduction` |
| `MCNegotiation`, `MCNegotiationLocks`, `MCMcpServer` | small instances for TLC | |

In every module a definition named `D_Bug` is a plausible mistake in `D`. The
specifications do not use it: it is there to show that the properties notice.

### Negotiation

`heap` holds the sessions that exist (a Go pointer is a `Ref`), `sessions` is the
engine's map from ID to pointer, `now` the clock. `closedBy`, a history variable,
notes whose call closed a session: no guard reads it. A handler finds its session
through the map, calls `checkExpired` first, so that a call past the deadline
has one effect, to expire the session (`Expire`), then looks at whose turn it is
and applies the table. Handlers that return an error without having written
anything are steps that change nothing and are not listed. The session ID is the
two names joined by an underscore and the clock: `Joined` gives the joined name,
so that the names `a_a`, `b` and `a`, `a_b` can collide as they do in the code.
`NewSession` reads the clock three times, for the ID, for `CreatedAt` and for
`ExpiresAt`: the ID has the first reading, the deadline the last, which may be a
later one (`CreatedAt` is read by nothing). When two sessions share an ID the map
keeps the later one, and `SessionsReachable` says that this is all that can come
between a session and its ID.
Parameters that do not parse leave a binding without terms, as in the code.

`Agreement` knows three variables: the status of a talk, the proposal on the
table and the deal. A deal is made of the proposal on the table, once, and a
closed talk stays closed. `Negotiation` implements it under the mapping
`StatusBar`, `ProposalBar`, `DealBar`.

### NegotiationLocks

Each goroutine has a program counter, the call it makes, the session it looked
up and the decision it is about to write. The steps are those of the code: lock
the engine, look up, lock the session, check the deadline, decide, write, unlock
in reverse order. `SignBindingOnAccept` unlocks the engine before it locks the
session. The mutexes (external) are those of `sync.RWMutex`: a writer that waits
keeps new readers out. The clock may move between any two steps, so a call that
was in time when it looked may write after the deadline. The module shows that
this changes nothing: mapped to the point at which its decision is taken, every
call is one atomic step of `Negotiation`.

### Signatures

A signature is the pair of the key and of the text it was made over, which is all
that Ed25519 promises. A document is sent, edited and signed in any order. The
text of an offer that is signed is the whole offer, including a signature it may
carry; the text that is verified has none.

### Execution, Evidence, Settlement, Delivery

A call of `Execute` waits for the exchange `wire[c]` with the provider, which is
external: it may refuse, which it does with a status of 400 or more (a provider
that refuses with 200 and an `error` field, `action.Response.Error`, which the code
never reads, is outside of the model; `EvidenceOfSuccess` and `ImplementsOutcomes`
rest on this), perform the action and then answer anything, or stay silent.
`TimeOut` may fire at any time, and the provider may still perform the action after it. Receipts are made of any result,
successful or not, as `aip execute` and the demo do. The store keeps pointers, so
that a receipt signed again changes in the store as well. A transaction is
recorded for a call that has a receipt, and settled, perhaps more than once. Two
calls of one action at one instant share a receipt's ID, two transactions of one
contract at one instant that of a transaction: the store then keeps the later
receipt, and `Settle` only ever finds the first transaction (`IsFirst`).
`Delivery` has the order of the demo (steps 4 to 6) for calls that overlap.

`Outcomes` says what all this is for. A call is refused before it has any effect,
or asked for; what is asked for has its effect at most once, at any time, a failure
included; it is settled once, as a success only after its effect; its receipt says
what it was settled as, and does not change. Both ways the repository executes
actions implement it: `Delivery`, where the receipt is in memory and may be signed
again, and the commands, where the receipt is what a process has pushed or printed,
and the process may be killed before, between and after. The mapping is
`StandingBar` (the call as its caller sees it), `performed` and `EvidenceBar`.

### CommandLine, McpServer

A member of `Calls` is now a process. A command that does not wait is one step
from `NotStarted` to `Exited(status, doc)`; `execute` and `demo` make a call of
`Execution`, whose answer or timeout they take (`CallReturns`) as long as they
run. There is no variable for files: the commands choose theirs from `BindingFiles` and
`ReceiptFiles`. A binding is read from what the users had to begin with, what a
process has printed, or an edit of it, in which any one field, a signature
included, is replaced by that of another document; a process that signs the edit
prints a document that may be edited again. Reading is what `json.Unmarshal`
does: a receipt read as a binding keeps the fields of the same name, any other
object leaves a blank one. A signature is over `CanonicalBytes`, the contract
without its signatures. `SignContract` and `SettleContract` verify nothing, as in
the code, so that `SettlesWhatWasSigned` is about the contract that was paid: if a
signature on it still verifies, the holder of that key has signed this ID, these
parties and this amount. Arguments that are missing or malformed are one
action, `Complain`, for all commands; of the demo, its steps from `Execute` on.
`sent` and `witnessed` are the receipts on their way to WitnessOS and in it.
WitnessOS is external, and may ingest a receipt after its sender was killed.

A tool call starts a process and is `running` until it returns; its result
follows from how the process ended (`ToolResult`). The processes that no tool
started are those of users in a shell.

`last_json` works on a text as `_last_json` does. A text is a sequence of tokens:
braces of objects, quoted characters of strings, ends of strings, and members
without a brace. `Spelling` gives the characters of the words that have a brace,
all that matters of a string; any action, name, currency or nonce may be such a
word. The search takes a quoted brace for one of the document. What it finds is
returned if it parses (`Parses`): if it begins and ends with braces of the document,
or is a string's `{}`; all other text that begins or ends in a string is no JSON,
and the whole output comes back as `raw_output`. What the model shows and no
property forbids:

* `aip_execute` returns the receipt without the result (`README.md:142`: "result +
  evidence receipt returned"), `aip_sign_contract` for a contract with a price the
  price, or its SLA, or the SLA's rate limit: the last brace that opens is the
  innermost one (`aip_mcp_server.py:72`). `aip_settle`, given that, settles a
  contract without a name for 100 AUD.
* `aip settle` pays 7 AUD for a price of 7 USD (`main.go:472`), although
  `template.go:63` says of the currency 'e.g. "USD", "AUD", "USDC"'.
* A schema whose call has an input that does not parse stays behind
  (`aip_mcp_server.py:184`).
* `witnessos_url`, "Optional WitnessOS URL to push evidence receipt"
  (`aip_mcp_server.py:380`), never has that effect: `--witnessos` comes after the
  schema, where Go's flag package does not look (`tool_execute`).
* `aip_accept`, `aip_decline` and `aip_negotiate` with a session always fail
  (`ContinueSession`).

## What TLC checks

| run | instance | shows |
|---|---|---|
| `sessions` | 2 sessions, 2 parties in either role, up to 4 offers a session, clock 0 to 2 | turns, final states, deadlines, an ID leads to its session or to one of the same instant and names that join alike |
| `terms` | 1 session, 2 actions, 3 parameters of which one does not parse, 2 nonces, up to 3 offers | the binding is the last offer; `Negotiation` implements `Agreement` |
| `consent` | as `terms` | **violated**: the consumer accepts its own counter-offer |
| `offered_action` | as `terms` | **violated**: the contract is for another action than the accepted offer |
| `locks` | 2 goroutines, 1 session, 2 offers, clock 0 to 1 | atomicity, no stale decision, no goroutines that wait for each other, every call returns |
| `signatures` | 2 holders, 2 keys, 2 terms | what verifies was signed as it stands |
| `operator_key` | as `signatures` | **violated**: `SetConsumerKey` replaces the operator's key |
| `delivery` | 2 calls of one action, 2 answers, 2 keys, 2 amounts, 2 settlements, clock 0 to 1 | types (no output that is not JSON), evidence, receipts, ledger; `Delivery` implements `Outcomes`; `Execute` returns |
| `retry` | as `delivery` | **violated**: told to retry an action that was performed and is not idempotent |
| `missing_receipt` | as `delivery` | **violated**: an action performed without a receipt |
| `tools` | 2 processes, from tools or a shell, a signed contract with a price, an SLA and braces in three strings, all edits of it, 1 action, clock 0 to 1 | what is pushed, paid, verified and handed back; files go; the commands implement `Outcomes`; every tool returns |
| `known_keys` | as `tools` | **violated**: no known key verifies the receipt of `aip execute` |

The bounds. Four offers are a first offer, a counter-offer and two counters back,
after which the turns repeat; two sessions are enough to shadow one another or
to be mixed up, and a time to live of 0 or 1 with a clock up to 2 puts every call
before, at and after the deadline. Two goroutines are enough for every pair of
handlers to meet on a session, in both lock modes; the session they meet on may be
open, past its deadline or closed. An instance with two sessions and one offer,
too long for a regular run, was checked once for the safety properties. Two
calls suffice for two receipts or two transactions to share an ID. Two
processes suffice for one to read what the other printed (sign and settle,
execute and verify, keygen and sign) and for a tool to run beside a shell. One
contract is enough to be edited, for a blank one and what was printed of it are
there to take fields from: two edits, one by each process, take away the braces
behind a quoted one in every combination that leads the search elsewhere. `Elapse` and
`Tick` stop at `MaxTime`, so that the systems without fairness properties may
stop there: deadlock is checked in `locks`, where goroutines always have another
call to make, and switched off elsewhere, where all offers may have been made and
all calls have returned.

**Fairness.** `locks` assumes weak fairness of a running goroutine (the Go
scheduler is preemptive) and strong fairness of the steps that wait for a lock
(`sync.RWMutex` lets a waiting writer in once the readers before it have left,
and the readers that waited before the next writer). `delivery` assumes only
that the HTTP client's timeout fires; every engine in the repository is made
with 30 seconds. `tools` assumes that a tool notices that its process has exited
and that `subprocess.run` keeps its timeout; it does not assume that aip goes
on. Nothing is assumed of the provider, of WitnessOS, nor of the parties.

### Disagreements with the documentation

The six runs marked violated each check one sentence of the repository.

1. `README.md:131`: a contract is executed "when both accept identical terms".
   After offer, counter and counter back, the session is `countered`, and in that
   state it is the consumer who accepts: its own offer.
2. `negotiation.go:277`: "Use the most recent offer's terms". The action of an
   offer is compared with nothing and the binding takes the session's.
3. `negotiation.go:134`: `SetConsumerKey` "sets the consumer key pair"; it sets
   the provider's.
4. `schema.go:43`: `Idempotent` says that an action "can be safely retried". A
   failed call says `Retry: true` whatever the schema says.
5. `DESIGN.md:55`: "Every executed action produces an Ed25519-signed evidence
   receipt". One whose answer does not parse produces an error.
6. `README.md:430`: "Every execution produces a verifiable receipt". `aip execute`
   signs with a key pair it generates for the occasion and shows to nobody.

## What is proved

Theorems hold for any values of the constants (any number of agents, sessions,
calls, holders, keys, any bounds) that satisfy the assumptions of the modules.

| module | theorem | statement |
|---|---|---|
| `NegotiationProofs` | `TypeCorrect` | `Spec => []TypeOK` |
| | `TurnsCorrect` | `Spec => []OffersFollowTurns` |
| | `BindingCorrect` | `Spec => []BindingIsTheLastOffer` |
| | `BilateralCorrect` | `Spec => []ShortNegotiationsAreBilateral` |
| | `ReachableCorrect` | `Spec => []SessionsReachable` |
| | `ClosedCorrect` | `Spec => ClosedIsFinal` |
| | `DeadlineCorrect` | `Spec => DeadlineHonoured` |
| | `Refinement` | `Spec => ImplementsAgreement` |
| `LocksProofs` | `ExclusionCorrect` | `LockSpec => []NoIntruders` |
| | `FreshCorrect` | `LockSpec => []DecisionsAreFresh` |
| | `NoDeadlock` | `LockSpec => []NoCircularWait` |
| | `LocksRefinement` | `LockSpec => ImplementsNegotiation` |
| | `LocksAgreement` | `LockSpec => ImplementsAgreement` |
| | `LocksTypes` | `LockSpec => []TypeOK` |
| | `LocksTurns` | `LockSpec => []OffersFollowTurns` |
| | `LocksBinding` | `LockSpec => []BindingIsTheLastOffer` |
| | `LocksBilateral` | `LockSpec => []ShortNegotiationsAreBilateral` |
| | `LocksReachable` | `LockSpec => []SessionsReachable` |
| | `LocksClosed` | `LockSpec => ClosedIsFinal` |
| `SignatureProofs` | `VerifiedCorrect` | `Spec => []VerifiedMeansSigned` |
| | `CeremonyCorrect` | `Spec => CeremonyKeepsSignatures` |
| | `FirstSignatureCorrect` | `Spec => FirstSignatureVerifies` |
| `DeliveryProofs` | `TypeCorrect` | `Spec => []TypeOK` |
| | `EvidenceCorrect` | `Spec => []EvidenceOfSuccess` |
| | `ReceiptsCorrect` | `Spec => []ReceiptsVerify` |
| | `StoreCorrect` | `Spec => []ReceiptsReachable` |
| | `DeliveryRefinement` | `Spec => ImplementsOutcomes` |
| `LedgerProofs` | `LedgerCorrect` | `Spec => []LedgerAgrees` |
| `CommandProofs` | `ToolsAreCommands` | `Spec => CommandLineInit /\ [][CommandNext]_commandVars` |
| | `WitnessCorrect` | `Spec => []WitnessHoldsWhatWasPrinted` |
| | `SettlesCorrect` | `Spec => []SettlesWhatWasSigned` |
| | `VerdictsCorrect` | `Spec => []ToolVerifiesForReal` |
| | `FilesCorrect` | `Spec => []FilesAreRemoved` |
| | `CommandRefinement` | `Spec => ImplementsOutcomes` |
| `LastJsonProofs` | `ResultsCorrect` | `Spec => []ResultsAreWhole` |

**Assumptions.** `NegotiationAssumption`: the constants have the types their
comments say. `LocksAssumption`: a free lock is held by no goroutine. `NilAssumption`, `ExecutionAssumption`, `EvidenceAssumption` and
`SignaturesAssumption`: the values that stand for nil, for an empty signature and
for an empty body are no values of the types they are missing from. The code needs
no such assumption, for its nil is typed. `CommandLineAssumption`: the contracts
users begin with are records with the fields of a binding, the signatures on them
were made of them as they stand, and no key is no key; they may share IDs.
`SpellingAssumption`: words are spelled with characters.

**Negotiation.** The inductive invariant `IInv` is `TypeOK /\ OffersFollowTurns`.
`TypeOK` alone is not inductive: `AcceptOffer` reads the last element of the list
of offers, and nothing in the types says that the list is not empty. It is the
turns that say so: an offered session has one offer, a countered one at least two,
and an initiated one none. With `IInv` each of the remaining invariants is
inductive. The argument is laid out once: `StepCases` says that a step leaves
every session alone but one, which it opens, expires, offers to, accepts, declines
or signs; a lemma per effect says what that does to a session, and each theorem
then looks at one session before and after. The refinement maps every effect to an
action of `Agreement` or to a stutter. Its lemma, `SessionStep`, asks of an effect
only how the state, the offers and the binding go on (`Moves`), and nothing of the
clock or of who called, so that it serves the engine with locks as well.

**Locks.** `Full`, the inductive invariant of `LocksProofs`, has three parts. `Locking`
says what each program counter implies (`Control`) and, of each lock, who waits to
write, who writes and who reads (`Holds`): one lemma per operation on a mutex, one
writer at a time and then no reader, and so `NoIntruders`. `DecisionsAreFresh` is
preserved because whoever is about to write a session is alone in it, and the
session's ID still leads to it. `BarOK` is `IInv` of `Negotiation`, for the engine
as it would be if decisions were written when they are taken: the instance `Bar` of
`NegotiationProofs` brings its lemmas along, which give the sessions their types.
A step that checks a deadline or takes a decision is then a call of `Negotiation`;
the step that writes it, as every step on a lock, is a stutter, whatever the clock
has done in between.

What is proved of the engine with atomic calls holds of `HeapBar`, the sessions as
they have been decided (`Decided`). A goroutine, however, finds
the sessions as they have been written, and the remaining theorems are about those. `WrittenLast` says that a session a step
writes is one that nobody is about to write any more, and so the decided one; the
others stay as they were (`WrittenStep`), and the invariants hold of the sessions as
they are written, between a decision and its write too. From them follow
`LocksTypes` and, since a decision that is written late still `Moves` the session
it was taken for, `LocksAgreement` (`CommitMoves`, `ExpiryMoves`): what `Agreement`
promises is kept by the sessions in memory, not only by those the
decisions add up to. `LocksClosed` needs no
refinement: whoever is about to write a closed session decided so when it was closed
already, and then there is nothing to decide but signatures. `DeadlineHonoured` alone
does not carry over, for a decision that was in time may be written when the
deadline has passed.

`NoCircularWait` says that of any set of goroutines one waits for none of the set,
and that nobody waits for a goroutine that has returned. The proof gives each
program counter a number, `Behind`, of locks still to come: for the engine 4, or 3
once its writers' queue is joined, for the session 2, or 1, and 0 when running.
By `Locking`, whoever holds or queues for what a goroutine wants is less far behind
(`WaitsForNext`), so no circle closes, however many goroutines are in it
(`NoCircle`). This is the order of the locks, engine before session, as a theorem;
a handler that returns with a lock held breaks the other half of it. That a
goroutine then also gets its turn is liveness, and TLC's.

**Signatures.** `VerifiedMeansSigned` speaks of a document as it stands, and an
edit can take back an earlier one: a signature that does not verify now may verify
again later. The inductive invariant says of every signature on every copy, whether
it verifies or not, that the key was used on the text that the signature is over.

**Evidence.** What a receipt attests follows from the result of the call, and that
from the exchange with the provider. The inductive invariant of `DeliveryProofs`
has a part for each link: an exchange that was performed or answered well is one
of an action that was performed (`ExchangesAreHonest`), the output of a result is
that of the answer (`ResultsAreAnswers`), a receipt has the hash of that output
(`ReceiptsAttest`), and an ID in the store leads to a receipt with that ID
(`StoreLeadsHome`). The second one is kept because an exchange that is answered
stays as it is, while its call may have timed out long ago.

**Outcomes.** What a call and the provider do is proved once, in `ExecutionProofs`,
for `Delivery` and for the commands. `Exchanges` ties each call to its exchange: none
before the call goes out, a success only of an effect that has taken place, an
output that tells a success from a failure. `Course` lists what `Outcomes` lets a
call do in one step, and `ExecutionCourse` says that every step of `Execution` is in
the list. The receipts are then added on each side. In `Delivery`, signing again
must change nothing that a receipt says. Of a process, `LetOutOnce` says that all it
lets out, pushed or printed, is its one receipt, and `LettingOut` that the first
time it does so it attests its call; that it is killed afterwards takes nothing
back.

**Ledger.** `LedgerAgrees` is inductive as it stands, over well-formed lists. A
transaction that is recorded comes last, so it changes which one is first of an ID
only for a new ID, and no receipt has a new ID: every receipt is for a first
transaction that is there already. Settling looks for the first one as well, so
that a second transaction of one ID never becomes settled.

**Commands and tools.** `ToolsRunCommands` says that a tool does nothing a user
could not do in a shell, and a tool that loses patience nothing but what a user may
interrupt, so that one invariant, `CInv`, speaks for both. It says what each kind of
document is: a receipt that is printed or on its way is made of the result its
process has, which no longer changes (`Messages`). `ContractInv` is the invariant
behind `SettlesWhatWasSigned`: on every document, edited or not, a signature that is
there is over the canonical bytes of something its holder has signed (`Genuine`).
An edit moves a signature to another text, and one that is moved back verifies
again, so the invariant is about signatures that do not verify as well; what
`SignedBy` holds only grows. Where a signature does verify, equal bytes are equal
terms (`SameBytesSameTerms`). `ToolInv` adds what a
tool has run and which files are left; it needs that receipts once issued stay so
(`IssuedStays`) and that an edited one keeps the signature over the old text
(`IssuedIsSigned`). `ToolsAreCommands` is the first sentence as a theorem: seen
without its tool calls and files, the server behaves as the commands do.

**What tools hand back.** `last_json` looks for the last brace that opens and for
the place where the text is as deep as before it. The lemmas of `LastJsonProofs` are
about texts of any length with quoted braces anywhere: a text that ends in a brace
that closes and has one that opens has a last one that opens and a first one that
closes after it (`Search`); inside its first object a text has depth 1
(`DepthOfFirst`), so that this is where it ends (`EndOfFirst`), and `last_json` returns
what lies between, or everything (`LastObject`). Every document is an object after a
heading without braces (`TextShape`), and the three claims of `ResultsAreWhole` follow
(`FoundIsWhole`): if the two braces found are the document's, what is between them
parses; if one is a string's, there is a brace in a string; and if the document has no
others, they are its own two.

Model-checked only: liveness (`EveryCallReturns`, `EveryExecuteReturns`,
`EveryToolCallReturns`), which is out of the prover's reach; every other property of
a passing run is the statement of a theorem. The inductive invariants of `LocksProofs` and
`CommandProofs` have also been checked by TLC on the instances of the runs.

## What is not modelled

* The negotiation of the demo (steps 1 to 3), a script of calls that `Negotiation`
  takes in any order; the MCP library and its transports.
* `ParseSchema` (a check for three fields, part of `Complain`), templates and the JSON schemas: no state, or data only.
* `internal/types`: declarations that no package imports; `PartialAcceptance`: a
  record no function takes.
* Ed25519, SHA-256, JSON and hexadecimal text: a signature is the pair of key and
  text, a hash is as good as the text. JSON is followed as far as its braces and
  the ends of its strings go.
* How long anything takes; sizes; wording.

## Plan

Done: `SessionStates`, `Agreement`, `Negotiation`, `NegotiationLocks`, `Signatures`,
`Receipts`, `Execution`, `Evidence`, `Settlement`, `Delivery`, `CommandLine`,
`JsonText`, `McpServer`, `Outcomes`, and the proofs listed above.

Left, should the code grow in that direction: a negotiation that outlives the
process that opened it (`aip negotiate --session` finds no session today), and a
theorem that a tool hands back the whole document if `_last_json` is given a rule
for nested objects.
