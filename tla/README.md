# Formal models of XMLTooling-C

TLA+ specifications of XMLTooling-C: caches that must follow what they cache,
threads that reload and read, files that are replaced while processes die,
records that expire, objects whose form in memory, in a DOM and as text must
agree, and the decisions about keys, signatures and trust that rest on them. Each
module is a translation of the C++ source under `src/xmltooling/`; `PROJECT.json`
names, for every definition, the lines it stands for.

Contents: [Inventory](#inventory), [Modules](#modules), [Runs](#runs),
[What the runs found](#what-the-runs-found),
[Limits that a condition names](#limits-that-a-condition-names), [Fairness](#fairness),
[Proofs](#proofs), [Not modelled](#not-modelled), [Plan](#plan).

## Inventory

| Component | State it keeps | Operations | Interacts with | What is hard | What makes it correct |
|---|---|---|---|---|---|
| XMLObject tree and DOM cache (`AbstractXMLObject`, `AbstractDOMCachingXMLObject`, `AbstractComplexElement`, `XMLObjectChildrenList`, marshaller, unmarshaller, `AnyElement`, the macros of `base.h`) | parent, children, content, `m_dom`, `m_document` | setters, list operations, detach, clone, marshall, unmarshall, release of the DOM, destructors | every object class is built from it; signatures depend on the DOM of a subtree staying as it is | a cache spread over a tree, invalidated upwards; ownership of documents that moves; exceptions half way | marshalled form is current; no DOM in a freed document; each document released exactly once; untouched subtrees keep their DOM |
| ReloadableXMLFile, threads | `m_filestamp`, `m_shutdown`, `m_lock`, `m_reload_wait`, the reload thread | lock, unlock, reload_fn, background_load, startup, shutdown | subclasses (metadata, trust and attribute configuration) build their configuration in `background_load()` | signals sent before the wait, changes during a load, failing loads | one configuration per lock; every change is picked up; shutdown returns |
| ReloadableXMLFile, remote backing | `m_cacheTag`, `m_loaded`, the backing file and its `.tag` | load, preserveCacheTag, the header hook of CurlURLInputStream | the remote server, the file system, the previous run of the process | crashes between file operations; a tag that gets ahead of the document | "not modified" means what it says; the backup is whole; no way back to an older version |
| StorageService / MemoryStorageService | contexts of records with version and expiration; a cleanup thread | create, read, update, delete of records, the same of contexts, reap | ReplayCache, session caches of applications | expired records still there; a lock given up for another | expired records are as good as gone; the interface is implemented |
| ReplayCache | none of its own: records in a StorageService | check | StorageService | check-then-act from several threads | a value is accepted once until it expires |
| DataSealer, key strategies, ManagedResource | key map, default key, `filestamp`, `cacheTag`, the backing file | wrap, unwrap, lock, stale, load, getDefaultKey, getKey | the key file or server, written by an external key-generating script | read lock given up for the write lock and back; keys change while data sealed with older keys is about; failing fetch; a map that lookups insert into | what was sealed can be unsealed while its key is kept; keys in use do not change; a change once noticed is not missed |
| FilesystemCredentialResolver | key, certificates, CRLs as managed resources, the credential built of them | lock, unlock, resolve, attach | credentials in use by callers | lock conversions, roll-overs in two steps, partial reloads | key and certificate of one credential belong together; the credential stays while it is used |
| Element classes (`base.h`, KeyInfo, XML encryption, SOAP) and their schema validators | members, lists and `m_children`, attributes, the DOM | setters, list operations, copy constructors, `processChildElement`, marshalling | the tree; schemas | what a class says in five places must agree | members and children in step; copies and documents read back are equal; schema-valid documents are kept |
| UnknownElement | a DOM, or XML text | unmarshall, releaseDOM, clone, marshall | ParserPool, DOM cache | two forms that change into each other, documents with an owner | the content is there in one form; documents have one owner |
| Namespaces of the marshalled form (`AbstractXMLObject`, `AbstractAttributeExtensibleXMLObject`, marshaller, `XMLHelper::getNonVisiblyUsedPrefixes`) | `m_namespaces` with usage, the declarations in the DOM | addNamespace, setAttribute, marshall, unmarshall | the tree, signatures | a prefix declared too late, twice, or only above a reused DOM | a prefix means what it meant, in the document and in a signed part of it |
| CurlURLInputStream, CloneInputStream | a growing buffer with head and tail, the reader's pointer | readBytes, writeCallback, readMore | libcurl calls back; the copy is the backup of ReloadableXMLFile | pieces of one side are not those of the other | what is read is what was sent, and so is the copy |
| Template engine | position, visibility | run, process | | recursion over a position that is passed by reference | output is that of the nested template |
| CURL SOAP transport | pool of keep-alive handles by host | get, put, send | libcurl, trust engines through callbacks | limit, eviction, handles with options and sessions of an earlier use | the count is that of the handles; a peer called authenticated was |
| ParserPool | stack of parsers, schema map | parse, loadSchema, checkoutBuilder, checkinBuilder | Xerces | parser returned after an exception; schema map read without lock | a parser has one user |
| XMLToolingConfig, PluginManager, XMLObjectBuilder | init count, loaded libraries, named mutexes, registries | init, term, load_library, getNamedMutex, registerBuilder | every other component | failing init, library entry points that call back | term undoes what init did, once |
| Credentials, KeyInfo and criteria | keys, certificates, names | getKeyInfo, resolve, matches | trust engines, signatures, encryption | a full and a compact form, encodings that cannot be read | what is published is found |
| Trust engines | chain, anchors, the caller's criteria, which engines change | validate, addTrustEngine, removeTrustEngine | credentials of peers, CRL cache | engines that share one criteria object | decision equals the policy, independent of order |
| CRL cache | a file, a staging file, the time of the last attempt | getRemoteCRLs | the distribution point; all validators of the process | a download without the mutex, a crash between two file operations | a CRL that is used has not expired; a new one is heard of |
| XML signatures | native signature, DOM, serialised form | marshall, unmarshall, sign, release, clone | DOM cache | three forms in step | a signature is of the DOM that is sent |
| XML encryption | a key buffer, parameters that point to it | encrypt, encryptKey, decrypt | credentials | reuse, several recipients | a recipient, and nobody else, decrypts |
| Helpers (XMLHelper, QName, Namespace, unicode, URLEncoder, PathResolver, DirectoryWalker, CloneInputStream, NDC, HTTP messages, exceptions) | none or constant | conversions | | | |

Calls go down this table's dependencies: applications hold objects (the tree)
and services; `ReloadableXMLFile` runs a thread of its own, the credential
resolvers and key strategies reload in the thread that locks them, and all share
state with callers under a read/write lock; `ReplayCache` calls `StorageService`;
trust engines, signatures and encryption pass credentials and criteria by
reference; transports borrow from pools that `XMLToolingConfig` makes and
destroys; the tree is not thread-safe and is used by one thread at a time.

## Modules

### XMLTree and DOMCache

`XMLTree` is the abstract specification: a forest of objects with content.
`View(o)` is what the subtree of `o` says, and `Marshall` returns it. No DOM
appears.

`DOMCache` EXTENDS it with `dom` (`m_dom`: the document an element is in, and the
rendering it was given), `mdoc` (`m_document`) and `docs` (documents not yet
released). Each action conjoins the operation on the tree with what the source
does to the DOM: which objects release theirs (`ThisAndParents` is
`releaseThisandParentDOM()`, `ParentsReleased` is `releaseParentDOM(true)`, which
stops at the first ancestor without a DOM), which documents are released with the
objects they are bound to (`Destroy`), and which DOMs point into these (`Dangle`).

| Action | Code |
|---|---|
| `NewObject` | a builder's `buildObject()` |
| `AssignValue` | `nil()`, `prepareForAssignment()`, `setAttribute()`, `setTextContent()` |
| `PushBack`, `Erase` | `XMLObjectChildrenList::push_back`, `erase` |
| `AssignChild`, `ReassignChild`, `ClearChild` | setters of a single child; `ClearChild` also stands for `erase()` by a client that then releases the parent's DOM itself |
| `DetachChild`, `DeleteTree` | `detach()`, the destructors |
| `MarshallCached`, `MarshallNew`, `MarshallInto`, `MarshallThrows` | `marshall()` with a DOM at hand, with a new document, with the caller's, and ending in an exception at any object |
| `ReleaseDOM`, `ReleaseThisAndParents`, `ReleaseThisAndChildren` | the release methods |
| `UnmarshallNew`, `CloneTree` | `buildFromDocument()`, `clone()` by hand or through the DOM |

Abstracted: attributes, text and `xsi:nil` of one object are one member of
`Value`; the order of children is left out; an element is the document it is in
and the set of entries *object, content, children* it was rendered from. A
marshall() that throws may do so at any object of the tree, with any set of the
siblings before it rendered.

Some calls the interface permits are not survived by the code. The constant
`Calls` says which of them a client makes; the run is about a client that keeps
off them, and putting one into `Calls` shows its counterexample: `"erase"` (a list's erase below a parent that has a DOM), `"releaseDOM"`
(releasing below an object that keeps its DOM), `"throw"` (an exception after
some children were rendered), `"detach"` (of a child that owns the document its
DOM is in). `AnyClass` chooses between objects that are `AnyElement`s and objects
of classes whose `clone()` the macro `IMPL_XMLOBJECT_CLONE_EX` makes.

### ReloadableXMLFile

Threads as program counters: `rpc` for readers in `lock()`/`unlock()`, `tpc` for
`reload_fn()`, `owner` for the constructor, `startup()` and `shutdown()`. A step
is what happens between two points where other threads are seen: the read lock,
the stat, the signal, the test of `m_shutdown`, the entry to the wait, its end,
the write lock around the stamp, the write lock around the load. A signal without
a waiting thread is lost. `local` (`m_local`, fixed by the constructor) distinguishes
a file (untimed wait, woken by readers) from a remote resource (timed wait). `file`
carries a document and a modification time, which two edits may share; a document
may be unusable (`Bad`) or missing (`Gone`).

### RemoteBacking

One `load()` of a remote resource in steps between which the process can be
killed: fetch (with or without a new tag; whole, broken, unreachable or 304),
`remove()` of the old backup, `rename()` of the copy, `preserveCacheTag()`; and
`Restore`, the `load(true)` of the backup when nothing is loaded. The document that
was parsed (`fetched`) and the copy of it on disk (`temp`) are two things:
CloneInputStream does not look at the state of the stream it writes to, and a document
that is good may leave a broken copy (`FetchUnwritten`), which the commit takes for the
backup; nor does `preserveCacheTag()` (`FinishUntagged`). The history
variable `faults` says which of the kinds of fault that the protocol does not
survive have happened: broken bodies, a failing `remove()` or `rename()`, failing
writes. Documents and tags are version numbers. A failed `Restore` leaves it open whether the subclass gives up
or keeps its thread.

### StorageService, MemoryStorageService, ReplayCache

`StorageService` is the abstract specification: `visible` maps each context and
key to its unexpired record; what has expired is gone at once. `MemoryStorageService`
has the real maps (`contexts`, a function with a changing domain, of functions
with changing domains), in which expired records and empty contexts stay, and
implements the abstract one under `visible <- Seen(contexts, now)`. A call is one
step because it holds the lock from lookup to end, but for `readContext()` of a
missing context (`ReadContextMiss`, `ReadStringUpgraded`). The cleanup thread
reads the clock just before it takes the lock (line 177); in the model it reads
it under the lock, which reaps the same or more and nothing that is not expired.

`ReplayCache` EXTENDS `MemoryStorageService` with the threads in `check()`: a
read, then a create, other threads in between. `promised` and `begun` are history
variables: until when a *true* has reserved a value, and what was reserved when a
check began.

### DataSealer

Threads as program counters through one `wrap()` or `unwrap()`: `lock()` with the
read lock (`read`), waiting for the write lock (`elevate`), loading (`load`),
waiting for the read lock again (`relock`), and the call itself (`in`, `map`). A
call waiting for its first lock counts as not begun.

| Action | Code |
|---|---|
| `Begin`, `NotStale`, `Stale`, `Handled`, `StartLoad` | `lock()` and `ManagedResource::stale()`: the look under the read lock, the second look under the write lock, the time stored before the load |
| `LoadFile`, `FetchWhole`, `FetchUnwritten` | `load()` of a file; of an answer, through the backing file, which may fail to be written without anybody noticing |
| `FetchFails`, `NotModified` | the exceptions `lock()` catches, after which the keys stay |
| `Relock` | the exchange of the write lock for the read lock |
| `Enter`, `Use` | `getKey()` or `getDefaultKey()`, which insert an entry without a key for a label that is missing, and what becomes of the data |
| `Edit` | keys are rolled over, emptied or taken away; two edits may share a time |

A content of the resource is the sequence of its usable lines; a key is a label and
key material; sealed data is the key it was made with, the label in front and
whether it has expired. Two threads in the map at once, one of them inserting, is a
data race, which may leave the map in any state: it is `Spoilt` from then on (`raced`),
through reloads too, and every lookup comes to anything. The
clock of a remote resource is left to the choice between `NotStale` and `Stale`;
`filestamp` then only says whether a load was ever begun. `reloadChanges` is not in
the model because `stale()` does not read it.

### ElementMacros, the element classes, SchemaValidators, XMLSchemas, XMLElements

`ElementMacros` is the vocabulary of `base.h`: a class is a record of what its
source says in different places (slots and lists of `init()`, branches of
`processChildElement()`, members of the copy constructor, attributes declared,
copied, written and read), so that the places can disagree. `KeyInfoElements`,
`EncryptionElements` and `SOAPElements` give that record for every class of
`KeyInfoImpl.cpp`, `EncryptionImpl.cpp` and `SOAPImpl.cpp`; `SchemaValidators`
what their `XMLOBJECTVALIDATOR` blocks require; `XMLSchemas` the content models
of `src/schemas`, which the code does not read but ought to follow.

`XMLElements` runs one object of any of these classes: built empty or read from a
document child by child (`ReadsText`, `ReadsChild`, `ReadsEnd`: the unmarshaller
with `processChildElement()` and `processAttribute()`), then changed by a client.

| Action | Code |
|---|---|
| `SetsSlot`, `SetsCode` | the setters of `IMPL_TYPED_CHILD`, and `Faultcode::setCode()` |
| `PushesBack`, `Erases`, `PushesPair`, `ErasesPair` | the lists over `m_children`, and the pairs of `SPKIData` |
| `SetsAttribute`, `SetsText` | `IMPL_*_ATTRIB`, `setTextContent()` |

`Clone` and `Marshalled` are the copy constructor with `IMPL_XMLOBJECT_CLONE` and
what `marshall()` would write at each point. `Calls` names what the classes do not
survive: `"setCode"`, `"farText"`, `"setText"`, `"pairs"`, `"trailer"`, `"xsiType"`
([limits](#limits-that-a-condition-names)).

### MarshalledNamespaces

Trees of objects that have a name, perhaps an `xsi:type`, and attributes whose
values may be qualified names; a qualified name is its prefix and its namespace.
`built` has what an object is and its `m_namespaces`; `element` what its element
declares and sees, and whether it is in the caller's document, into which the caller
marshalls again and again, or in one of the library's.

| Action | Code |
|---|---|
| `Make`, `SetExtensionAttribute`, `ClearAttribute` | the constructor, `setAttribute()` of a text or a QName, and of an empty one |
| `Grow`, `Detach` | a list's `push_back()`, `detach()` with the destruction of the parent |
| `MarshallAnew`, `MarshallKept` | `marshall()` without and with a usable DOM; `Declared` is `_addns`, and children that are in the document already keep their elements |
| `Unmarshall` | the unmarshaller over a document that was marshalled; attributes come before `xmlns` or after it |

`getNonVisiblyUsedPrefixes` is translated with the map it passes by reference.
`NameCalls` names the guards: `"rebind"`, `"plain"`, `"clear"`, `"alone"`, `"grow"`
([limits](#limits-that-a-condition-names)).

### CurlURLInputStream

The transfer that RemoteBacking takes as one step: `writeCallback`, `readMore` and
`readBytes` with head and tail of the buffer, the reader's `fBytesToRead`, the status
document that takes the place of a body, exceptions on the way, and the copy that
CloneInputStream writes. libcurl is external: a call passes on up to two pieces of any
size. A byte is its number in the body.

### UnknownElement, TemplateEngine

`UnknownElement`: objects that hold the DOM they were read from or the XML text of
it, and documents that are a caller's, an object's, or released. `serialize()`,
`releaseDOM()`, `clone()`, both `marshall()`s, `unmarshall()` and the destructor are
actions; where the code parses its text anew, a document is made.

`TemplateEngine`: a template is a sequence of pieces as `process()` meets them, and
`process` is translated with the position it passes by reference, the level it
expects an end tag of, and its visibility. `Rendered` is the reference: the same
template as nested tags. An author writes the template in steps (`Appends`,
`Encloses`), then it is run.

### ParserPool, CURLTransport, XMLToolingConfig

One composition of three modules by EXTENDS. `ParserPool`: `checkoutBuilder()`,
`parse()` that returns or throws, `checkinBuilder()`, `newDocument()`, and the schema
map, written under a lock that parsers do not take. `CURLTransport`: `CURLPool::get`
and `put` with eviction (in which the lock is held over the destruction of handles),
the settings a transport makes, the handshake with the callback that asks the trust
engine, and `SOAPClient::send()`; a handle remembers how its peer was accepted
(`CURLOPT_PRIVATE`). `XMLToolingConfig`: counted `init()` and `term()` with a
failure at each part, `load_library()` whose extension runs under the lock, and
which thread may use the pools. `Calls`, `RuntimeCalls` and `LateSchemas` name what
these do not survive: `"resend"`, `"mixed"`, `"lateFailure"`, `"reentrant"`, and
schemas registered while others parse.

### Credentials, TrustEngines, CRLCache

`Credentials` has no variables: a key, a certificate, a KeyInfo and criteria are
records, and `initKeyInfo`, `getKeyInfo`, `resolve` (InlineKeyResolver) and `matches`
(CredentialCriteria) are operators on them, used by the next modules.

`TrustEngines`: a caller that asks a chain of engines about signatures and
certificates, again and again, with the same criteria object. Each engine is an
operator that returns its verdict and what has become of the criteria; the chain is
a recursive function over them, one `Turn` each, with `reset()` in between. Which signature a key verifies and which
path is sound is OpenSSL's to say and marked external.

`CRLCache`: `getRemoteCRLs()` in steps between the points where it takes and drops
`m_lock`, by threads that share the cached file, the staging file and the map of
attempts; the distribution point changes, the clock runs, the process dies.

### XMLSignature, XMLEncryption

`XMLSignature`: one `ds:Signature` below a root: its DOM, the native signature on top
of it, the text that was saved when the DOM was released, its settings and its
`KeyInfo`, whose DOM may be in another document. A signature is its algorithm,
`KeyInfo` and a value over a text.

| Action | Code |
|---|---|
| `SetText`, `setSignatureAlgorithm`, `setSignatureKeyInfo`, `setSigningKey`, `setContentReference` | the setters; those of a signature with a DOM release it (`Touch`) |
| `MarshallRootCached`, `MarshallRoot` | `marshall()` of the root with and without a usable DOM, with or without a signature asked for |
| `MarshallRootThrows` | `sign()` throws inside `marshallInto()`, for want of a reference or a key or in the library: the saved text is gone, and the signature and its KeyInfo are left with a DOM in the document that the janitor releases (`native = FreedDoc`) |
| `Sign`, `SignFails` | `sign()` of a marshalled signature; when the library throws, the old value is gone |
| `releaseThisAndChildrenDOM`, `CloneRoot`, `Discard` | release, `clone()`, and the destructors |

After a `marshall()` that threw the client destroys the objects (`Discard`); a client
that goes on with them is `"reuse"`, of `SignCalls`, and reads whatever is in freed
memory (`Read`).

`XMLEncryption`: an Encrypter with the one key buffer to which parameters point, the
`EncryptedData` made and the `EncryptedKey`s added to each, and recipients that
decrypt with credentials and criteria of their own (`Encrypt`, `encryptKey`,
`Decrypt`, `setKEKResolver`). Credential.h:107 speaks of "a secret or private key",
but `BasicX509Credential::getPrivateKey()` gives none for a key that is secret: an
Encrypter that is given such a credential throws, and a Decrypter passes over it. So
keys shared beforehand are not in the model, nor a raw key in the parameters, which is
the client's to keep; data is opened through an `EncryptedKey` only, after a first
look-up for the data itself, of which the criteria stay.

### FilesystemCredentials

Threads as program counters through `lock()` of a FilesystemCredentialResolver: each
configured resource in turn is looked at under the read lock; at the first that is
stale the lock is exchanged for the write lock and that one and every later one
is looked at again, loaded (or not: the fetch fails, a content cannot be parsed; or the
backing file could not be written, and what is in it is loaded, with the tag of what was
sent: `FetchUnwritten`), and at the end the credential is swapped if key and certificate match. `Attach` is
`attach()`, which reads the key file again. The encoding of each resource is guessed
at the first load and kept in `format`. Key and certificate are rolled over by edits
of one resource at a time.

## Runs

| Run | Instance | Expect | Properties | Distinct states |
|---|---|---|---|---|
| `MCDOMCache` | DOMCache: 4 objects, 2 contents, 3 documents of the library and 1 of the caller, a careful client | pass | CacheFaithful, NoDangling, DocOwned, Refinement, DOMPreserved | 5427 (up to symmetry) |
| `MCReload` | ReloadableXMLFile: 2 readers, 2 edits, a file or a polled resource | pass | ConfigStable, EventuallyCurrent, ShutdownNoticed | 12670 |
| `MCReloadShutdown` | the same | violation | ShutdownReturns | |
| `MCBacking` | RemoteBacking: 3 versions, 2 crashes, faults | pass | FallbackReady, NeverBack, EventuallyFresh | 22832 |
| `MCStorage` | MemoryStorageService: 2 contexts | pass | Refinement, ExpiredPurged | 26061 |
| `MCReplayCache` | ReplayCache: 2 threads, 2 values, and the cleanup thread | pass | NoReplayAfter | 9945 |
| `MCDataSealer` | DataSealer: 2 threads, 2 edits, a file or a remote resource | pass | NoStaleKey, KeysStable, EventuallyCurrent | 368798 |
| `MCElements` | one of XMLElements (all classes), UnknownElement (2 objects, 4 documents), TemplateEngine (templates of 6 pieces), MarshalledNamespaces (3 objects), CurlURLInputStream (bodies of 5 bytes) | pass | InStep, CopySame, SchemaKept, UnknownKept, RendersNested, NamesKept, StreamFaithful | 1126182 |
| `MCRuntime` | ParserPool, CURLTransport and XMLToolingConfig together: 2 threads, 2 parsers, 2 handles, 3 addresses, 1 extension | pass | PoolsSound, AuthenticatedHonest, WholeOrGone, LocksReturned | 586741 |
| `MCSecurity` | one of TrustEngines, XMLSignature, XMLEncryption, CRLCache | pass | ChainAgrees, CDPWins, SignerAccepted, SentVerifies, SignatureAtHome, DecryptsBack, KeysApart, CacheSound, CRLRefreshed | 260194 |
| `MCSignatureRequest` | XMLSignature | violation | SignedOnRequest | |
| `MCCredentials` | FilesystemCredentials: 2 threads, 2 edits, a key and a certificate or a certificate and a CRL, files or remote resources | pass | MatchedCredential, CredentialStable, EventuallyCurrent | 93045 |

What the passing runs show:

* `MCDOMCache`: through any sequence of setters, list operations, marshalling,
  detaching, cloning, unmarshalling and deleting by a client that keeps off four
  hazardous calls, what is cached is what would be rendered anew, every document
  has one owner and outlives the DOMs in it, untouched subtrees keep theirs, and the
  whole behaves as `XMLTree`, which has no cache (`Refinement`; this includes that
  marshall() returns current content and that clones are alike).
* `MCReload`: failed loads, lost and spurious wakeups and edits in the middle of a
  reload are all made up for; the one exception is a last edit with the
  modification time of the one before. `shutdown()` returns if the wait is timed or
  the thread was already waiting when the flag was set.
* `MCBacking`: the commit protocol under crashes between any two file operations. No
  answer and no crash makes the backup a broken file, and between two loads it is the
  document in use, so that a restart without the server changes nothing
  (`FallbackReady`); a `remove()` or `rename()` that fails may leave none or an old one,
  and a write that fails a broken one. `NeverBack` holds under all faults.
  `EventuallyFresh` assumes that none happened, through the history variable `faults`.
* `MCStorage`: expired records, contexts made by reads, reaping and the lock that
  is given up in `readContext()` cannot be seen from outside.
* `MCReplayCache`: a check that begins after a value was accepted never accepts it.
* `MCDataSealer`: two threads that both find a change agree on who loads it, and
  neither goes on with older keys; keys in use stay as they are; the last change is
  picked up. The conditions name what the code does not survive: a backing file that
  cannot be written (`broken`) and two lookups at once of which one inserts (`raced`), the
  latter in `KeysStable` too.
* `MCElements`: the typed members of a class and its `m_children` say the same after
  every setter and list operation (`InStep`); copies and documents read back have the
  same content (`CopySame`); a document that follows the schema is read, written again
  as it is, and accepted by the validator (`SchemaKept`); an element without a builder
  has its content in one form, and each document one owner (`UnknownKept`);
  what `process()` writes is the rendering of the nested template (`RendersNested`); a
  prefix means in the document what it meant to the client, also when a part is read
  for its signature (`NamesKept`); what is read of a stream, and its copy, is what was
  sent (`StreamFaithful`).
* `MCRuntime`: a parser or a handle has one user, parsers that are handed out know the
  schemas, and the pool's count is that of its handles (`PoolsSound`); a peer is called
  authenticated only if the trust engine said so for that connection
  (`AuthenticatedHonest`); the library is up, each part of it once, or down
  with nothing left, and it is up while parsers, transports or extensions are in use
  (`WholeOrGone`); the locks of the library and of the pool
  are let go (`LocksReturned`).
* `MCSecurity`: a chain accepts exactly what one of its engines accepts by itself, for
  criteria without what `reset()` drops (`ChainAgrees`); a certificate that the CRL of its
  distribution point revokes is not accepted, whatever CRL a signature brings
  (`CDPWins`);
  criteria made of a signature match the signer's credential (`SignerAccepted`);
  what was signed and sent verifies when it is read, through release, clone, change and
  failing calls (`SentVerifies`), and no signature or KeyInfo stays in another document
  until a `marshall()` throws (`SignatureAtHome`); every recipient decrypts what was meant for him and keys are
  drawn anew (`DecryptsBack`, `KeysApart`); a cached CRL is whole and in date, and a
  new one comes through (`CacheSound`, `CRLRefreshed`).
* `MCCredentials`: key and certificate of a credential belong together at every moment
  of a roll-over, whichever fetch or write fails; the credential does not change under a
  lock; and it comes to be what the files say, if the backing files were written.

### Bounds and why they are enough

* `Obj`: three objects give a chain of two ancestors (needed for propagation and
  for holes) and two siblings; four give a clone of a parent and child next to the
  original. From where four exist, `MCBound` goes on only with one content and two
  documents of the library. Addresses are reused, so histories are not bounded.
  Symmetry is used with safety properties and with the refinement, which has no
  liveness part.
* `MaxEdits = 2` (ReloadableXMLFile, DataSealer, FilesystemCredentials): an edit during
  the load of another one, one that fails followed by one that does not, two in one
  second; a roll-over of a key and then of its certificate.
* `MaxVersion = 3`, `MaxCrashes = 2` (RemoteBacking): a tag, a backup and a server at
  three different versions, and a crash during the recovery from a crash.
* Two resources in FilesystemCredentials: a key and a certificate, which have to match, or
  a certificate and a CRL, which do not; a third would be looked at by the same steps
  once more.
* Two threads in DataSealer and FilesystemCredentials: one that loads and one that finds
  the change handled, is on its way to the lock, or uses what is loaded.
* `MaxTime = 1`: times 0 to 2, that is expired, about to expire, and alive, before
  and after a tick. `MaxVersion` of a record: 2 for the storage run (a version that
  is the caller's, and one that is not), 1 for ReplayCache, which never updates.
* XMLElements: every class that has children or attributes, with three of the simple
  ones, `MaxFirst = 1` child before the choice of a document's content, `Repeat = 2`
  entries of a repeated particle, and `MaxCalls = 2` calls of a client: one that fills
  and one that replaces, erases or adds. What a class says in its five places is
  independent of the length of a history.
* `TemplateSize = 6`: two tags nested in each other with something in between, or two in
  a row. `MaxNames = 4`: three objects with one attribute or type among them, or two with
  two. `BodySize = 5`, `ReadSize = 3`: a body longer than two reads, pieces smaller and
  larger than what is asked for, a buffer that grows twice.
* `ConnPoolMax = 1` with two handles and two addresses: eviction, of the pool that
  asks and of another; `IntMax = 2`, `MaxInits = 2`: one `init()` within another, a
  failure and a second attempt.
* `MaxEngines = 2` with three kinds of engine: every order. `MaxKeys = 2`,
  `MaxEncryptedKeys = 2`, two slots: a key made anew, two recipients. CRLs that expire
  at 4 or after the end of time at `LastTime = 5`, one publication and one crash.

`MCElements` and `MCSecurity` choose one of their machines in the initial state
(`running`): the machines share no state, and a run apiece would ask the same.

## What the runs found

Each is a run that expects a violation, with the statement of the repository it
contradicts quoted in `PROJECT.json`.

1. `shutdown()` of ReloadableXMLFile signals without the thread's mutex; with a local
   file the thread may then wait for ever and `join()` with it (`MCReloadShutdown`).
2. `marshall()` of an object that has a DOM returns it without a look at the
   signatures it was asked to create (`MCSignatureRequest`).

### Limits that a condition names

The models contain what the following calls and conditions lead to; the passing runs
keep them off, by a constant or by a condition of the property. Giving the constant
the named value shows the counterexample.

* DOMCache, `Calls`: `removeParent()` of a list releases the DOM of the parent's
  *ancestors* and not that of the parent, so that an erased child is still marshalled
  (`"erase"`); a `marshall()` that throws after some children were rendered leaves
  pointers into the document it releases (`"throw"`); `releaseParentDOM(true)` stops at
  the first ancestor without a DOM, so a `releaseDOM()` in the middle of a chain leaves
  the top stale (`"releaseDOM"`); `detach()` of a child that owns a document releases
  that document under the child's DOM (`"detach"`). `AnyClass`: `AnyElementImpl::clone()`
  without a DOM loops over the children of the copy, which has none.
* XMLElements, `Calls`: a copy of a `Faultcode` made without its DOM has its text twice
  (`"setCode"`, SOAPImpl.cpp:75); text set beyond the living children is never
  marshalled (`"farText"`); `setTextContent()` of most classes appends at marshalling
  and does not replace what was read (`"setText"`); an `SPKIData` with an extension
  between or before its `SPKISexp`s (`"pairs"`, which MembersInStep leaves out); an element behind the body of a SOAP
  envelope, which the schema allows, is turned down (`"trailer"`); an
  extension element with the `xsi:type` of a library class is in another list in the
  copy (`"xsiType"`). `SPKIDataImpl` does not set the parent of its extension child.
* MarshalledNamespaces, `NameCalls`: the first namespace of a prefix stays, so a second
  one, also that of a value or of what was replaced, is not declared (`"rebind"`); an
  attribute without a namespace takes the empty prefix of a prefixed element
  (`"plain"`); the usage of a namespace is never lowered, so a cleared attribute hides a
  prefix from `getNonVisiblyUsedPrefixes()` (`"clear"`); cached children are not given
  declarations that were above them, in another root or when marshalled alone, and names
  in what was read as text are in no list (`"alone"`); nor are they given `xmlns=""`
  when a default namespace comes above them (`"grow"`). `getNonVisiblyUsedPrefixes()`
  knows one namespace of each prefix; the property is about those.
* TemplateEngine: an unclosed `<mlpif>` writes the rest of the template twice, and any
  end tag ends whichever level it is met in; authors close what they open.
* UnknownElement: the catch clauses of `marshall()` do not catch the DOMException of an
  import; `marshall()` of an object that was just built parses the empty text and throws.
* RemoteBacking, `faults`: the caching tag is stored when the headers arrive, before the
  body is known to be good; after a bad one the server answers 304 to a process that has
  an older document or none (`NotModifiedMeansCurrent` does not hold). The tag is
  preserved on disk even if the rename failed; between `remove()` and `rename()` there
  is no backup. A copy that could not be written whole is made the backup all the same
  (CloneInputStream.cpp:58).
* DataSealer: `getDefaultKey()` and `getKey()` change the map under a read lock
  (VersionedDataSealerKeyStrategy.cpp:230, 238); nothing is promised once two have met
  there, one of them with a label that is missing (`raced`).
* Modification times are compared by the second (`EventuallyCurrent` of
  ReloadableXMLFile, DataSealer and FilesystemCredentials).
* ReplayCache: two concurrent checks of one value both return true, since the result of
  `createString()` is ignored (`AcceptedOnce` does not hold).
* CURLTransport, `Calls`: `send()` twice without `reset()` loses a handle (`"resend"`);
  `get()` leaves null names out of the key and `put()` does not (`"mixed"`). Redirects,
  cipher list and encodings stay on a handle that is used again.
* XMLToolingConfig, `RuntimeCalls`: an `init()` that fails after Xerces leaves parts
  behind, and validators are registered twice by the next (`"lateFailure"`);
  `load_library()` holds the lock over the extension's entry point, which deadlocks if
  that asks for a named mutex (`"reentrant"`). ParserPool, `LateSchemas`: the map of
  schemas is read without the lock that guards its changes.
* FilesystemCredentials: the encoding guessed at the first load is kept; a failed load is
  not repeated before the next change; while key and certificate do not match, new CRLs
  are not taken either; a backing file that could not be written keeps its old or a
  spoilt content, while the tag of the new one is stored and the server answers 304 to it
  (SecurityHelper.cpp:423, `AtRest`); `attach()` reads the key file anew (`AttachMatches`
  does not hold). `reloadChanges` is read from the configuration and not used.
* TrustEngines: `reset()` in a chain drops the caller's key names, size and algorithm, and
  an explicit engine changes the caller's usage; one CRL is kept per issuer, so that a
  second distribution point is not asked. CRLCache: a refreshed CRL is returned by the
  call after the one that fetched it; a slow older fetch may replace a newer one.
* XMLSignature: a `sign()` that throws inside `marshall()` (AbstractXMLObjectMarshaller.cpp:250)
  leaves the signature and its KeyInfo with a DOM in a document that is released, although
  the marshaller depends "on all objects being able to preserve their DOM at all costs"
  (97; `DOMAtAllCosts` does not hold). `SignCalls`: settings changed after the signature was marshalled with a
  KeyInfo that has a DOM (`"late"`); calls of an object whose `marshall()` threw
  (`"reuse"`). XMLEncryption, `EncryptCalls`: parameters that still
  point into the encrypter's key buffer when it holds another key (`"alias"`); an
  EncryptedKey without a recipient, which hides those behind it (`"anonymous"`). With AES, the algorithm of a wrapped key
  falls through to none (Encrypter.cpp:349); a retrieval by reference ignores the
  recipient; `decryptData()` into a stream does not end (Decrypter.cpp:221).
* CurlURLInputStream: a `realloc()` that fails is not looked at before the copy; the
  model's memory does not run out. Its copy is what CloneInputStream was asked to write;
  that the write may fail is in RemoteBacking.

## Fairness

* ReloadableXMLFile: each thread keeps running (weak fairness of its steps), and a
  reader that holds the lock lets go of it. The locks are strongly fair: who waits
  gets the lock when it is free again and again. The pthread read/write lock gives a
  writer no such guarantee against readers that overlap without end, which is why
  `EventuallyCurrent` also requires the lock to be free again and again; a reader
  competes only with one writer that sleeps between its loads. No fairness of edits, of
  `Lock`, `Startup`, `Flag`, or of spurious wakeups. `Timeout` is weakly fair because
  a timed wait returns; it is disabled for local files.
* RemoteBacking: the process is restarted and goes on; the server, asked again and
  again, now and then answers (strong fairness of `FetchWhole` and `NotModified`).
  Nothing obliges it to publish, and crashes are bounded.
* DataSealer and FilesystemCredentials: a thread that has begun runs on, and gets a lock
  that is free again and again (strong fairness of `Advance`); calls are made again and
  again, by some thread; the reload interval of a remote resource elapses now and then
  and the server, asked again and again, answers (strong fairness of `Stale` and the
  fetch, for each resource, which FilesystemCredentials takes by its place in the order
  in which they are looked at). As for ReloadableXMLFile, `EventuallyCurrent` requires the
  lock to be free again and again.
* MemoryStorageService: the cleanup thread's timed wait returns (weak fairness of
  `Cleanup`).
* CRLCache: time passes, and each thread goes on (weak fairness of `Elapse` and
  `Getting`): in a call the code waits for nothing but the network, which has a timeout;
  and out of one the thread calls again, since `Getting` includes `Call`. `CRLRefreshed`
  is about a process whose callers keep asking: the cache has no thread of its own.
* XMLToolingConfig and CURLTransport: the loop that makes room in the pool, and a library
  that is being loaded, go on (part of `LocksReturned`).
* The others have safety properties only.

## Proofs

Checked by TLAPS for every value of the constants that satisfies the named
assumptions of the modules: `NullAssumption`, `DOMAssumption`, `ReloadAssumption`,
`BackingAssumption`, `StorageAssumption`, `ReplayAssumption`, `SealerAssumption`,
`SignatureAssumption`, `CredentialAssumption`, `EncryptionAssumption`, `CRLAssumption`,
`ParserPoolAssumption`, `TransportAssumption`, `TrustAssumption`, `EngineAssumption`, `StreamAssumption`,
`ElementsAssumption`, `SchemasAssumption`, `RuntimeAssumption` and `NilAssumption`. Most say that values of different kinds differ (`Null` is no
thread, no handle and no verdict; `Absent` is no caller; a thread is none of the places
a parser can be in). One that says more is about clients: callers of one pool of
handles ask the same of trust (`TrustAssumption`). `EngineAssumption` says that an engine
checks revocation in one of the three ways that there are, and that the lists of a KeyInfo
are lists, which a proof does not see in SelectSeq and FlattenSeq. `Repeat`, how often a
schema's repetition is unrolled, is any positive number (`SchemasAssumption`). The constants `Calls`, `SignCalls`, `EncryptCalls`
and `RuntimeCalls` are open in every theorem; where one needs a hazardous call left out,
its statement says so (`ASSUME Calls = {}`: *a careful client*; `"pairs" \notin Calls`
and the like: all the other calls may happen).

| Module | Theorem | Statement | Invariant |
|---|---|---|---|
| DOMCacheProofs | `TypeCorrect` | `Spec => []TypeOK` | TypeOK itself is inductive; it includes that nothing refers to a destroyed object, which `Below` and `Destroy` need |
| | `DocumentsOwned` | `Spec => []DocOwned` | TypeOK and DocOwned; holds with every hazardous call and both kinds of `clone()` |
| | `CacheAlwaysFaithful`, `NothingDangles` | `[]CacheFaithful`, `[]NoDangling` for a careful client | see below |
| | `DOMsPreserved` | `DOMPreserved` for a careful client | the same; an object that loses its DOM is above the change or within it, and its view changes |
| | `ImplementsTree` | `Refinement` of DOMCache, for a careful client and `AnyClass = FALSE` | the same; `CacheFaithful` makes the cached rendering that `marshall()` returns and the one that `clone()` copies those of the objects. With `AnyElement` objects a copy by hand is without its children, which is why the other kind is assumed |
| | `UnknownsKept` | `UnknownSpec => []UnknownKept` | `AtItsOwner`: a DOM in a document that an object owns is the DOM of that object. That each document has one owner does not say that nobody else's content is in it when the owner releases it |
| ReloadableXMLFileProofs | `TypeCorrect`, `ConfigurationStable` | `[]TypeOK`, `ConfigStable` | `LoadLocked`: the write lock is held exactly while the thread is loading; `StampTaken`: between the change detected and the stamp, `seen` is a time. ConfigStable needs the first, since `FinishLoad` has no guard on the lock |
| | `BackingTypeCorrect`, `FallbackIsReady`, `NoRegression` | of RemoteBacking, `[]BackingTypeOK`, `[]FallbackReady`, `NeverBack` | `Ordered`: a document that is about to be committed is no older than what is loaded, and what is loaded no newer than the server. `Held`: its copy on disk, and after the rename the backup, is that document, but for failed writes and commits; the backup alone does not say what the next `rename()` will make of it |
| | `NotModifiedIsHonest` | `[]NotModifiedHonest` | `TagBehind`, as long as `faults` is empty: the tags in memory and on disk never get ahead of the document and the backup they stand for, at each point of a commit |
| | `BodyReadFaithfully` | `StreamSpec => []StreamFaithful` of CurlURLInputStream | `Holds`: what was returned, is in the reader's hands and waits in the buffer is what arrived, and the buffer is at its beginning when it is empty. `Writable`, that nothing waits while the reader wants more, holds where libcurl may write only; without it a piece would overtake what waits. A read that is under way wants or has something, so that an empty answer is the end |
| XMLElementsProofs | `MembersInStep` | `ElementsSpec => []InStep` without `"pairs"` | `ElementsInv`: the class is one of the library's; what was read is a list of names; and `Sound`: InStep, with the types of the members, and every child with an identity that was given before (`Given`), so that a new one is in no other place. Each operation keeps `Sound`: a setter replaces what is in the slot's place and nowhere else, what is pushed is last in its list and in `m_children`, and what is erased is found in its one place behind the slots |
| | `ClassesWell` | for every class of the three files, `Right(q, Class(q))` | the class is `Well`: each child that `processChildElement()` takes has a member (`SPKIData` has pairs and nothing else), no member is a slot and a list, no two slots are the same, every attribute declared is read. By cases on the macros; what MembersInStep needs of the 63 classes |
| DataSealerProofs | `TypeCorrect`, `NoThreadUsesStaleKeys`, `KeysAreStable`, `NoKeyIsLost` | `[]TypeOK`, `[]NoStaleKey`, `KeysStable`, `KeyKept`, the last two as long as no lookups race | `Stamped`: with no writer about, the content loaded is no older than the time stored; `Seen` and `Served` carry this through the wait for the write lock; `Bounded`: no time and no version is ahead of the resource. For `KeyKept` also `InResource` and `InMap`: a key that stays is in every content and, once loaded, in the map |
| StorageProofs | `TypeCorrect`, `Implements` | `[]TypeOK`, `Refinement` of MemoryStorageService | TypeOK; each action maps to the abstract action on `Seen(contexts, now)`, or, for the cleanup, to a stutter |
| | `PromisesKept`, `NoReplayGetsThrough`, `NothingTurnedDownInVain` | `[]PromiseKept`, `NoReplayAfter`, `NoFalseAlarm` of ReplayCache | stored records of the context are promised ones and promised ones are stored until they expire; a thread on its way to store knows what was promised when it began |
| SecurityProofs | `SignatureTypeCorrect`, `WhatWasSignedVerifies` | `[]SignatureTypeOK` with every hazardous call, `[]SentVerifies` without `"reuse"` | `RootInStep`, `NativeInStep`, `ValueKept`: the signature has a DOM while the root has one, the native signature is there exactly while that DOM is, and nothing that was signed is lost or altered in whichever form there is. The first two are about signatures that no throwing `marshall()` has left behind; a root never has such a one with a DOM of its own |
| | `SignatureStaysAtHome` | `[]SignatureAtHome` for a client without hazardous calls | `KeyInfoInStep`: until a `marshall()` throws, the DOM of KeyInfo is in no freed document, and in one of the root only with the signature's |
| | `CacheAlwaysSound` | `[]CacheSound` | `WriterLocks`: a thread that writes holds the lock and has a CRL that is whole; `FoundUnexpired`: what a thread on its way to the answer has read was looked at with the clock it read. The staging file may be broken at any moment, which is why the cached one must be replaced by a rename and never written |
| | `KeysStayApart` | `[]KeysApart` without `"alias"` | `BufferLast`, `ParamsInv`, `SentInv`: the buffer holds the key drawn last, the key of any parameters has been drawn, and what was sent has a number that was drawn for it and is never drawn again. KeysApart alone does not say that a key drawn later is new |
| | `ChainAlwaysAgrees` | `TrustSpec => []ChainAgrees` | by induction along the chain: an engine that does not accept leaves the criteria, once they are reset and have their usage back, as they were (`CriteriaKept`: every engine keeps the peer's name and the key; `CriteriaAsBefore`) |
| | `DistributionPointsWin` | `TrustSpec => []CDPWins` | by induction along the certificates and then along the CRLs brought along: the CRL of the first certificate's distribution point is fetched (`FirstFresh`, `FirstFetched`) and stays in the store (`StoreKeeps`), the certificate is on every path (`OnPath`), and a certificate that any CRL of its issuer revokes is not accepted |
| RuntimeProofs | `RuntimeTypeCorrect`, `PoolsAlwaysSound` | `[]TypeOK`, `[]PoolsSound` with every hazardous call | of the parsers, `PoolInv`: who is in the pool is owned by it, and whom a thread parses with is its own. Of the handles, `HandleInv` and `BoundInv`: a handle is free in one pool, or with one client, or cleaned up; `OrderInv`: a pool with handles is on the list of pools, once; `RoomInv`: the count is the sum, and at most one more than the bound while a thread makes room. Of the library, `CountInv`: the count is the number of unmatched calls of `init()`, so that the pools are drained only when it falls to 0 |
| | `AlwaysHonest` | `[]AuthenticatedHonest` without `"mixed"` | `SessionInv`: a free handle that says of its session *secure* has one that a trust engine accepted, and one in a pool whose users insist on trust has no other |
| | `AlwaysWholeOrGone` | `[]WholeOrGone` without `"resend"` and `"lateFailure"` | `Whole`: each part of the library is up once exactly while the count is above 0, as far as the failing `init()` has come; a thread that uses something has called `init()` and not yet `term()` |
| FilesystemCredentialsProofs | `TypeCorrect` | `[]TypeOK` | TypeOK, which includes that a writer is alone, and `AtResource`: a thread that elevates or loads is at one of the configured resources |
| | `KeyMatchesCertificate`, `CredentialIsStable` | `[]MatchedCredential`, `CredentialStable` | the same; only `Swap` changes the credential, under the write lock |

The invariant of DOMCache is `CarefulInv`, TypeOK and DocOwned with four statements that
are kept together. `CacheFaithful` alone is not inductive: a setter releases the DOMs of
its object's ancestors only as far as the first one without a DOM, so that
`CacheFaithful` is kept above it only if no ancestor further up has one (`NoHole`).
`NoDangling` alone is not either: an object that is destroyed, or bound to a new document,
releases the old one, and nobody who stays may have its DOM there (`DOMAtHome`).
`Acyclic`, that no object is its own ancestor, makes the subtrees of two objects nested or
apart. Each action is proved to keep the four
and `Preserved` at once, by the lemmas on `Below`, `Above` and `View` at the start of
DOMCacheProofs. `Below` is an intersection of closed sets and not defined by recursion,
so that these lemmas follow from its being the least closed set, without induction.

`KeyKept`, `PromiseKept`, `NoFalseAlarm`, `NotModifiedHonest` and the type invariants are
proved and are not properties of a run.

Only model-checked:

* the liveness properties (`EventuallyCurrent`, `ShutdownNoticed`, `EventuallyFresh`,
  `ExpiredPurged`, `LocksReturned`, `CRLRefreshed`), since fairness and ENABLED are beyond
  the prover;
* what SelectSeq, FlattenSeq and the folds of the library compute, of which the prover
  knows nothing: which credentials and EncryptedKeys are selected (`SignerAccepted`,
  `DecryptsBack`), the names in a list of namespaces (`NamesKept`), the copies of an
  element and its documents (`CopySame`, `SchemaKept`). `InStep` speaks of places in
  `m_children` and needs none of them;
* what a RECURSIVE operator computes: templates (`RendersNested`, by `process`).

A recursive function can be reasoned about without the induction theorems that take an
operator: that one with the equation exists is shown by induction over its length, with the
set of the lengths that have one in the place of the operator (`NatInductive`, from
`WFMin`), and what it computes in the same way (`AreTurns`, `AreFetched`, `AreAdded`).

## Not modelled

* The components of status `not_modelled` in `PROJECT.json`. Pure I/O and string
  conversion (paths, directories, URL and cookie parsing, most of XMLHelper, the encoding
  of HTTP messages) have no state two actors could disagree about. Windows threads are
  another implementation of the interface modelled in its POSIX form. Exceptions and
  logging are wording.
* Of the tree: schema locations, `xsi:nil`, XML IDs, and in DOMCache the order of
  children. `xsi:noNamespaceSchemaLocation` is stored as `xsi:schemaLocation` too
  (AbstractXMLObjectUnmarshaller.cpp:145).
* Of the threads: statistics and the user-data mutexes. Of the storage: the destructor of
  MemoryStorageService, whose lost signal costs one interval. Readers that overlap without
  a gap (PThreads.cpp:122) are excluded by the fairness assumed.
* Of the transports and streams: options of libcurl, headers but for the caching tag.
* Of security: path validation, signature algorithms and ciphers are OpenSSL's and
  XML-Security-C's, and external; the parsing of keys and certificates is a form that is
  understood or not; decryption into a stream; engines over other resolvers of anchors.

## Plan

1. *Done:* XMLTree, DOMCache; ReloadableXMLFile, RemoteBacking; StorageService,
   MemoryStorageService, ReplayCache; DataSealer; the element classes and their schemas,
   UnknownElement, TemplateEngine, MarshalledNamespaces; ParserPool, CURLTransport,
   XMLToolingConfig; Credentials, TrustEngines, CRLCache; XMLSignature, XMLEncryption;
   FilesystemCredentials; CurlURLInputStream.
2. *Done:* proofs on ParserPool, CURLTransport, XMLToolingConfig, CRLCache, the
   signature and the keys of encryption; on DOMCache with its refinement, and
   UnknownElement.
3. *Done:* proofs of what needs induction along a list only: that the lists and the
   children of an element are in step, that a chain of engines agrees with its parts, that
   the CRL of a distribution point is heeded, that a body is read as it arrived.
4. Abstract specifications of a credential resolver and of a signed object, implemented
   by FilesystemCredentials and XMLSignature.
5. `StorageClients`: callers that keep versions over MemoryStorageService
   (MemoryStorageService.cpp:232).
6. Composition of CurlURLInputStream with RemoteBacking, and of MarshalledNamespaces
   with DOMCache.
