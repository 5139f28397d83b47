------------------------------ MODULE OrderBooks ------------------------------
(* The order books of a gateway that runs both providers (infra/adapters): one of    *)
(* Binance's and one of OKX's.  They share nothing, so each of them takes its steps  *)
(* while the other stands still.                                                     *)
CONSTANTS
    Seeders, Handler,          \* Binance: the goroutines that seed, the stream's handler
    Resyncers,                 \* OKX: the goroutines that resync
    Coverage,                  \* OKX: the updates that checksums may cover
    MaxVenue, OkxUpdates,      \* bounds: updates of Binance's venue and of OKX's, lag of a
    MaxLag, MaxLost,           \* REST snapshot, diffs lost by Binance's stream,
    MaxReconnects, BookFaults  \* reconnections of OKX's, failures for each book

VARIABLES
    venue, stream, lost, failed, asm, lastSeq, seeded, seeding, buffer, pc, todo, current, out,
    published, overtaken,
    okxVenue, okxStream, reconnects, okxFailed, covered, okxAsm, okxLastSeq, okxSeeded, resyncing,
    hpc, msg, okxOut, okxRpc, snap, okxPublished, made, okxOvertaken, flawed

binanceVars == <<venue, stream, lost, failed, asm, lastSeq, seeded, seeding, buffer, pc, todo, current,
                 out, published, overtaken>>
okxVars == <<okxVenue, okxStream, reconnects, okxFailed, covered, okxAsm, okxLastSeq, okxSeeded,
             resyncing, hpc, msg, okxOut, okxRpc, snap, okxPublished, made, okxOvertaken, flawed>>

Binance == INSTANCE BinanceBook WITH MaxFaults <- BookFaults, faults <- failed, seen <- current
Okx == INSTANCE OkxBook WITH
    MaxFaults <- BookFaults, MaxVenue <- OkxUpdates,
    venue <- okxVenue, stream <- okxStream, faults <- okxFailed, asm <- okxAsm,
    lastSeq <- okxLastSeq, seeded <- okxSeeded, out <- okxOut, rpc <- okxRpc,
    published <- okxPublished, overtaken <- okxOvertaken

ASSUME BooksAssumption == Binance!BookAssumption /\ Okx!OkxAssumption

BooksInit == Binance!Init /\ Okx!Init
BooksNext == \/ Binance!Next /\ UNCHANGED okxVars
             \/ Okx!Next /\ UNCHANGED binanceVars
BooksSpec == BooksInit /\ [][BooksNext]_<<binanceVars, okxVars>>

\* The properties of the two modules, for both books.
GapsAreFound == Binance!GapsAreFound /\ Okx!GapsAreFound
PublishedExact == Okx!PublishedExact
BufferedIsTaken == Binance!BufferedIsTaken
ResyncEnds == Okx!ResyncEnds
===============================================================================
