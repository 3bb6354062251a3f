---------------------------- MODULE CorpusProofs ----------------------------
(***************************************************************************)
(* Theorems about Metadata for any documents, chunks, values and parsers,  *)
(* and about Corpus for any files, texts and parts in histories its own    *)
(* theorems name.                                                          *)
(***************************************************************************)
EXTENDS CorpusMetadata, TLAPS, FiniteSetTheorems

-----------------------------------------------------------------------------
(* Metadata. *)

Priors == UNION {[S -> SUBSET Values] : S \in SUBSET Passages}
Written == [meta : SUBSET Values, prior : Priors]
Updates == [docs : [Pages -> FileValues], chunks : Priors]

MetaTyped ==
    /\ Meta!TypeOK
    /\ cut \subseteq Pages /\ clean \in BOOLEAN /\ derivable \in BOOLEAN
    /\ deriving \in [Pages -> SUBSET Written]
    /\ refresh \subseteq Updates
    /\ \A d \in Pages : \A r \in deriving[d] : DOMAIN r.prior = Reuses[d]
    /\ \A d \in Pages : \A r \in deriving[d] : \A c \in Reuses[d] : Owner[c] \in settled
    /\ \A w \in refresh : \A c \in DOMAIN w.chunks : Owner[c] \in cut

(* What a document carries is what a parser once read, and parsers only come  *)
(* to read more.                                                              *)
ReadOnlyMore ==
    /\ \A d \in Pages : docMeta[d] \subseteq file[d]
    /\ \A w \in refresh : \A d \in Pages : docMeta[d] \subseteq w.docs[d] /\ w.docs[d] \subseteq file[d]

(* Jev's decision for a document without values, wherever it is on its way.   *)
DecisionKept ==
    /\ \A d \in cut : docMeta[d] = {} => \A c \in Meta!Own(d) : applied[d] \subseteq chunkMeta[c]
    /\ \A d \in Pages : \A r \in deriving[d] :
           /\ docMeta[d] = {} => applied[d] \subseteq r.meta
           /\ \A c \in Reuses[d] : docMeta[Owner[c]] = {} => applied[Owner[c]] \subseteq r.prior[c]
    /\ \A w \in refresh : \A c \in DOMAIN w.chunks :
           w.docs[Owner[c]] = {} => applied[Owner[c]] \subseteq w.chunks[c]

CarriesEach(docs, chunks) ==
    \A c \in Passages : Owner[c] \in cut => \A d \in Meta!Carriers(c) \cap cut : docs[d] \subseteq chunks[c]

(* The chunks as the transaction of a refresh leaves them. *)
After(w) == [c \in Passages |-> IF c \in DOMAIN w.chunks THEN w.chunks[c] ELSE chunkMeta[c]]

CleanRefresh ==
    clean => /\ \A w \in refresh : w.docs = file /\ CarriesEach(w.docs, After(w))
             /\ refresh = {} => CarriesEach(docMeta, chunkMeta)

MetaInv == MetaTyped /\ ReadOnlyMore /\ DecisionKept /\ CleanRefresh

LEMMA MetadataStarts == Meta!Init => MetaInv
<1> SUFFICES ASSUME Meta!Init PROVE MetaInv
    OBVIOUS
<1> USE MetadataAssumption DEF Meta!MetadataAssumption
<1>1. MetaTyped
    <2>1. Meta!TypeOK
        BY DEF Meta!Init, Meta!TypeOK
    <2>2. deriving \in [Pages -> SUBSET Written] /\ \A d \in Pages : deriving[d] = {}
        BY DEF Meta!Init
    <2> QED BY <2>1, <2>2 DEF Meta!Init, MetaTyped
<1>2. ReadOnlyMore /\ DecisionKept /\ CleanRefresh
    BY DEF Meta!Init, ReadOnlyMore, DecisionKept, CleanRefresh
<1> QED BY <1>1, <1>2 DEF MetaInv

LEMMA ParentsAdd ==
    ASSUME NEW given, NEW known
    PROVE  given \subseteq Meta!WithParents(given, known)
           /\ Meta!WithParents(given, known) \subseteq given \cup known
BY DEF Meta!WithParents

LEMMA NamedAreKnown ==
    ASSUME NEW d \in Pages, NEW known
    PROVE  Meta!NamedValues(d, known) \subseteq known
BY DEF Meta!NamedValues, Meta!Nearest

LEMMA KnownAreValues ==
    ASSUME NEW metas \in [Pages -> SUBSET Values]
    PROVE  Meta!Known(metas) \subseteq Values
BY DEF Meta!Known

LEMMA ReadPageKeeps ==
    ASSUME MetaInv, NEW d \in Pages, Meta!ReadPage(d)
    PROVE  MetaInv'
<1> USE MetadataAssumption DEF Meta!MetadataAssumption, MetaInv
<1>1. PICK says \in SUBSET Meta!Known(docMeta) :
         LET known == Meta!Known(docMeta)
             named == Meta!NamedValues(d, known)
             asked == docMeta[d] = {} /\ derivable /\ named = {}
             given == IF docMeta[d] # {} THEN docMeta[d]
                      ELSE IF ~derivable THEN {} ELSE IF asked THEN says ELSE named
         IN  /\ ~asked => says = {}
             /\ applied' = [applied EXCEPT ![d] = says]
             /\ deriving' = [deriving EXCEPT ![d] =
                    {[meta |-> Meta!WithParents(given, known), prior |-> [c \in Reuses[d] |-> chunkMeta[c]]]}]
    BY DEF Meta!ReadPage
<1> DEFINE known == Meta!Known(docMeta)
           named == Meta!NamedValues(d, known)
           asked == docMeta[d] = {} /\ derivable /\ named = {}
           given == IF docMeta[d] # {} THEN docMeta[d]
                    ELSE IF ~derivable THEN {} ELSE IF asked THEN says ELSE named
           meta == Meta!WithParents(given, known)
           prior == [c \in Reuses[d] |-> chunkMeta[c]]
<1>2. known \subseteq Values
    BY KnownAreValues DEF MetaTyped, Meta!TypeOK
<1>3. given \subseteq Values /\ (docMeta[d] = {} => says \subseteq given)
    BY <1>1, <1>2, NamedAreKnown DEF MetaTyped, Meta!TypeOK
<1>4. given \subseteq meta /\ meta \subseteq Values
    BY <1>2, <1>3, ParentsAdd
<1>5. prior \in Priors
    BY DEF MetaTyped, Meta!TypeOK, Priors
<1> DEFINE r == [meta |-> meta, prior |-> prior]
<1>6. applied' = [applied EXCEPT ![d] = says] /\ deriving' = [deriving EXCEPT ![d] = {r}]
    BY <1>1
<1>7. r \in Written /\ r.meta = meta /\ r.prior = prior /\ says \subseteq Values
    BY <1>2, <1>4, <1>5 DEF Written
<1>8. d \notin cut /\ deriving[d] = {} /\ \A c \in Reuses[d] : Owner[c] \in settled
    BY DEF Meta!ReadPage
<1>9. UNCHANGED <<file, docMeta, chunkMeta, cut, settled, derivable, refresh, reads, clean>>
    BY DEF Meta!ReadPage
<1> HIDE DEF known, named, asked, given, meta, prior, r
<1>10. MetaTyped'
    <2>1. deriving' \in [Pages -> SUBSET Written] /\ deriving'[d] = {r}
          /\ \A e \in Pages : e # d => deriving'[e] = deriving[e]
        BY <1>6, <1>7 DEF MetaTyped
    <2>2. Meta!TypeOK'
        BY <1>6, <1>7, <1>8, <1>9, <2>1 DEF MetaTyped, Meta!TypeOK
    <2>3. DOMAIN prior = Reuses[d]
        BY DEF prior
    <2> QED BY <1>7, <1>8, <1>9, <2>1, <2>2, <2>3 DEF MetaTyped
<1>11. ReadOnlyMore'
    BY <1>9 DEF ReadOnlyMore
<1>12. DecisionKept'
    <2>1. \A e \in Pages : e # d => applied'[e] = applied[e] /\ deriving'[e] = deriving[e]
        BY <1>6 DEF MetaTyped, Meta!TypeOK
    <2>2. applied'[d] = says /\ deriving'[d] = {r}
        BY <1>6 DEF MetaTyped, Meta!TypeOK
    <2>3. \A c \in Reuses[d] : docMeta[Owner[c]] = {} => applied[Owner[c]] \subseteq prior[c]
        BY <1>8 DEF prior, DecisionKept, MetaTyped, Meta!TypeOK, Meta!Own
    <2>4. \A e \in Pages : \A q \in deriving[e] : \A c \in Reuses[e] : Owner[c] # d /\ Owner[c] \in Pages
        BY <1>8 DEF MetaTyped, Meta!TypeOK
    <2>5. \A c \in Reuses[d] : Owner[c] # d /\ Owner[c] \in Pages
        OBVIOUS
    <2>6. \A e \in cut : docMeta[e] = {} => \A c \in Meta!Own(e) : applied'[e] \subseteq chunkMeta[c]
        BY <1>8, <2>1 DEF DecisionKept, MetaTyped
    <2>7. \A w \in refresh : \A c \in DOMAIN w.chunks :
              w.docs[Owner[c]] = {} => applied'[Owner[c]] \subseteq w.chunks[c]
        BY <1>8, <2>1 DEF DecisionKept, MetaTyped
    <2>8. ASSUME NEW e \in Pages, NEW q \in deriving'[e]
          PROVE  /\ docMeta[e] = {} => applied'[e] \subseteq q.meta
                 /\ \A c \in Reuses[e] : docMeta[Owner[c]] = {} => applied'[Owner[c]] \subseteq q.prior[c]
        <3>1. CASE e = d
            BY <1>3, <1>4, <1>7, <2>1, <2>2, <2>3, <2>5, <2>8, <3>1
        <3>2. CASE e # d
            BY <2>1, <2>4, <2>8, <3>2 DEF DecisionKept
        <3> QED BY <3>1, <3>2
    <2> QED BY <1>9, <2>6, <2>7, <2>8 DEF DecisionKept, Meta!Own
<1>13. CleanRefresh'
    BY <1>9 DEF CleanRefresh, CarriesEach, After, Meta!Carriers
<1> QED BY <1>10, <1>11, <1>12, <1>13 DEF MetaInv

LEMMA CommitPageKeeps ==
    ASSUME MetaInv, NEW d \in Pages, Meta!CommitPage(d)
    PROVE  MetaInv'
<1> USE MetadataAssumption DEF Meta!MetadataAssumption, MetaInv
<1>1. PICK r \in deriving[d] :
        /\ chunkMeta' = [c \in Passages |->
                IF c \in Meta!Own(d) THEN r.meta
                ELSE IF c \in Reuses[d] /\ ~(r.meta \subseteq r.prior[c]) THEN r.prior[c] \cup r.meta
                ELSE chunkMeta[c]]
        /\ cut' = cut \cup {d}
        /\ deriving' = [deriving EXCEPT ![d] = {}]
        /\ clean' = FALSE
        /\ UNCHANGED <<file, docMeta, settled, derivable, applied, refresh, reads>>
    BY DEF Meta!CommitPage
<1>2. r \in Written /\ DOMAIN r.prior = Reuses[d] /\ \A c \in Reuses[d] : Owner[c] \in settled
    BY DEF MetaTyped
<1>3. r.meta \subseteq Values /\ \A c \in Reuses[d] : r.prior[c] \subseteq Values
    BY <1>2 DEF Written, Priors
<1>4. \A c \in Passages : chunkMeta'[c] \subseteq Values
    BY <1>1, <1>3 DEF MetaTyped, Meta!TypeOK
<1>5. \A c \in Passages : chunkMeta'[c] # {} => Owner[c] \in cut'
    BY <1>1, <1>2 DEF MetaTyped, Meta!TypeOK, Meta!Own
<1>6. deriving'[d] = {} /\ \A e \in Pages : e # d => deriving'[e] = deriving[e]
    BY <1>1 DEF MetaTyped
<1>7. MetaTyped'
    <2>1. Meta!TypeOK'
        BY <1>1, <1>4, <1>5, <1>6 DEF MetaTyped, Meta!TypeOK
    <2> QED BY <1>1, <1>6, <2>1 DEF MetaTyped
<1>8. ReadOnlyMore'
    BY <1>1 DEF ReadOnlyMore
<1>9. DecisionKept'
    <2>1. ASSUME NEW e \in cut', docMeta[e] = {}, NEW c \in Meta!Own(e)
          PROVE  applied[e] \subseteq chunkMeta'[c]
        <3>1. c \in Passages /\ Owner[c] = e
            BY DEF Meta!Own
        <3>2. CASE c \in Meta!Own(d)
            BY <1>1, <2>1, <3>1, <3>2 DEF Meta!Own, DecisionKept
        <3>3. CASE c \notin Meta!Own(d) /\ c \in Reuses[d]
            <4>1. e \in cut /\ applied[e] \subseteq chunkMeta[c]
                BY <1>1, <2>1, <3>1, <3>3 DEF Meta!Own, DecisionKept
            <4>2. applied[e] \subseteq r.prior[c]
                BY <2>1, <3>1, <3>3 DEF DecisionKept
            <4> QED BY <1>1, <3>1, <3>3, <4>1, <4>2
        <3>4. CASE c \notin Meta!Own(d) /\ c \notin Reuses[d]
            BY <1>1, <2>1, <3>1, <3>4 DEF Meta!Own, DecisionKept
        <3> QED BY <3>2, <3>3, <3>4
    <2> QED BY <1>1, <1>6, <2>1 DEF DecisionKept, Meta!Own
<1>10. CleanRefresh'
    BY <1>1 DEF CleanRefresh
<1> QED BY <1>7, <1>8, <1>9, <1>10 DEF MetaInv

LEMMA MergedHolds ==
    ASSUME NEW metas \in [Pages -> SUBSET Values], NEW c \in Passages
    PROVE  /\ Meta!Merged(c, metas) \subseteq Values
           /\ \A d \in Meta!Carriers(c) \cap (cut \cup {Owner[c]}) : metas[d] \subseteq Meta!Merged(c, metas)
<1>1. Meta!Carriers(c) \subseteq Pages
    BY MetadataAssumption DEF Meta!MetadataAssumption, Meta!Carriers
<1> QED BY <1>1 DEF Meta!Merged

LEMMA RefreshKeeps ==
    ASSUME MetaInv, Meta!Refresh
    PROVE  MetaInv'
<1> USE MetadataAssumption DEF Meta!MetadataAssumption, MetaInv
<1>1. PICK first \in [Pages -> Passages] :
         /\ \A d \in Pages : Meta!Own(d) # {} => Owner[first[d]] = d
         /\ LET metas == [d \in Pages |-> Meta!Refreshed(d, first[d])]
                made == {c \in Passages : Owner[c] \in cut}
            IN  refresh' = {[docs |-> file,
                             chunks |-> [c \in {x \in made : Meta!Merged(x, metas) # chunkMeta[x]} |->
                                            Meta!Merged(c, metas)]]}
    BY DEF Meta!Refresh
<1> DEFINE metas == [d \in Pages |-> Meta!Refreshed(d, first[d])]
           merged(c) == Meta!Merged(c, metas)
           changed == {c \in Passages : Owner[c] \in cut /\ merged(c) # chunkMeta[c]}
           chunks == [c \in changed |-> merged(c)]
           w == [docs |-> file, chunks |-> chunks]
<1>2. refresh' = {w}
    BY <1>1
<1>3. /\ clean' = TRUE
      /\ UNCHANGED <<file, docMeta, chunkMeta, cut, settled, deriving, derivable, applied, reads>>
    BY DEF Meta!Refresh
<1>4. \A d \in Pages : metas[d] \subseteq Values
    <2> SUFFICES ASSUME NEW d \in Pages PROVE Meta!Refreshed(d, first[d]) \subseteq Values
        OBVIOUS
    <2>1. file \in [Pages -> SUBSET Values] /\ Meta!Known(file) \subseteq Values
        <3>1. file \in [Pages -> FileValues]
            BY DEF MetaTyped, Meta!TypeOK
        <3>2. \A e \in Pages : file[e] \subseteq Values
            BY <3>1
        <3>3. file \in [Pages -> SUBSET Values]
            BY <3>1, <3>2
        <3> QED BY <3>3, KnownAreValues
    <2>2. Meta!Had(d, first[d]) \subseteq Values
        BY DEF MetaTyped, Meta!TypeOK, Meta!Had
    <2>3. Meta!NamedValues(d, Meta!Known(file)) \subseteq Values
        BY <2>1, NamedAreKnown
    <2>4. \A given \in SUBSET Values : Meta!WithParents(given, Meta!Known(file)) \subseteq Values
        BY <2>1, ParentsAdd
    <2>5. file[d] \subseteq Values
        BY <2>1
    <2> QED BY <2>2, <2>3, <2>4, <2>5 DEF Meta!Refreshed
<1>5. \A d \in Pages : file[d] \subseteq metas[d]
    BY ParentsAdd DEF Meta!Refreshed
<1>6. ASSUME NEW c \in Passages
      PROVE  merged(c) \subseteq Values /\ \A d \in Meta!Carriers(c) \cap (cut \cup {Owner[c]}) : metas[d] \subseteq merged(c)
    <2>1. metas \in [Pages -> SUBSET Values]
        BY <1>4
    <2> HIDE DEF metas
    <2> QED BY <2>1, MergedHolds
<1>7. ASSUME NEW c \in Passages, Owner[c] \in cut, file[Owner[c]] = {}
      PROVE  applied[Owner[c]] \subseteq metas[Owner[c]]
    <2> DEFINE d == Owner[c]
               had == Meta!Had(d, first[d]) \cup Meta!NamedValues(d, Meta!Known(file))
    <2>1. c \in Meta!Own(d) /\ d \in Pages /\ docMeta[d] = {}
        BY <1>7 DEF Meta!Own, ReadOnlyMore
    <2>2. applied[d] \subseteq chunkMeta[c]
        BY <1>7, <2>1 DEF DecisionKept
    <2>3. first[d] \in Meta!Own(d)
        BY <1>1, <2>1 DEF Meta!Own
    <2>4. applied[d] \subseteq Meta!Had(d, first[d])
        BY <1>7, <2>1, <2>3 DEF DecisionKept, Meta!Had
    <2>5. CASE chunkMeta[c] = {}
        BY <2>2, <2>5
    <2>6. CASE chunkMeta[c] # {}
        <3>1. metas[d] = Meta!WithParents(had, Meta!Known(file))
            BY <1>7, <2>1, <2>6 DEF Meta!Refreshed
        <3>2. had \subseteq Meta!WithParents(had, Meta!Known(file))
            BY ParentsAdd
        <3> QED BY <2>4, <3>1, <3>2
    <2> QED BY <2>5, <2>6
<1>8. \A c \in changed : c \in Passages /\ Owner[c] \in cut /\ chunks[c] = merged(c)
    OBVIOUS
<1>9. w \in Updates /\ w.docs = file /\ w.chunks = chunks /\ DOMAIN chunks = changed
    <2>1. chunks \in [changed -> SUBSET Values] /\ changed \in SUBSET Passages
        BY <1>6
    <2> HIDE DEF chunks, changed
    <2>2. chunks \in Priors
        BY <2>1 DEF Priors
    <2> USE DEF chunks, changed
    <2> QED BY <2>2 DEF Updates, MetaTyped, Meta!TypeOK
<1> HIDE DEF metas, merged, changed, chunks, w
<1>10. MetaTyped'
    <2>1. Meta!TypeOK'
        BY <1>3 DEF MetaTyped, Meta!TypeOK
    <2> QED BY <1>2, <1>3, <1>8, <1>9, <2>1 DEF MetaTyped
<1>11. ReadOnlyMore'
    BY <1>2, <1>3, <1>9 DEF ReadOnlyMore
<1>12. DecisionKept'
    <2>1. ASSUME NEW c \in changed, file[Owner[c]] = {} PROVE applied[Owner[c]] \subseteq chunks[c]
        <3>1. Owner[c] \in Meta!Carriers(c) \cap (cut \cup {Owner[c]})
            BY <1>8 DEF Meta!Carriers
        <3> QED BY <1>6, <1>7, <1>8, <2>1, <3>1
    <2> QED BY <1>2, <1>3, <1>9, <2>1 DEF DecisionKept, Meta!Own
<1>13. CleanRefresh'
    <2>1. ASSUME NEW c \in Passages, Owner[c] \in cut, NEW d \in Meta!Carriers(c) \cap cut
          PROVE  file[d] \subseteq (IF c \in changed THEN chunks[c] ELSE chunkMeta[c])
        <3>1. d \in Pages /\ file[d] \subseteq merged(c)
            BY <1>5, <1>6, <2>1 DEF MetaTyped
        <3>2. c \notin changed => merged(c) = chunkMeta[c]
            BY <2>1 DEF changed
        <3> QED BY <1>8, <3>1, <3>2
    <2>2. ASSUME NEW v \in refresh' PROVE v.docs = file' /\ CarriesEach(v.docs, After(v))'
        <3>1. v.docs = file /\ v.chunks = chunks
            BY <1>2, <1>9
        <3> QED BY <1>3, <1>9, <2>1, <3>1 DEF CarriesEach, After, Meta!Carriers
    <2> QED BY <1>2, <2>2 DEF CleanRefresh
<1> QED BY <1>10, <1>11, <1>12, <1>13 DEF MetaInv

LEMMA ApplyKeeps ==
    ASSUME MetaInv, Meta!Apply
    PROVE  MetaInv'
<1> USE MetadataAssumption DEF Meta!MetadataAssumption, MetaInv
<1>1. PICK w \in refresh :
        /\ docMeta' = w.docs
        /\ chunkMeta' = After(w)
        /\ refresh' = {}
        /\ UNCHANGED <<file, cut, settled, deriving, derivable, applied, reads, clean>>
    BY DEF Meta!Apply, After
<1>2. w \in Updates /\ \A c \in DOMAIN w.chunks : Owner[c] \in cut /\ w.chunks[c] \subseteq Values
    BY DEF MetaTyped, Updates, Priors
<1>3. \A d \in Pages : docMeta[d] \subseteq docMeta'[d] /\ docMeta'[d] \subseteq file[d]
    BY <1>1 DEF ReadOnlyMore
<1>4. MetaTyped'
    <2>1. \A c \in Passages : chunkMeta'[c] = (IF c \in DOMAIN w.chunks THEN w.chunks[c] ELSE chunkMeta[c])
        BY <1>1 DEF After
    <2>2. chunkMeta' \in [Passages -> SUBSET Values]
        BY <1>1, <1>2 DEF After, MetaTyped, Meta!TypeOK
    <2>3. Meta!TypeOK'
        BY <1>1, <1>2, <2>1, <2>2 DEF MetaTyped, Meta!TypeOK, Updates
    <2> QED BY <1>1, <2>3 DEF MetaTyped
<1>5. ReadOnlyMore'
    BY <1>1, <1>3 DEF ReadOnlyMore
<1>6. DecisionKept'
    <2>1. ASSUME NEW d \in cut, docMeta'[d] = {}, NEW c \in Meta!Own(d)
          PROVE  applied[d] \subseteq chunkMeta'[c]
        <3>1. c \in Passages /\ Owner[c] = d /\ d \in Pages /\ docMeta[d] = {}
            BY <1>3, <2>1 DEF Meta!Own
        <3> QED BY <1>1, <2>1, <3>1 DEF DecisionKept, After
    <2>2. \A d \in Pages : \A c \in Reuses[d] : Owner[c] \in Pages
        OBVIOUS
    <2> QED BY <1>1, <1>3, <2>1, <2>2 DEF DecisionKept, Meta!Own
<1>7. CleanRefresh'
    BY <1>1 DEF CleanRefresh, CarriesEach, Meta!Carriers
<1> QED BY <1>4, <1>5, <1>6, <1>7 DEF MetaInv

(* Steps that touch none of the values: a run that finishes, a parser that    *)
(* comes to read more.                                                        *)
LEMMA OthersKeep ==
    ASSUME MetaInv, Meta!FinishRun \/ (\E d \in Pages : Meta!ReadMore(d)) \/ UNCHANGED metaVars
    PROVE  MetaInv'
<1> USE MetadataAssumption DEF Meta!MetadataAssumption, MetaInv
<1>1. CASE Meta!FinishRun
    <2>1. /\ settled' = cut /\ \A d \in Pages : deriving[d] = {}
          /\ UNCHANGED <<file, docMeta, chunkMeta, cut, deriving, derivable, applied, refresh, reads, clean>>
        BY <1>1 DEF Meta!FinishRun
    <2>2. MetaTyped'
        BY <2>1 DEF MetaTyped, Meta!TypeOK
    <2> QED BY <2>1, <2>2
            DEF MetaInv, ReadOnlyMore, DecisionKept, CleanRefresh, CarriesEach, After, Meta!Own, Meta!Carriers
<1>2. ASSUME NEW d \in Pages, Meta!ReadMore(d) PROVE MetaInv'
    <2>1. PICK vs \in FileValues : file[d] \subseteq vs /\ file' = [file EXCEPT ![d] = vs]
        BY <1>2 DEF Meta!ReadMore
    <2>2. /\ reads < MaxReads /\ reads' = reads + 1 /\ clean' = FALSE
          /\ UNCHANGED <<docMeta, chunkMeta, cut, settled, deriving, derivable, applied, refresh>>
        BY <1>2 DEF Meta!ReadMore
    <2>3. file' \in [Pages -> FileValues] /\ \A e \in Pages : file[e] \subseteq file'[e]
        BY <2>1 DEF MetaTyped, Meta!TypeOK
    <2>4. reads' \in 0..MaxReads
        BY <2>2 DEF MetaTyped, Meta!TypeOK
    <2>5. MetaTyped'
        BY <2>2, <2>3, <2>4 DEF MetaTyped, Meta!TypeOK
    <2>6. ReadOnlyMore'
        BY <2>2, <2>3 DEF ReadOnlyMore
    <2> QED BY <2>2, <2>5, <2>6 DEF MetaInv, DecisionKept, CleanRefresh, Meta!Own
<1>3. CASE UNCHANGED metaVars
    BY <1>3 DEF metaVars, MetaInv, MetaTyped, Meta!TypeOK, ReadOnlyMore, DecisionKept, CleanRefresh,
                CarriesEach, After, Meta!Own, Meta!Carriers
<1> QED BY <1>1, <1>2, <1>3

LEMMA MetadataKeeps == MetaInv /\ [NextChunks \/ NextMetadata]_sideVars => MetaInv'
<1> SUFFICES ASSUME MetaInv, [NextChunks \/ NextMetadata]_sideVars PROVE MetaInv'
    OBVIOUS
<1>1. CASE NextMetadata
    BY <1>1, ReadPageKeeps, CommitPageKeeps, RefreshKeeps, ApplyKeeps, OthersKeep DEF NextMetadata, Meta!Next
<1>2. CASE NextChunks \/ UNCHANGED sideVars
    BY <1>2, OthersKeep DEF NextChunks, sideVars
<1> QED BY <1>1, <1>2

LEMMA MetadataInvariant == SidesSpec => []MetaInv
<1>1. InitSides => MetaInv
    BY MetadataStarts DEF InitSides
<1> QED BY <1>1, MetadataKeeps, PTL DEF SidesSpec

(* refresh_meta.py "an earlier Jev decision is kept, never re-asked": for any  *)
(* documents that share chunks, with any number segmented at once, parsers    *)
(* that come to read more and a refresh computed at any moment and written at *)
(* any later one.                                                             *)
THEOREM DecisionsOutlastRefreshes == SidesSpec => []JevDecisionsStay
<1>1. MetaInv => JevDecisionsStay
    BY DEF MetaInv, MetaTyped, DecisionKept, JevDecisionsStay, Meta!JevDecisionsStay
<1> QED BY <1>1, MetadataInvariant, PTL

(* refresh_meta.py "A chunk reused by several documents carries the metadata  *)
(* of each", once a refresh nothing interfered with was written.              *)
THEOREM RefreshRestoresEach == SidesSpec => []ChunksCarryEach
<1>1. MetaInv => ChunksCarryEach
    BY DEF MetaInv, CleanRefresh, CarriesEach, ChunksCarryEach, Meta!ChunksCarryEach
<1> QED BY <1>1, MetadataInvariant, PTL

-----------------------------------------------------------------------------
(* Corpus.  Its properties hold of histories like these: no file goes back to *)
(* an earlier text (s1_ingest.py:199 would not have it segmented again); a    *)
(* text of two files is the first of each, and what ingest depends on does    *)
(* not change, so that no duplicate is ingested twice (s1_ingest.py:156 takes *)
(* the original for a duplicate then); documents are cut again once, and one  *)
(* at a time (s2_segment.py:252 uses what it read before; of a third cut see  *)
(* s2_segment.py:295).                                                        *)
NoTextReturns ==
    \A f \in Files : \A m, n \in DOMAIN Versions[f] :
        Versions[f][m] = Versions[f][n] /\ Versions[f][m] # NoText => m = n

Shared(d) == \E e \in Docs : e # d /\ e[2] = d[2]

SharedReadOnce ==
    \A f \in Files : \A n \in DOMAIN Versions[f] : Shared(<<f, Versions[f][n]>>) =>
        /\ \A m \in DOMAIN Versions[f] : m < n => Versions[f][m] = NoText
        /\ \A v, w \in DOMAIN Sections : IngestDeps[v] = IngestDeps[w]

CutAgainOnce == DOMAIN Sections \subseteq {1, 2} /\ (2 \in DOMAIN Sections => Workers[2] = 1)

PlainHistory == NoTextReturns /\ SharedReadOnce /\ CutAgainOnce

-----------------------------------------------------------------------------
(* The inductive invariant. *)

(* The registry's version of the segmentation is what the ledger compares.    *)
UpToDateSegment(d) == segmented[d] = SegmentDeps[registry]

CorpusTyped ==
    /\ TypeOK
    /\ at = [f \in Files |-> at[f]] /\ ingested = [f \in Files |-> ingested[f]]
    /\ uses = [d \in Docs |-> uses[d]] /\ reusing = [d \in Docs |-> reusing[d]]
    /\ \A d \in Docs : segmented[d] \in {0} \cup {SegmentDeps[v] : v \in 1..registry}

(* Files only go on, and so do the documents of a file: t is version k of     *)
(* file f, or an earlier one.                                                 *)
UpTo(f, t, k) == \A n \in DOMAIN Versions[f] : Versions[f][n] = t => n <= k

DocsInOrder ==
    \A d \in Docs : doc[d] # "absent" =>
        UpTo(d[1], d[2], at[d[1]]) /\ (doc[d] = "superseded" => UpTo(d[1], d[2], at[d[1]] - 1))

ReadInOrder ==
    \A f \in Files : reading[f] # Idle =>
        /\ reading[f].text \in TextsOf(f)
        /\ \A n \in DOMAIN Versions[f] : Versions[f][n] = reading[f].text =>
               /\ n <= at[f]
               /\ \A d \in Docs : d[1] = f /\ doc[d] # "absent" =>
                      UpTo(f, d[2], n) /\ (doc[d] = "superseded" => UpTo(f, d[2], n - 1))

ItemsInOrder == phase = "ingest" => \A i \in todo : UpTo(i[1], i[2], at[i[1]])

InOrder == DocsInOrder /\ ReadInOrder /\ ItemsInOrder

(* What is read belongs to an item of the stage that runs.                    *)
ItemsInHand ==
    /\ phase = "idle" => todo = {}
    /\ phase = "ingest" => \A i, j \in todo : i[1] = j[1] => i = j
    /\ \A f \in Files : reading[f] # Idle => phase = "ingest" /\ \E i \in todo : i[1] = f
    /\ phase = "segment" => \A d \in todo : doc[d] = "accepted" /\ ~UpToDateSegment(d)
    /\ \A d \in Docs : reusing[d] # Idle => phase = "segment" /\ d \in todo /\ segmented[d] = 0
    /\ IsFiniteSet({d \in Docs : reusing[d] # Idle})
    /\ registry # 1 => \A d, e \in Docs : reusing[d] # Idle /\ reusing[e] # Idle => d = e

(* A text of two files is ingested once, so a document's status stays.        *)
IngestedOnce ==
    /\ \A f \in Files : Shared(<<f, Text(f)>>) =>
           \/ doc[<<f, Text(f)>>] = "absent"
           \/ ingested[f] = Hash(<<f, Text(f)>>) /\ (phase = "ingest" => \A i \in todo : i[1] # f)
    /\ \A f \in Files : reading[f] # Idle =>
           /\ Shared(<<f, reading[f].text>>) => doc[<<f, reading[f].text>>] = "absent"
           /\ reading[f].dup = "yes" => Shared(<<f, reading[f].text>>)
    /\ \A d \in Docs : doc[d] = "accepted" => d[2] \notin OutOfScope

(* Chunks and occurrences, between segmentations too.                         *)
AnyPart(d) == UNION {Sections[v][d[2]] : v \in DOMAIN Sections}

GraphStands ==
    /\ \A c \in Chunks : Live(c) => doc[chunk[c].owner] = "accepted"
    /\ \A d \in Docs : \A x \in Parts : uses[d][x] # NoChunk =>
           /\ Says(uses[d][x], x) /\ x \in AnyPart(d)
           /\ doc[d] \in {"accepted", "superseded"}
           /\ doc[d] = "accepted" =>
                Live(uses[d][x]) /\ (chunk[uses[d][x]].owner # d \/ SaysTwice(d, Wording[x]))
    /\ \A d \in Docs : segmented[d] # 0 => doc[d] \in {"accepted", "superseded"}

(* A chunk leaves the document that made it when that is replaced, or cut     *)
(* again; before a second version nothing is cut again.                       *)
MadeByOwner ==
    /\ \A c \in Chunks : chunk[c].owner # c[1] =>
           doc[c[1]] = "superseded" \/ (registry # 1 /\ UpToDateSegment(c[1]))
    /\ registry = 1 =>
           /\ \A c \in Chunks : Live(c) => segmented[chunk[c].owner] # 0
           /\ \A d \in Docs : \A x \in Parts : uses[d][x] # NoChunk => segmented[d] # 0

CarriesItsSections(d) ==
    /\ \A x \in Parts : uses[d][x] # NoChunk => x \in SectionsOf(d)
    /\ \A x \in SectionsOf(d) : uses[d][x] = NoChunk =>
           \E c \in Chunks : Says(c, x) /\ Live(c) /\ chunk[c].owner = d
    /\ \A c \in Chunks : Live(c) /\ chunk[c].owner = d /\ ~SaysTwice(d, Wording[c[2]]) =>
           /\ \E x \in SectionsOf(d) : Says(c, x) /\ uses[d][x] = NoChunk
           /\ \A e \in Chunks : Live(e) /\ chunk[e].owner = d /\ Says(e, c[2]) => e = c

CutAsRegistered == \A d \in Docs : doc[d] = "accepted" /\ UpToDateSegment(d) => CarriesItsSections(d)

(* What a segmentation task has found is still there.                         *)
FoundIsThere ==
    \A d \in Docs : reusing[d] # Idle => \A x \in Parts : reusing[d][x] # NoChunk =>
        /\ x \in SectionsOf(d) /\ Says(reusing[d][x], x)
        /\ Live(reusing[d][x]) /\ chunk[reusing[d][x]].owner # d

CorpusInv ==
    CorpusTyped /\ InOrder /\ ItemsInHand /\ IngestedOnce /\ GraphStands /\ MadeByOwner
    /\ CutAsRegistered /\ FoundIsThere

-----------------------------------------------------------------------------
(* Documents, and what retiring chunks does to one chunk and one occurrence.  *)

LEMMA DocParts ==
    ASSUME NEW d \in Docs
    PROVE  /\ d[1] \in Files /\ d[2] \in TextsOf(d[1]) /\ d[2] \in Texts /\ d[2] # NoText
           /\ d = <<d[1], d[2]>> /\ \E n \in DOMAIN Versions[d[1]] : Versions[d[1]][n] = d[2]
BY DEF Docs, TextsOf, Texts

LEMMA TextIsDoc ==
    ASSUME NEW f \in Files, NEW n \in DOMAIN Versions[f], Versions[f][n] # NoText
    PROVE  <<f, Versions[f][n]>> \in Docs /\ Versions[f][n] \in Texts
BY DEF Docs, TextsOf, Texts

LEMMA ChunkParts ==
    ASSUME NEW c \in Chunks
    PROVE  c[1] \in Docs /\ c[2] \in Parts /\ c = <<c[1], c[2]>>
BY DEF Chunks

LEMMA Registered ==
    ASSUME TypeOK
    PROVE  /\ registry \in 1..Len(Sections) /\ Len(Sections) \in Nat /\ DOMAIN Sections = 1..Len(Sections)
           /\ 1 \in DOMAIN Sections
           /\ \A v \in DOMAIN Sections : /\ Sections[v] \in [Texts -> SUBSET Parts] /\ SegmentDeps[v] \in Nat \ {0}
                                         /\ IngestDeps[v] \in Nat \ {0} /\ Workers[v] \in Nat \ {0}
           /\ \A d \in Docs : SectionsOf(d) \subseteq Parts /\ SectionsOf(d) \subseteq AnyPart(d)
<1>1. Sections \in Seq([Texts -> SUBSET Parts]) /\ Sections # <<>>
    BY CorpusAssumption DEF CorpusAssumption
<1>2. DOMAIN Sections = 1..Len(Sections) /\ Len(Sections) \in Nat /\ Len(Sections) # 0
    BY <1>1
<1>3. \A v \in DOMAIN Sections : /\ Sections[v] \in [Texts -> SUBSET Parts] /\ SegmentDeps[v] \in Nat \ {0}
                                 /\ IngestDeps[v] \in Nat \ {0} /\ Workers[v] \in Nat \ {0}
    BY <1>1, <1>2, CorpusAssumption DEF CorpusAssumption
<1>4. \A d \in Docs : SectionsOf(d) \subseteq Parts /\ SectionsOf(d) \subseteq AnyPart(d)
    BY <1>3, DocParts DEF SectionsOf, AnyPart, TypeOK
<1> QED BY <1>2, <1>3, <1>4 DEF TypeOK

LEMMA HeirIsHeir ==
    ASSUME NEW c, NEW docs, Heirs(c, docs) # {}
    PROVE  Heir(c, docs) \in Heirs(c, docs) /\ Heir(c, docs) \in Docs /\ docs[Heir(c, docs)] = "accepted"
           /\ PlaceIn(Heir(c, docs), c) \in Parts /\ uses[Heir(c, docs)][PlaceIn(Heir(c, docs), c)] = c
BY DEF Heir, Heirs, PlaceIn

LEMMA Retiring ==
    ASSUME TypeOK, NEW gone \in SUBSET Chunks, NEW docs
    PROVE  /\ RetiredChunks(gone, docs) \in [Chunks -> Rows]
           /\ \A e \in Docs : RetiredUses(gone, docs)[e] \in Occurrences
           /\ RetiredUses(gone, docs) = [e \in Docs |-> RetiredUses(gone, docs)[e]]
<1>1. ASSUME NEW c \in Chunks
      PROVE  RetiredChunks(gone, docs)[c] \in Rows
    <2>1. chunk[c] \in Rows
        BY DEF TypeOK
    <2>2. c \in Moved(gone, docs) => [chunk[c] EXCEPT !.owner = Heir(c, docs)] \in Rows
        BY <2>1, HeirIsHeir DEF Rows, Moved
    <2>3. [chunk[c] EXCEPT !.status = "superseded"] \in Rows
        BY <2>1 DEF Rows
    <2> QED BY <2>1, <2>2, <2>3 DEF RetiredChunks
<1>2. ASSUME NEW e \in Docs
      PROVE  RetiredUses(gone, docs)[e] \in Occurrences
    BY DEF RetiredUses, Occurrences, TypeOK
<1> QED BY <1>1, <1>2 DEF RetiredChunks, RetiredUses

(* A chunk that goes: to an heir, or out of the graph. *)
LEMMA RetiredChunk ==
    ASSUME TypeOK, NEW gone \in SUBSET Chunks, NEW docs, NEW c \in Chunks
    PROVE  LET r == RetiredChunks(gone, docs)[c] IN
           /\ r.settled = chunk[c].settled
           /\ c \notin gone => r = chunk[c]
           /\ c \in gone /\ Heirs(c, docs) # {} =>
                 r.status = chunk[c].status /\ r.owner = Heir(c, docs) /\ r.owner \in Heirs(c, docs)
           /\ c \in gone /\ Heirs(c, docs) = {} => r.status = "superseded" /\ r.owner = chunk[c].owner
<1>1. chunk[c] \in Rows
    BY DEF TypeOK
<1> QED BY <1>1, HeirIsHeir DEF RetiredChunks, Moved, Rows

(* An occurrence goes when its document becomes the owner, unless that has    *)
(* another of the same chunk.                                                 *)
LEMMA RetiredUse ==
    ASSUME TypeOK, NEW gone \in SUBSET Chunks, NEW docs, NEW e \in Docs, NEW x \in Parts
    PROVE  /\ RetiredUses(gone, docs)[e][x] \in {uses[e][x], NoChunk}
           /\ RetiredUses(gone, docs)[e][x] = NoChunk /\ uses[e][x] # NoChunk =>
                 /\ uses[e][x] \in gone /\ Heirs(uses[e][x], docs) # {}
                 /\ RetiredChunks(gone, docs)[uses[e][x]].owner = e /\ docs[e] = "accepted"
           /\ RetiredUses(gone, docs)[e][x] # NoChunk => uses[e][x] \in Chunks
<1> DEFINE c == uses[e][x]
<1>1. c \in Chunks \cup {NoChunk}
    BY DEF TypeOK, Occurrences
<1>2. RetiredUses(gone, docs)[e][x] =
          IF \E b \in Moved(gone, docs) : e = Heir(b, docs) /\ x = PlaceIn(e, b) THEN NoChunk ELSE c
    BY DEF RetiredUses
<1>3. \A b \in Moved(gone, docs) : e = Heir(b, docs) /\ x = PlaceIn(e, b) => b = c
    BY HeirIsHeir DEF Moved
<1>4. c \in Moved(gone, docs) => c \in gone /\ Heirs(c, docs) # {}
    BY DEF Moved
<1>5. c \in gone /\ Heirs(c, docs) # {} => RetiredChunks(gone, docs)[c].owner = Heir(c, docs)
    BY RetiredChunk
<1>6. Heirs(c, docs) # {} => docs[Heir(c, docs)] = "accepted"
    BY HeirIsHeir
<1> HIDE DEF c
<1> QED BY <1>1, <1>2, <1>3, <1>4, <1>5, <1>6 DEF c

(* The place that goes when the document becomes the owner.                   *)
LEMMA PlaceLeaves ==
    ASSUME TypeOK, NEW gone \in SUBSET Chunks, NEW docs, NEW e \in Docs, NEW c \in gone,
           Heirs(c, docs) # {}, RetiredChunks(gone, docs)[c].owner = e
    PROVE  /\ PlaceIn(e, c) \in Parts /\ uses[e][PlaceIn(e, c)] = c
           /\ RetiredUses(gone, docs)[e][PlaceIn(e, c)] = NoChunk
<1>1. e = Heir(c, docs)
    BY RetiredChunk
<1>2. PlaceIn(e, c) \in Parts /\ uses[e][PlaceIn(e, c)] = c
    BY <1>1, HeirIsHeir
<1>3. c \in Moved(gone, docs)
    BY DEF Moved
<1> QED BY <1>1, <1>2, <1>3 DEF RetiredUses

-----------------------------------------------------------------------------
(* Types. *)

LEMMA CorpusStartsTyped == Init => CorpusTyped
<1> SUFFICES ASSUME Init PROVE CorpusTyped
    OBVIOUS
<1>1. Sections \in Seq([Texts -> SUBSET Parts]) /\ Sections # <<>>
    BY CorpusAssumption DEF CorpusAssumption
<1>2. 1 \in DOMAIN Sections
    BY <1>1
<1>3. \A f \in Files : 1 \in DOMAIN Versions[f]
    <2>1. \A f \in Files : Versions[f] \in Seq(Texts \cup {NoText}) /\ Versions[f] # <<>>
        BY CorpusAssumption DEF CorpusAssumption
    <2> QED BY <2>1
<1>4. MaxFaults \in Nat
    BY CorpusAssumption DEF CorpusAssumption
<1>5. \A d \in Docs : uses[d] \in Occurrences /\ reusing[d] = Idle
    BY DEF Init, AllIdle, Occurrences
<1>6. chunk \in [Chunks -> Rows]
    BY ChunkParts DEF Init, Rows
<1>7. reading \in [Files -> Reads \cup {Idle}]
    BY DEF Init, AllIdle
<1>8. at = [f \in Files |-> 1] /\ ingested = [f \in Files |-> NotDone] /\ segmented = [d \in Docs |-> 0]
      /\ uses = [d \in Docs |-> [x \in Parts |-> NoChunk]] /\ reusing = [d \in Docs |-> Idle]
      /\ doc = [d \in Docs |-> "absent"]
    BY DEF Init, AllIdle
<1>9. registry = 1 /\ phase = "idle" /\ todo = {} /\ failed = FALSE /\ faults = 0
    BY DEF Init
<1>10. TypeOK
    <2>1. \A f \in Files : at[f] = 1 /\ ingested[f] \in (Texts \cup {NoText}) \X Nat
        BY <1>8 DEF NotDone
    <2>2. doc \in [Docs -> {"absent", "accepted", "duplicate", "parked", "superseded"}]
        BY <1>8
    <2>3. segmented \in [Docs -> Nat]
        BY <1>8
    <2>4. faults \in 0..MaxFaults /\ todo \subseteq Docs
        BY <1>4, <1>9
    <2> QED BY <1>2, <1>3, <1>5, <1>6, <1>7, <1>9, <2>1, <2>2, <2>3, <2>4 DEF TypeOK
<1>11. \A d \in Docs : segmented[d] = 0
    BY <1>8
<1>12. /\ at = [f \in Files |-> at[f]] /\ ingested = [f \in Files |-> ingested[f]]
       /\ uses = [d \in Docs |-> uses[d]] /\ reusing = [d \in Docs |-> reusing[d]]
    BY <1>8
<1> QED BY <1>10, <1>11, <1>12 DEF CorpusTyped

LEMMA TextTyped ==
    ASSUME TypeOK, NEW f \in Files, Text(f) # NoText
    PROVE  <<f, Text(f)>> \in Docs /\ Text(f) \in Texts
BY TextIsDoc DEF TypeOK, Text

LEMMA FoundTyped ==
    ASSUME TypeOK, NEW d \in Docs
    PROVE  /\ Found(d) \in Occurrences
           /\ \A x \in Parts : Found(d)[x] # NoChunk => x \in SectionsOf(d) /\ Found(d)[x] \in Reusable(d, x)
BY DEF Found, Occurrences, Reusable

LEMMA UpsertedChunk ==
    ASSUME NEW own, NEW rows \in [Chunks -> Rows]
    PROVE  /\ Upserted(own, rows) \in [Chunks -> Rows]
           /\ \A c \in Chunks : LET r == Upserted(own, rows)[c] IN
                 /\ c \notin own => r = rows[c]
                 /\ c \in own => r.status \in {"accepted", "rejected"} /\ r.owner = rows[c].owner
BY DEF Upserted, Rows

LEMMA HashTyped ==
    ASSUME TypeOK, NEW i \in Docs
    PROVE  Hash(i) \in (Texts \cup {NoText}) \X Nat
BY Registered, DocParts DEF Hash

LEMMA LookedFor ==
    ASSUME TypeOK, NEW f \in Files, LookForDuplicate(f)
    PROVE  /\ reading[f] # Idle /\ reading' \in [Files -> Reads \cup {Idle}]
           /\ reading'[f].text = reading[f].text
           /\ reading'[f].dup = "yes" => HasDuplicate(<<f, reading[f].text>>)
           /\ \A g \in Files : g # f => reading'[g] = reading[g]
<1>1. /\ reading[f] # Idle /\ reading \in [Files -> Reads \cup {Idle}]
      /\ reading' = [reading EXCEPT ![f].dup = IF HasDuplicate(<<f, reading[f].text>>) THEN "yes" ELSE "no"]
    BY DEF LookForDuplicate, TypeOK
<1>2. PICK a : a \in {"no", "yes"} /\ (a = "yes" <=> HasDuplicate(<<f, reading[f].text>>))
                 /\ reading' = [reading EXCEPT ![f] = [reading[f] EXCEPT !.dup = a]]
    BY <1>1
<1>3. reading[f] \in Reads
    BY <1>1
<1>4. [reading[f] EXCEPT !.dup = a] \in Reads /\ [reading[f] EXCEPT !.dup = a].text = reading[f].text
      /\ [reading[f] EXCEPT !.dup = a].dup = a
    BY <1>2, <1>3 DEF Reads
<1> QED BY <1>1, <1>2, <1>4

LEMMA TypedKept ==
    ASSUME CorpusTyped, [Next]_vars
    PROVE  CorpusTyped'
<1> USE DEF CorpusTyped
<1>1. ASSUME NEW f \in Files, Edit(f) PROVE CorpusTyped'
    <2>1. Versions[f] \in Seq(Texts \cup {NoText}) /\ at[f] \in DOMAIN Versions[f] /\ at[f] < Len(Versions[f])
        BY <1>1, CorpusAssumption DEF CorpusAssumption, TypeOK, Edit
    <2>2. at[f] + 1 \in DOMAIN Versions[f]
        BY <2>1
    <2> QED BY <1>1, <2>2 DEF Edit, graph, ledger, build, TypeOK
<1>2. ASSUME ChangeRegistry PROVE CorpusTyped'
    <2>1. registry \in Nat
        BY Registered
    <2> QED BY <1>2, <2>1 DEF ChangeRegistry, graph, ledger, build, TypeOK
<1>3. ASSUME NEW given \in SUBSET Files, StartIngest(given) PROVE CorpusTyped'
    <2>1. todo' \subseteq Docs
        BY <1>3, TextTyped DEF StartIngest, ToIngest
    <2> QED BY <1>3, <2>1 DEF StartIngest, graph, ledger, TypeOK
<1>4. ASSUME NEW f \in Files, ReadFile(f) PROVE CorpusTyped'
    <2>1. [text |-> Text(f), dup |-> "not asked"] \in Reads
        BY <1>4, TextTyped DEF ReadFile, Reads
    <2>2. NotDone \in (Texts \cup {NoText}) \X Nat
        BY DEF NotDone
    <2> QED BY <1>4, <2>1, <2>2 DEF ReadFile, graph, TypeOK
<1>5. ASSUME NEW f \in Files, CommitDocument(f) PROVE CorpusTyped'
    <2> DEFINE d == <<f, reading[f].text>>
               old == {e \in Docs : e[1] = f /\ e # d /\ doc[e] # "absent"}
               docs == [e \in Docs |-> IF e \in old THEN "superseded" ELSE doc[e]]
               gone == LiveChunksOf(old)
               status == IF reading[f].dup = "yes" THEN "duplicate"
                         ELSE IF d[2] \in OutOfScope THEN "parked" ELSE "accepted"
    <2>1. PICK i \in todo :
            /\ doc' = [docs EXCEPT ![d] = status]
            /\ chunk' = RetiredChunks(gone, docs)
            /\ uses' = RetiredUses(gone, docs)
            /\ ingested' = [ingested EXCEPT ![f] = Hash(i)]
            /\ todo' = todo \ {i}
            /\ reading' = [reading EXCEPT ![f] = Idle]
            /\ UNCHANGED <<at, registry, segmented, phase, reusing, failed, faults>>
        BY <1>5 DEF CommitDocument
    <2>2. gone \in SUBSET Chunks
        BY DEF LiveChunksOf
    <2>3. doc' \in [Docs -> {"absent", "accepted", "duplicate", "parked", "superseded"}]
        BY <2>1 DEF TypeOK
    <2> HIDE DEF d, old, docs, gone, status
    <2>4. chunk' \in [Chunks -> Rows] /\ (\A e \in Docs : uses'[e] \in Occurrences)
          /\ uses' = [e \in Docs |-> uses'[e]]
        BY <2>1, <2>2, Retiring
    <2>5. Hash(i) \in (Texts \cup {NoText}) \X Nat
        BY HashTyped DEF TypeOK
    <2>6. ingested' = [g \in Files |-> ingested'[g]] /\ \A g \in Files : ingested'[g] \in (Texts \cup {NoText}) \X Nat
        BY <2>1, <2>5 DEF TypeOK
    <2> QED BY <2>1, <2>3, <2>4, <2>6 DEF TypeOK
<1>6. ASSUME NEW f \in Files, FailIngest(f) PROVE CorpusTyped'
    <2>1. NotDone \in (Texts \cup {NoText}) \X Nat
        BY DEF NotDone
    <2>2. faults' \in 0..MaxFaults
        BY <1>6, CorpusAssumption DEF FailIngest, CorpusAssumption, TypeOK
    <2> QED BY <1>6, <2>1, <2>2 DEF FailIngest, graph, TypeOK
<1>7. ASSUME StartSegment \/ StopUpdate PROVE CorpusTyped'
    BY <1>7 DEF StartSegment, StopUpdate, graph, ledger, TypeOK
<1>8. ASSUME NEW d \in Docs, ReadDocument(d) PROVE CorpusTyped'
    BY <1>8, FoundTyped DEF ReadDocument, graph, TypeOK
<1>9. ASSUME NEW d \in Docs, CommitChunks(d) PROVE CorpusTyped'
    <2> DEFINE own == OwnChunks(d)
               stale == LiveChunksOf({d}) \ own
    <2>1. /\ chunk' = Upserted(own, RetiredChunks(stale, doc))
          /\ uses' = [RetiredUses(stale, doc) EXCEPT ![d] = reusing[d]]
          /\ segmented' = [segmented EXCEPT ![d] = SegmentDeps[registry]]
          /\ todo' = todo \ {d}
          /\ reusing' = [reusing EXCEPT ![d] = Idle]
          /\ reusing[d] # Idle
          /\ UNCHANGED <<at, registry, doc, ingested, phase, reading, failed, faults>>
        BY <1>9 DEF CommitChunks
    <2>2. stale \in SUBSET Chunks
        BY DEF LiveChunksOf
    <2> HIDE DEF own, stale
    <2>3. chunk' \in [Chunks -> Rows]
        BY <2>1, <2>2, Retiring, UpsertedChunk
    <2>4. reusing[d] \in Occurrences
        BY <2>1 DEF TypeOK
    <2>5. (\A e \in Docs : uses'[e] \in Occurrences) /\ uses' = [e \in Docs |-> uses'[e]]
        <3> DEFINE u == RetiredUses(stale, doc)
        <3>1. u = [e \in Docs |-> u[e]] /\ \A e \in Docs : u[e] \in Occurrences
            BY <2>2, Retiring
        <3> HIDE DEF u
        <3> QED BY <2>1, <2>4, <3>1 DEF u
    <2>6. /\ segmented' \in [Docs -> Nat]
          /\ \A e \in Docs : segmented'[e] \in {0} \cup {SegmentDeps[v] : v \in 1..registry}
        BY <2>1, Registered DEF TypeOK
    <2> QED BY <2>1, <2>3, <2>5, <2>6 DEF TypeOK
<1>10. ASSUME NEW d \in Docs, FailSegment(d) PROVE CorpusTyped'
    <2>1. faults' \in 0..MaxFaults
        BY <1>10, CorpusAssumption DEF FailSegment, CorpusAssumption, TypeOK
    <2> QED BY <1>10, <2>1 DEF FailSegment, graph, ledger, TypeOK
<1>11. ASSUME FinishSegment PROVE CorpusTyped'
    <2>1. chunk' \in [Chunks -> Rows]
        <3>1. \A c \in Chunks : [chunk[c] EXCEPT !.settled = chunk[c].status # "absent"] \in Rows
            BY DEF TypeOK, Rows
        <3> QED BY <1>11, <3>1 DEF FinishSegment, TypeOK
    <2> QED BY <1>11, <2>1 DEF FinishSegment, TypeOK
<1>12. ASSUME Crash PROVE CorpusTyped'
    <2>1. faults' \in 0..MaxFaults
        BY <1>12, CorpusAssumption DEF Crash, CorpusAssumption, TypeOK
    <2> QED BY <1>12, <2>1 DEF Crash, graph, ledger, TypeOK
<1>13. ASSUME UNCHANGED vars PROVE CorpusTyped'
    BY <1>13 DEF vars, graph, ledger, build, TypeOK
<1>14. ASSUME NEW f \in Files, LookForDuplicate(f) PROVE CorpusTyped'
    <2>1. reading' \in [Files -> Reads \cup {Idle}]
        BY <1>14, LookedFor
    <2> QED BY <1>14, <2>1 DEF LookForDuplicate, graph, ledger, TypeOK
<1> QED BY <1>1, <1>2, <1>3, <1>4, <1>5, <1>6, <1>7, <1>8, <1>9, <1>10, <1>11, <1>12, <1>13, <1>14
        DEF Next, StageStep

-----------------------------------------------------------------------------
(* Ingest. *)

LEMMA Positions ==
    ASSUME TypeOK, NEW f \in Files
    PROVE  /\ at[f] \in Nat /\ at[f] \in DOMAIN Versions[f] /\ DOMAIN Versions[f] \subseteq Nat
           /\ \A t \in TextsOf(f) : t # NoText /\ \E n \in DOMAIN Versions[f] : Versions[f][n] = t
<1>1. Versions[f] \in Seq(Texts \cup {NoText})
    BY CorpusAssumption DEF CorpusAssumption
<1>2. DOMAIN Versions[f] \subseteq Nat
    BY <1>1
<1> QED BY <1>2 DEF TypeOK, TextsOf

(* What a file's ingest writes to documents: the old ones go for good, and a  *)
(* document that is accepted stays so.                                        *)
LEMMA CommittedDoc ==
    ASSUME CorpusTyped, InOrder, IngestedOnce, NEW f \in Files, CommitDocument(f)
    PROVE  LET d == <<f, reading[f].text>> IN
           /\ d \in Docs /\ reading[f] # Idle /\ doc[d] # "superseded"
           /\ doc'[d] \in {"accepted", "duplicate", "parked"}
           /\ doc[d] = "accepted" => doc'[d] = "accepted"
           /\ doc'[d] = "accepted" => d[2] \notin OutOfScope
           /\ \A e \in Docs : e # d =>
                 doc'[e] = IF e[1] = f /\ doc[e] # "absent" THEN "superseded" ELSE doc[e]
<1> USE DEF CorpusTyped
<1> DEFINE d == <<f, reading[f].text>>
           old == {e \in Docs : e[1] = f /\ e # d /\ doc[e] # "absent"}
           docs == [e \in Docs |-> IF e \in old THEN "superseded" ELSE doc[e]]
           status == IF reading[f].dup = "yes" THEN "duplicate"
                     ELSE IF d[2] \in OutOfScope THEN "parked" ELSE "accepted"
<1>1. reading[f] # Idle /\ doc' = [docs EXCEPT ![d] = status]
    BY DEF CommitDocument
<1>2. d \in Docs /\ d[1] = f /\ d[2] = reading[f].text
    BY <1>1, Positions, TextIsDoc DEF InOrder, ReadInOrder
<1>3. doc[d] # "superseded"
    <2>1. PICK n \in DOMAIN Versions[f] : Versions[f][n] = d[2]
        BY <1>1, <1>2, Positions DEF InOrder, ReadInOrder
    <2>2. n \in Nat
        BY Positions
    <2>3. ASSUME doc[d] = "superseded" PROVE FALSE
        <3>1. UpTo(f, d[2], n - 1)
            BY <1>1, <1>2, <2>1, <2>3 DEF InOrder, ReadInOrder
        <3> QED BY <2>1, <2>2, <3>1 DEF UpTo
    <2> QED BY <2>3
<1>4. doc'[d] = status
    BY <1>1, <1>2
<1>5. doc[d] = "accepted" => status = "accepted"
    BY <1>1, <1>2 DEF IngestedOnce
<1>6. \A e \in Docs : e # d => doc'[e] = IF e[1] = f /\ doc[e] # "absent" THEN "superseded" ELSE doc[e]
    BY <1>1
<1> HIDE DEF d
<1> QED BY <1>1, <1>2, <1>3, <1>4, <1>5, <1>6 DEF d

LEMMA InOrderKept ==
    ASSUME CorpusTyped, InOrder, IngestedOnce, ItemsInHand, NoTextReturns, [Next]_vars
    PROVE  InOrder'
<1> USE DEF CorpusTyped
<1>1. ASSUME NEW f \in Files, Edit(f) PROVE InOrder'
    <2>1. UNCHANGED <<doc, reading, todo, phase>> /\ at' = [at EXCEPT ![f] = @ + 1]
        BY <1>1 DEF Edit, graph, build
    <2>2. \A g \in Files : at[g] \in Nat /\ at'[g] \in Nat /\ at[g] <= at'[g] /\ DOMAIN Versions[g] \subseteq Nat
        BY <2>1, Positions
    <2>3. \A d \in Docs : d[1] \in Files
        BY DocParts
    <2>4. \A g \in Files : \A t : /\ UpTo(g, t, at[g]) => UpTo(g, t, at'[g])
                                  /\ UpTo(g, t, at[g] - 1) => UpTo(g, t, at'[g] - 1)
        BY <2>2 DEF UpTo
    <2>5. DocsInOrder'
        BY <2>1, <2>3, <2>4 DEF InOrder, DocsInOrder, UpTo
    <2>6. ReadInOrder'
        BY <2>1, <2>2 DEF InOrder, ReadInOrder, UpTo
    <2>7. ItemsInOrder'
        BY <2>1, <2>3, <2>4 DEF InOrder, ItemsInOrder, UpTo, TypeOK
    <2> QED BY <2>5, <2>6, <2>7 DEF InOrder
<1>2. ASSUME NEW given \in SUBSET Files, StartIngest(given) PROVE InOrder'
    <2>1. UNCHANGED <<doc, reading, at>> /\ todo' = {<<f, Text(f)>> : f \in ToIngest(given)}
        BY <1>2 DEF StartIngest, graph
    <2>2. ASSUME NEW f \in ToIngest(given) PROVE UpTo(f, Text(f), at[f])
        BY Positions DEF ToIngest, Text, UpTo, NoTextReturns
    <2>3. ItemsInOrder'
        BY <2>1, <2>2 DEF ItemsInOrder, UpTo
    <2> QED BY <2>1, <2>3 DEF InOrder, DocsInOrder, ReadInOrder, UpTo
<1>3. ASSUME NEW f \in Files, ReadFile(f) PROVE InOrder'
    <2>1. UNCHANGED <<doc, todo, phase, at>> /\ Text(f) # NoText
          /\ reading' = [reading EXCEPT ![f] = [text |-> Text(f), dup |-> "not asked"]]
        BY <1>3 DEF ReadFile, graph
    <2>2. \A n \in DOMAIN Versions[f] : Versions[f][n] = Text(f) => n = at[f]
        BY <2>1, Positions DEF Text, NoTextReturns
    <2>3. Text(f) \in TextsOf(f)
        BY <2>1, Positions DEF Text, TextsOf
    <2>4. reading'[f].text = Text(f) /\ \A g \in Files : g # f => reading'[g] = reading[g]
        BY <2>1 DEF TypeOK
    <2>5. \A d \in Docs : d[1] = f /\ doc[d] # "absent" =>
              UpTo(f, d[2], at[f]) /\ (doc[d] = "superseded" => UpTo(f, d[2], at[f] - 1))
        BY DEF InOrder, DocsInOrder
    <2>6. at[f] \in Nat
        BY Positions
    <2>7. ReadInOrder'
        <3>1. ASSUME NEW n \in DOMAIN Versions[f], Versions[f][n] = reading'[f].text
              PROVE  /\ n <= at[f]
                     /\ \A d \in Docs : d[1] = f /\ doc[d] # "absent" =>
                            UpTo(f, d[2], n) /\ (doc[d] = "superseded" => UpTo(f, d[2], n - 1))
            BY <2>2, <2>4, <2>5, <2>6, <3>1
        <3>2. ASSUME NEW g \in Files, g # f, reading'[g] # Idle
              PROVE  /\ reading'[g].text \in TextsOf(g)
                     /\ \A n \in DOMAIN Versions[g] : Versions[g][n] = reading'[g].text =>
                            /\ n <= at[g]
                            /\ \A d \in Docs : d[1] = g /\ doc[d] # "absent" =>
                                   UpTo(g, d[2], n) /\ (doc[d] = "superseded" => UpTo(g, d[2], n - 1))
            BY <2>4, <3>2 DEF InOrder, ReadInOrder
        <3>3. \A g, t, k : UpTo(g, t, k)' <=> UpTo(g, t, k)
            BY DEF UpTo
        <3> SUFFICES ASSUME NEW g \in Files, reading'[g] # Idle
                     PROVE  /\ reading'[g].text \in TextsOf(g)
                            /\ \A n \in DOMAIN Versions[g] : Versions[g][n] = reading'[g].text =>
                                   /\ n <= at[g]
                                   /\ \A d \in Docs : d[1] = g /\ doc[d] # "absent" =>
                                          UpTo(g, d[2], n) /\ (doc[d] = "superseded" => UpTo(g, d[2], n - 1))
            BY <2>1, <3>3 DEF ReadInOrder
        <3> QED BY <2>3, <2>4, <3>1, <3>2
    <2>8. DocsInOrder' /\ ItemsInOrder'
        BY <2>1 DEF InOrder, DocsInOrder, ItemsInOrder, UpTo
    <2> QED BY <2>7, <2>8 DEF InOrder
<1>4. ASSUME NEW f \in Files, CommitDocument(f) PROVE InOrder'
    <2> DEFINE d == <<f, reading[f].text>>
    <2>1. /\ d \in Docs /\ reading[f] # Idle
          /\ doc'[d] \in {"accepted", "duplicate", "parked"}
          /\ \A e \in Docs : e # d =>
                 doc'[e] = IF e[1] = f /\ doc[e] # "absent" THEN "superseded" ELSE doc[e]
        BY <1>4, CommittedDoc
    <2>2. /\ UNCHANGED <<at, phase>> /\ todo' \subseteq todo
          /\ reading' = [reading EXCEPT ![f] = Idle]
        BY <1>4 DEF CommitDocument
    <2>3. d[1] = f /\ d[2] = reading[f].text
        OBVIOUS
    <2>4. PICK n \in DOMAIN Versions[f] : Versions[f][n] = d[2]
        BY <2>1, <2>3, DocParts
    <2>5. n <= at[f] /\ n \in Nat /\ at[f] \in Nat /\ UpTo(f, d[2], at[f])
        BY <2>1, <2>4, Positions DEF InOrder, ReadInOrder, UpTo
    <2> HIDE DEF d
    <2>6. ASSUME NEW e \in Docs, e[1] = f, e # d, doc[e] # "absent"
          PROVE  UpTo(f, e[2], at[f] - 1)
        <3>1. e[2] # d[2]
            BY <2>1, <2>3, <2>6, DocParts
        <3>2. UpTo(f, e[2], n)
            BY <2>1, <2>3, <2>4, <2>6 DEF InOrder, ReadInOrder
        <3>3. DOMAIN Versions[f] \subseteq Nat
            BY Positions
        <3> QED BY <2>4, <2>5, <3>1, <3>2, <3>3 DEF UpTo
    <2>7. DocsInOrder'
        <3>1. ASSUME NEW e \in Docs, doc'[e] # "absent"
              PROVE  UpTo(e[1], e[2], at[e[1]]) /\ (doc'[e] = "superseded" => UpTo(e[1], e[2], at[e[1]] - 1))
            <4>1. CASE e = d
                BY <2>1, <2>3, <2>5, <4>1
            <4>2. CASE e # d /\ e[1] = f /\ doc[e] # "absent"
                <5>1. UpTo(f, e[2], at[f])
                    BY <4>2 DEF InOrder, DocsInOrder
                <5> QED BY <2>6, <4>2, <5>1
            <4>3. CASE e # d /\ ~(e[1] = f /\ doc[e] # "absent")
                BY <2>1, <3>1, <4>3 DEF InOrder, DocsInOrder
            <4> QED BY <4>1, <4>2, <4>3
        <3> QED BY <2>2, <3>1 DEF DocsInOrder, UpTo
    <2>8. ReadInOrder'
        <3>1. reading'[f] = Idle /\ \A g \in Files : g # f => reading'[g] = reading[g]
            BY <2>2 DEF TypeOK
        <3>2. \A e \in Docs : e[1] # f => doc'[e] = doc[e]
            BY <2>1, <2>3
        <3> QED BY <2>2, <3>1, <3>2 DEF InOrder, ReadInOrder, UpTo
    <2>9. ItemsInOrder'
        BY <2>2 DEF InOrder, ItemsInOrder, UpTo
    <2> QED BY <2>7, <2>8, <2>9 DEF InOrder
<1>5. ASSUME NEW f \in Files, FailIngest(f) PROVE InOrder'
    <2>1. UNCHANGED <<doc, at, phase>> /\ todo' \subseteq todo /\ reading' = [reading EXCEPT ![f] = Idle]
        BY <1>5 DEF FailIngest, graph
    <2>2. reading'[f] = Idle /\ \A g \in Files : g # f => reading'[g] = reading[g]
        BY <2>1 DEF TypeOK
    <2> QED BY <2>1, <2>2 DEF InOrder, DocsInOrder, ReadInOrder, ItemsInOrder, UpTo
<1>6. ASSUME UNCHANGED <<at, doc>>, reading' = reading \/ reading' = [f \in Files |-> Idle],
             phase' # "ingest" \/ UNCHANGED <<phase, todo>>
      PROVE  InOrder'
    BY <1>6 DEF InOrder, DocsInOrder, ReadInOrder, ItemsInOrder, UpTo
<1>7. ASSUME \/ ChangeRegistry \/ StartSegment \/ StopUpdate \/ FinishSegment \/ Crash \/ UNCHANGED vars
             \/ \E d \in Docs : ReadDocument(d) \/ CommitChunks(d) \/ FailSegment(d)
      PROVE  InOrder'
    BY <1>6, <1>7 DEF ChangeRegistry, StartSegment, StopUpdate, FinishSegment, Crash, ReadDocument, CommitChunks,
                      FailSegment, vars, graph, ledger, build
<1>8. ASSUME NEW f \in Files, LookForDuplicate(f) PROVE InOrder'
    <2>1. UNCHANGED <<doc, todo, phase, at>>
        BY <1>8 DEF LookForDuplicate, graph
    <2>2. /\ reading[f] # Idle /\ reading'[f].text = reading[f].text
          /\ \A g \in Files : g # f => reading'[g] = reading[g]
        BY <1>8, LookedFor
    <2>3. DocsInOrder'
        BY <2>1 DEF InOrder, DocsInOrder, UpTo
    <2>4. \A g \in Files : reading'[g] # Idle => reading[g] # Idle /\ reading'[g].text = reading[g].text
        BY <2>2
    <2>5. ReadInOrder'
        BY <2>1, <2>4 DEF InOrder, ReadInOrder, UpTo
    <2>6. ItemsInOrder'
        BY <2>1 DEF InOrder, ItemsInOrder, UpTo
    <2> QED BY <2>3, <2>5, <2>6 DEF InOrder
<1> QED BY <1>1, <1>2, <1>3, <1>4, <1>5, <1>7, <1>8 DEF Next, StageStep

LEMMA SharedIsFirst ==
    ASSUME TypeOK, SharedReadOnce, NEW f \in Files, Shared(<<f, Text(f)>>)
    PROVE  /\ <<f, Text(f)>> \in Docs
           /\ \A t \in TextsOf(f) : UpTo(f, t, at[f]) => t = Text(f)
<1>1. Text(f) # NoText
    BY DocParts DEF Shared
<1>2. at[f] \in DOMAIN Versions[f] /\ at[f] \in Nat /\ DOMAIN Versions[f] \subseteq Nat
    BY Positions
<1>3. ASSUME NEW t \in TextsOf(f), UpTo(f, t, at[f]) PROVE t = Text(f)
    <2>1. PICK n \in DOMAIN Versions[f] : Versions[f][n] = t /\ t # NoText
        BY Positions
    <2>2. n <= at[f]
        BY <1>3, <2>1 DEF UpTo
    <2>3. ~(n < at[f])
        BY <1>2, <2>1 DEF SharedReadOnce, Text
    <2> QED BY <1>2, <2>1, <2>2, <2>3 DEF Text
<1> QED BY <1>1, <1>3, TextTyped

LEMMA IngestedOnceKept ==
    ASSUME CorpusTyped, InOrder, IngestedOnce, ItemsInHand, NoTextReturns, SharedReadOnce, [Next]_vars
    PROVE  IngestedOnce'
<1> USE DEF CorpusTyped
<1>1. \A f \in Files : Shared(<<f, Text(f)>>) => <<f, Text(f)>> \in Docs
    BY SharedIsFirst
<1>2. ASSUME NEW f \in Files, Edit(f) PROVE IngestedOnce'
    <2>1. UNCHANGED <<doc, reading, todo, phase, ingested, registry>> /\ at' = [at EXCEPT ![f] = @ + 1]
        BY <1>2 DEF Edit, graph, build, ledger
    <2>2. ASSUME Shared(<<f, Versions[f][at'[f]]>>) PROVE doc[<<f, Versions[f][at'[f]]>>] = "absent"
        <3> DEFINE d == <<f, Versions[f][at'[f]]>>
        <3>1. at[f] \in Nat /\ at'[f] = at[f] + 1 /\ at'[f] \in DOMAIN Versions[f]
            BY <1>2, <2>1, Positions, TypedKept DEF Next, TypeOK
        <3>2. d[2] # NoText
            BY <2>2, DocParts DEF Shared
        <3>3. d \in Docs
            BY <3>1, <3>2, TextIsDoc
        <3>4. doc[d] # "absent" => at'[f] <= at[f]
            BY <3>1, <3>3 DEF InOrder, DocsInOrder, UpTo
        <3> QED BY <3>1, <3>4
    <2>3. \A g \in Files : g # f => at'[g] = at[g]
        BY <2>1
    <2> QED BY <2>1, <2>2, <2>3 DEF IngestedOnce, Text, Hash
<1>3. ASSUME NEW given \in SUBSET Files, StartIngest(given) PROVE IngestedOnce'
    <2>1. UNCHANGED <<doc, reading, at, ingested, registry>> /\ todo' = {<<f, Text(f)>> : f \in ToIngest(given)}
          /\ phase = "idle"
        BY <1>3 DEF StartIngest, graph, ledger
    <2>2. \A f \in Files : ingested[f] = Hash(<<f, Text(f)>>) => f \notin ToIngest(given)
        BY DEF ToIngest
    <2>3. \A f \in Files : f \notin ToIngest(given) => \A i \in todo' : i[1] # f
        BY <2>1
    <2> QED BY <2>1, <2>2, <2>3 DEF IngestedOnce, Text, Hash
<1>4. ASSUME NEW f \in Files, ReadFile(f) PROVE IngestedOnce'
    <2> DEFINE d == <<f, Text(f)>>
    <2>1. /\ UNCHANGED <<doc, todo, phase, at, registry>> /\ phase = "ingest" /\ \E i \in todo : i[1] = f
          /\ reading' = [reading EXCEPT ![f] = [text |-> Text(f), dup |-> "not asked"]]
          /\ ingested' = [ingested EXCEPT ![f] = NotDone]
        BY <1>4 DEF ReadFile, graph
    <2>2. Shared(d) => doc[d] = "absent"
        BY <2>1 DEF IngestedOnce
    <2>3. reading'[f].text = Text(f) /\ reading'[f].dup # "yes"
          /\ \A g \in Files : g # f => reading'[g] = reading[g] /\ ingested'[g] = ingested[g]
        BY <2>1 DEF TypeOK
    <2>4. \A g \in Files : Shared(<<g, Text(g)>>) =>
             \/ doc[<<g, Text(g)>>] = "absent"
             \/ ingested'[g] = Hash(<<g, Text(g)>>) /\ \A i \in todo : i[1] # g
        BY <2>1, <2>2, <2>3 DEF IngestedOnce
    <2>5. \A g \in Files : reading'[g] # Idle =>
             /\ Shared(<<g, reading'[g].text>>) => doc[<<g, reading'[g].text>>] = "absent"
             /\ reading'[g].dup = "yes" => Shared(<<g, reading'[g].text>>)
        BY <2>2, <2>3 DEF IngestedOnce
    <2> QED BY <2>1, <2>4, <2>5 DEF IngestedOnce, Text, Hash
<1>5. ASSUME NEW f \in Files, CommitDocument(f) PROVE IngestedOnce'
    <2> DEFINE d == <<f, reading[f].text>>
    <2>1. PICK i \in todo : /\ i[1] = f /\ phase = "ingest" /\ reading[f] # Idle
                            /\ ingested' = [ingested EXCEPT ![f] = Hash(i)]
                            /\ todo' = todo \ {i}
                            /\ reading' = [reading EXCEPT ![f] = Idle]
                            /\ UNCHANGED <<at, registry, phase>>
        BY <1>5 DEF CommitDocument
    <2>2. /\ d \in Docs /\ d[1] = f
          /\ doc'[d] = "accepted" => d[2] \notin OutOfScope
          /\ \A e \in Docs : e # d =>
                 doc'[e] = IF e[1] = f /\ doc[e] # "absent" THEN "superseded" ELSE doc[e]
        BY <1>5, CommittedDoc
    <2>3. \A j \in todo' : j[1] # f
        BY <2>1 DEF ItemsInHand
    <2>4. ASSUME Shared(<<f, Text(f)>>) PROVE ingested'[f] = Hash(<<f, Text(f)>>)
        <3>1. i \in Docs /\ i = <<f, i[2]>> /\ i[2] \in TextsOf(f)
            BY <2>1, DocParts DEF TypeOK
        <3>2. i[2] = Text(f)
            BY <2>1, <2>4, <3>1, SharedIsFirst DEF InOrder, ItemsInOrder
        <3> QED BY <2>1, <3>1, <3>2
    <2>5. \A g \in Files : g # f => reading'[g] = reading[g] /\ ingested'[g] = ingested[g]
        BY <2>1 DEF TypeOK
    <2>6. reading'[f] = Idle
        BY <2>1 DEF TypeOK
    <2>7. \A e \in Docs : e[1] # f => doc'[e] = doc[e]
        BY <2>2
    <2> HIDE DEF d
    <2>8. \A g \in Files : g # f /\ reading[g] # Idle => <<g, reading[g].text>> \in Docs
        <3> SUFFICES ASSUME NEW g \in Files, reading[g] # Idle PROVE <<g, reading[g].text>> \in Docs
            OBVIOUS
        <3>1. reading[g].text \in TextsOf(g)
            BY DEF InOrder, ReadInOrder
        <3>2. PICK n \in DOMAIN Versions[g] : Versions[g][n] = reading[g].text /\ reading[g].text # NoText
            BY <3>1, Positions
        <3> QED BY <3>2, TextIsDoc
    <2>9. \A g \in Files : Shared(<<g, Text(g)>>) =>
             \/ doc'[<<g, Text(g)>>] = "absent"
             \/ ingested'[g] = Hash(<<g, Text(g)>>) /\ \A j \in todo' : j[1] # g
        <3> SUFFICES ASSUME NEW g \in Files, g # f, Shared(<<g, Text(g)>>)
                     PROVE  \/ doc'[<<g, Text(g)>>] = "absent"
                            \/ ingested'[g] = Hash(<<g, Text(g)>>) /\ \A j \in todo' : j[1] # g
            BY <2>3, <2>4
        <3> QED BY <1>1, <2>1, <2>5, <2>7 DEF IngestedOnce
    <2>10. \A g \in Files : reading'[g] # Idle =>
              /\ Shared(<<g, reading'[g].text>>) => doc'[<<g, reading'[g].text>>] = "absent"
              /\ reading'[g].dup = "yes" => Shared(<<g, reading'[g].text>>)
        BY <2>5, <2>6, <2>7, <2>8 DEF IngestedOnce
    <2>11. \A e \in Docs : doc'[e] = "accepted" => e[2] \notin OutOfScope
        BY <2>2 DEF IngestedOnce
    <2> QED BY <2>1, <2>9, <2>10, <2>11 DEF IngestedOnce, Text, Hash
<1>6. ASSUME NEW f \in Files, FailIngest(f) PROVE IngestedOnce'
    <2>1. /\ UNCHANGED <<doc, at, phase, registry>> /\ phase = "ingest" /\ (\E i \in todo : i[1] = f)
          /\ todo' \subseteq todo
          /\ reading' = [reading EXCEPT ![f] = Idle] /\ ingested' = [ingested EXCEPT ![f] = NotDone]
        BY <1>6 DEF FailIngest, graph
    <2>2. reading'[f] = Idle /\ \A g \in Files : g # f => reading'[g] = reading[g] /\ ingested'[g] = ingested[g]
        BY <2>1 DEF TypeOK
    <2> QED BY <2>1, <2>2 DEF IngestedOnce, Text, Hash
<1>7. ASSUME ChangeRegistry PROVE IngestedOnce'
    <2>1. UNCHANGED <<at, doc, ingested, phase, todo, reading>> /\ registry \in DOMAIN Sections
          /\ registry' \in DOMAIN Sections
        BY <1>7 DEF ChangeRegistry, graph, ledger, build, TypeOK
    <2>2. ASSUME NEW f \in Files, Shared(<<f, Text(f)>>) PROVE IngestDeps[registry'] = IngestDeps[registry]
        BY <2>1, <2>2, Positions DEF SharedReadOnce, Text
    <2> QED BY <2>1, <2>2 DEF IngestedOnce, Text, Hash
<1>8. ASSUME UNCHANGED <<at, doc, ingested, registry>>, reading' = reading \/ reading' = [f \in Files |-> Idle],
             phase' # "ingest" \/ UNCHANGED <<phase, todo>>
      PROVE  IngestedOnce'
    BY <1>8 DEF IngestedOnce, Text, Hash
<1>9. ASSUME \/ StartSegment \/ StopUpdate \/ FinishSegment \/ Crash \/ UNCHANGED vars
             \/ \E d \in Docs : ReadDocument(d) \/ CommitChunks(d) \/ FailSegment(d)
      PROVE  IngestedOnce'
    BY <1>8, <1>9 DEF StartSegment, StopUpdate, FinishSegment, Crash, ReadDocument, CommitChunks,
                      FailSegment, vars, graph, ledger, build
<1>10. ASSUME NEW f \in Files, LookForDuplicate(f) PROVE IngestedOnce'
    <2>1. UNCHANGED <<doc, todo, phase, at, registry, ingested>>
        BY <1>10 DEF LookForDuplicate, graph, ledger
    <2>2. /\ reading[f] # Idle /\ reading'[f].text = reading[f].text
          /\ reading'[f].dup = "yes" => HasDuplicate(<<f, reading[f].text>>)
          /\ \A g \in Files : g # f => reading'[g] = reading[g]
        BY <1>10, LookedFor
    <2>3. HasDuplicate(<<f, reading[f].text>>) => Shared(<<f, reading[f].text>>)
        BY DEF HasDuplicate, Shared
    <2> QED BY <2>1, <2>2, <2>3 DEF IngestedOnce, Text, Hash
<1> QED BY <1>2, <1>3, <1>4, <1>5, <1>6, <1>7, <1>9, <1>10 DEF Next, StageStep

LEMMA ItemsInHandKept ==
    ASSUME CorpusTyped, InOrder, IngestedOnce, ItemsInHand, CutAgainOnce, [Next]_vars
    PROVE  ItemsInHand'
<1> USE DEF CorpusTyped
<1> DEFINE InHand == {d \in Docs : reusing[d] # Idle}
<1>1. ASSUME NEW f \in Files, Edit(f) PROVE ItemsInHand'
    BY <1>1 DEF Edit, graph, build, ledger, ItemsInHand, UpToDateSegment
<1>2. ASSUME ChangeRegistry PROVE ItemsInHand'
    <2>1. /\ UNCHANGED <<at, doc, phase, todo, reading, reusing, segmented>> /\ phase = "idle"
        BY <1>2 DEF ChangeRegistry, graph, ledger, build
    <2>2. \A d \in Docs : reusing[d] = Idle
        BY <2>1 DEF ItemsInHand
    <2> QED BY <2>1, <2>2 DEF ItemsInHand
<1>3. ASSUME NEW given \in SUBSET Files, StartIngest(given) PROVE ItemsInHand'
    <2>1. /\ UNCHANGED <<doc, segmented, registry, reading, reusing>> /\ phase = "idle" /\ phase' = "ingest"
          /\ todo' = {<<f, Text(f)>> : f \in ToIngest(given)}
        BY <1>3 DEF StartIngest, graph, ledger
    <2>2. (\A d \in Docs : reusing[d] = Idle) /\ \A f \in Files : reading[f] = Idle
        BY <2>1 DEF ItemsInHand
    <2>3. \A i, j \in todo' : i[1] = j[1] => i = j
        BY <2>1
    <2> QED BY <2>1, <2>2, <2>3 DEF ItemsInHand
<1>4. ASSUME NEW f \in Files, ReadFile(f) PROVE ItemsInHand'
    <2>1. /\ UNCHANGED <<doc, todo, phase, registry, reusing, segmented>> /\ phase = "ingest"
          /\ \E i \in todo : i[1] = f
          /\ \A g \in Files : g # f => reading'[g] = reading[g]
        BY <1>4 DEF ReadFile, graph, TypeOK
    <2> QED BY <2>1 DEF ItemsInHand
<1>5. ASSUME NEW f \in Files, NEW i \in todo, i[1] = f, phase = "ingest", todo' = todo \ {i},
             reading' = [reading EXCEPT ![f] = Idle], UNCHANGED <<phase, registry, reusing, segmented>>
      PROVE  ItemsInHand'
    <2>1. \A d \in Docs : reusing[d] = Idle
        BY <1>5 DEF ItemsInHand
    <2>2. reading'[f] = Idle /\ \A g \in Files : g # f => reading'[g] = reading[g]
        BY <1>5 DEF TypeOK
    <2>3. \A g \in Files : reading'[g] # Idle => \E j \in todo' : j[1] = g
        BY <1>5, <2>2 DEF ItemsInHand
    <2> QED BY <1>5, <2>1, <2>3 DEF ItemsInHand
<1>6. ASSUME NEW f \in Files, CommitDocument(f) \/ FailIngest(f) PROVE ItemsInHand'
    BY <1>5, <1>6 DEF CommitDocument, FailIngest, graph
<1>7. ASSUME StartSegment PROVE ItemsInHand'
    <2>1. /\ UNCHANGED <<doc, segmented, registry, reading, reusing>> /\ phase = "ingest" /\ todo = {}
          /\ phase' = "segment"
          /\ todo' = {d \in Docs : doc[d] = "accepted" /\ segmented[d] # SegmentDeps[registry]}
        BY <1>7 DEF StartSegment, graph, ledger
    <2>2. (\A d \in Docs : reusing[d] = Idle) /\ \A f \in Files : reading[f] = Idle
        BY <2>1 DEF ItemsInHand
    <2> QED BY <2>1, <2>2 DEF ItemsInHand, UpToDateSegment
<1>8. ASSUME StopUpdate PROVE ItemsInHand'
    <2>1. /\ UNCHANGED <<doc, segmented, registry, reading, reusing, todo>> /\ phase = "ingest" /\ todo = {}
          /\ phase' = "idle"
        BY <1>8 DEF StopUpdate, graph, ledger
    <2> QED BY <2>1 DEF ItemsInHand
<1>9. ASSUME NEW d \in Docs, ReadDocument(d) PROVE ItemsInHand'
    <2>1. /\ phase = "segment" /\ d \in todo /\ Cardinality(InHand) < Workers[registry]
          /\ reusing' = [reusing EXCEPT ![d] = Found(d)]
          /\ segmented' = [segmented EXCEPT ![d] = 0]
          /\ UNCHANGED <<registry, doc, phase, todo, reading>>
        BY <1>9 DEF ReadDocument, graph
    <2>2. registry \in DOMAIN Sections /\ SegmentDeps[registry] \in Nat \ {0}
        BY Registered
    <2>3. registry # 1 => InHand = {}
        <3> SUFFICES ASSUME registry # 1 PROVE InHand = {}
            OBVIOUS
        <3>1. Workers[registry] = 1
            BY <2>2 DEF CutAgainOnce
        <3>2. IsFiniteSet(InHand)
            BY DEF ItemsInHand
        <3>3. Cardinality(InHand) = 0
            BY <2>1, <3>1, <3>2, FS_CardinalityType
        <3> QED BY <3>2, <3>3, FS_EmptySet
    <2>4. IsFiniteSet(InHand')
        <3>1. IsFiniteSet(InHand \cup {d})
            BY FS_AddElement DEF ItemsInHand
        <3>2. InHand' \subseteq InHand \cup {d}
            BY <2>1
        <3> QED BY <3>1, <3>2, FS_Subset
    <2>5. \A e \in Docs : e # d => reusing'[e] = reusing[e] /\ segmented'[e] = segmented[e]
        BY <2>1 DEF TypeOK
    <2>6. segmented'[d] = 0
        BY <2>1 DEF TypeOK
    <2>7. \A e \in todo' : doc'[e] = "accepted" /\ ~UpToDateSegment(e)'
        BY <2>1, <2>2, <2>5, <2>6 DEF ItemsInHand, UpToDateSegment, TypeOK
    <2>8. \A e \in Docs : reusing'[e] # Idle => e \in todo' /\ segmented'[e] = 0
        BY <2>1, <2>5, <2>6 DEF ItemsInHand
    <2>9. registry' # 1 => \A e, g \in Docs : reusing'[e] # Idle /\ reusing'[g] # Idle => e = g
        BY <2>1, <2>3, <2>5
    <2> QED BY <2>1, <2>4, <2>7, <2>8, <2>9 DEF ItemsInHand
<1>10. ASSUME NEW d \in Docs, phase = "segment", todo' = todo \ {d}, reusing' = [reusing EXCEPT ![d] = Idle],
              UNCHANGED <<registry, doc, phase, reading>>,
              segmented' = segmented \/ segmented' = [segmented EXCEPT ![d] = SegmentDeps[registry]]
       PROVE  ItemsInHand'
    <2>1. \A e \in Docs : e # d => reusing'[e] = reusing[e] /\ segmented'[e] = segmented[e]
        BY <1>10 DEF TypeOK
    <2>2. reusing'[d] = Idle
        BY <1>10
    <2>3. IsFiniteSet(InHand')
        <3>1. InHand' \subseteq InHand
            BY <2>1, <2>2
        <3> QED BY <3>1, FS_Subset DEF ItemsInHand
    <2>4. \A e \in todo' : e \in Docs /\ e # d
        BY <1>10 DEF TypeOK
    <2> QED BY <1>10, <2>1, <2>2, <2>3, <2>4 DEF ItemsInHand, UpToDateSegment
<1>11. ASSUME NEW d \in Docs, CommitChunks(d) \/ FailSegment(d) PROVE ItemsInHand'
    BY <1>10, <1>11 DEF CommitChunks, FailSegment, graph, ledger
<1>12. ASSUME FinishSegment PROVE ItemsInHand'
    <2>1. /\ UNCHANGED <<doc, segmented, registry, reading, reusing, todo>> /\ phase = "segment" /\ todo = {}
          /\ phase' = "idle"
        BY <1>12 DEF FinishSegment
    <2> QED BY <2>1 DEF ItemsInHand
<1>13. ASSUME Crash PROVE ItemsInHand'
    <2>1. /\ phase' = "idle" /\ todo' = {} /\ UNCHANGED registry
          /\ reading' = [f \in Files |-> Idle] /\ reusing' = [d \in Docs |-> Idle]
        BY <1>13 DEF Crash
    <2>2. IsFiniteSet(InHand')
        <3>1. InHand' = {}
            BY <2>1
        <3> QED BY <3>1, FS_EmptySet
    <2> QED BY <2>1, <2>2 DEF ItemsInHand
<1>14. ASSUME UNCHANGED vars PROVE ItemsInHand'
    BY <1>14 DEF vars, graph, ledger, build, ItemsInHand, UpToDateSegment
<1>15. ASSUME NEW f \in Files, LookForDuplicate(f) PROVE ItemsInHand'
    <2>1. UNCHANGED <<doc, segmented, registry, reusing, todo, phase>>
        BY <1>15 DEF LookForDuplicate, graph, ledger
    <2>2. reading[f] # Idle /\ \A g \in Files : g # f => reading'[g] = reading[g]
        BY <1>15, LookedFor
    <2> QED BY <2>1, <2>2 DEF ItemsInHand, UpToDateSegment
<1> QED BY <1>1, <1>2, <1>3, <1>4, <1>6, <1>7, <1>8, <1>9, <1>11, <1>12, <1>13, <1>14, <1>15
        DEF Next, StageStep

-----------------------------------------------------------------------------
(* Segmentation.  What the writers of both stages leave of a document whose   *)
(* own chunks they do not retire.                                             *)

(* An accepted document occurs in no chunk that leaves the graph.             *)
LEMMA UseStands ==
    ASSUME TypeOK, GraphStands, NEW gone \in SUBSET Chunks, NEW docs, NEW e \in Docs, NEW x \in Parts,
           docs[e] = "accepted", doc[e] = "accepted", RetiredUses(gone, docs)[e][x] # NoChunk
    PROVE  LET c == uses[e][x]
               r == RetiredChunks(gone, docs)[c] IN
           /\ c \in Chunks /\ RetiredUses(gone, docs)[e][x] = c
           /\ r.status \in {"accepted", "rejected"} /\ (r.owner # e \/ SaysTwice(e, Wording[x]))
<1> DEFINE c == uses[e][x]
<1>1. /\ c \in Chunks /\ c # NoChunk /\ RetiredUses(gone, docs)[e][x] = c
      /\ c \in gone /\ Heirs(c, docs) # {} =>
            RetiredChunks(gone, docs)[c].owner # e \/ \E y \in Parts : y # x /\ uses[e][y] = c
    <2>1. c \in Chunks /\ RetiredUses(gone, docs)[e][x] = c
        BY RetiredUse
    <2>2. c \in gone /\ Heirs(c, docs) # {} =>
              RetiredChunks(gone, docs)[c].owner # e \/ \E y \in Parts : y # x /\ uses[e][y] = c
        <3> SUFFICES ASSUME c \in gone, Heirs(c, docs) # {}, RetiredChunks(gone, docs)[c].owner = e
                     PROVE  \E y \in Parts : y # x /\ uses[e][y] = c
            OBVIOUS
        <3>1. /\ PlaceIn(e, c) \in Parts /\ uses[e][PlaceIn(e, c)] = c
              /\ RetiredUses(gone, docs)[e][PlaceIn(e, c)] = NoChunk
            BY PlaceLeaves
        <3> QED BY <3>1
    <2> QED BY <2>1, <2>2
<1>2. /\ Says(c, x) /\ Live(c) /\ (chunk[c].owner # e \/ SaysTwice(e, Wording[x]))
      /\ \A y \in Parts : y # x /\ uses[e][y] = c => SaysTwice(e, Wording[x])
    <2>1. Says(c, x) /\ x \in AnyPart(e) /\ Live(c) /\ (chunk[c].owner # e \/ SaysTwice(e, Wording[x]))
        BY <1>1 DEF GraphStands
    <2>2. ASSUME NEW y \in Parts, y # x, uses[e][y] = c PROVE SaysTwice(e, Wording[x])
        <3>1. Says(c, y) /\ y \in AnyPart(e)
            BY <1>1, <2>2 DEF GraphStands
        <3> QED BY <2>1, <2>2, <3>1 DEF SaysTwice, Says, AnyPart
    <2> QED BY <2>1, <2>2
<1>3. e \in Heirs(c, docs)
    BY <1>2 DEF Heirs
<1> HIDE DEF c
<1>4. /\ c \notin gone => RetiredChunks(gone, docs)[c] = chunk[c]
      /\ c \in gone => RetiredChunks(gone, docs)[c].status = chunk[c].status
    BY <1>1, <1>3, RetiredChunk
<1>5. RetiredChunks(gone, docs)[c].owner # e \/ SaysTwice(e, Wording[x])
    BY <1>1, <1>2, <1>3, <1>4
<1> QED BY <1>1, <1>2, <1>4, <1>5 DEF Live, c

(* Nor does it lose a part: what it occurs in either stays or becomes its own. *)
LEMMA KeepsItsSections ==
    ASSUME TypeOK, GraphStands, NEW gone \in SUBSET Chunks, NEW docs, NEW e \in Docs,
           CarriesItsSections(e), docs[e] = "accepted", registry' = registry,
           \A c \in gone : Live(c) /\ chunk[c].owner # e,
           \A x \in Parts : uses'[e][x] = RetiredUses(gone, docs)[e][x],
           \A c \in Chunks : \/ chunk'[c] = RetiredChunks(gone, docs)[c]
                             \/ c \notin gone /\ chunk[c].owner # e /\ chunk'[c].owner # e
    PROVE  CarriesItsSections(e)'
<1> DEFINE Rows2 == RetiredChunks(gone, docs)
           Mine(c) == chunk[c].owner = e /\ Live(c)
           Inherits(c, y) == c \in gone /\ uses[e][y] = c /\ uses'[e][y] = NoChunk /\ Rows2[c].owner = e
           Once(c) == ~SaysTwice(e, Wording[c[2]])
<1>1. SectionsOf(e)' = SectionsOf(e) /\ SectionsOf(e) \subseteq Parts
    BY Registered DEF SectionsOf
<1>2. NoChunk \notin Chunks
    BY CorpusAssumption DEF CorpusAssumption
<1>9. ASSUME NEW x \in Parts
      PROVE  /\ uses'[e][x] = uses[e][x] \/ uses'[e][x] = NoChunk
             /\ uses'[e][x] = NoChunk /\ uses[e][x] # NoChunk =>
                    uses[e][x] \in gone /\ Rows2[uses[e][x]].owner = e
    <2>1. uses'[e][x] = RetiredUses(gone, docs)[e][x]
        OBVIOUS
    <2>2. TypeOK /\ gone \in SUBSET Chunks /\ e \in Docs
        OBVIOUS
    <2> HIDE DEF Rows2
    <2>3. /\ RetiredUses(gone, docs)[e][x] \in {uses[e][x], NoChunk}
          /\ RetiredUses(gone, docs)[e][x] = NoChunk /\ uses[e][x] # NoChunk =>
                uses[e][x] \in gone /\ RetiredChunks(gone, docs)[uses[e][x]].owner = e
        BY ONLY <2>2, x \in Parts, RetiredUse
    <2> QED BY ONLY <2>1, <2>3 DEF Rows2
<1>3. ASSUME NEW c \in Chunks, Live(c)', chunk'[c].owner = e PROVE Mine(c) \/ \E y \in Parts : Inherits(c, y)
    <2>1. chunk'[c] = Rows2[c]
        BY <1>3
    <2>2. CASE c \notin gone
        BY <1>3, <2>1, <2>2, RetiredChunk DEF Live
    <2>3. CASE c \in gone
        <3>1. Heirs(c, docs) # {}
            BY <1>3, <2>1, <2>3, RetiredChunk DEF Live
        <3>2. e \in Heirs(c, docs) /\ RetiredChunks(gone, docs)[c].owner = e
            BY <1>3, <2>1, <2>3, <3>1, RetiredChunk
        <3>3. PICK y \in Parts : uses[e][y] = c /\ RetiredUses(gone, docs)[e][y] = NoChunk
            BY <2>3, <3>1, <3>2, PlaceLeaves
        <3> QED BY <2>3, <3>2, <3>3
    <2> QED BY <2>2, <2>3
<1>4. ASSUME NEW c \in Chunks, Mine(c) PROVE Live(c)' /\ chunk'[c].owner = e
    <2>1. c \notin gone
        BY <1>4
    <2>2. Rows2[c] = chunk[c]
        BY <2>1, RetiredChunk
    <2>3. chunk'[c] = chunk[c]
        BY <1>4, <2>1, <2>2
    <2> QED BY <1>4, <2>3 DEF Live
<1>5. ASSUME NEW c \in Chunks, c \in gone, NEW y \in Parts, uses[e][y] = c, Rows2[c].owner = e
      PROVE  Live(c)' /\ chunk'[c].owner = e /\ Says(c, y) /\ y \in SectionsOf(e) /\ y \in AnyPart(e)
    <2>1. uses[e][y] # NoChunk /\ chunk'[c] = Rows2[c]
        BY <1>2, <1>5
    <2>2. e \in Heirs(c, docs)
        BY <1>5 DEF Heirs
    <2>3. Rows2[c].status = chunk[c].status
        BY <1>5, <2>2, RetiredChunk
    <2> QED BY <1>5, <2>1, <2>3 DEF Live, CarriesItsSections, GraphStands
<1>6. ASSUME NEW x \in Parts, uses'[e][x] # NoChunk PROVE x \in SectionsOf(e)'
    BY <1>1, <1>6, <1>9 DEF CarriesItsSections
<1>7. ASSUME NEW x \in SectionsOf(e)', uses'[e][x] = NoChunk
      PROVE  \E c \in Chunks : Says(c, x) /\ Live(c)' /\ chunk'[c].owner = e
    <2>1. x \in SectionsOf(e) /\ x \in Parts
        BY <1>1
    <2>2. CASE uses[e][x] = NoChunk
        <3>1. PICK c \in Chunks : Says(c, x) /\ Mine(c)
            BY <2>1, <2>2 DEF CarriesItsSections
        <3> QED BY <1>4, <3>1
    <2>3. CASE uses[e][x] # NoChunk
        <3> DEFINE c == uses[e][x]
        <3>1. c \in gone /\ Rows2[c].owner = e
            BY <1>7, <1>9, <2>1, <2>3
        <3> QED BY <1>5, <2>1, <3>1
    <2> QED BY <2>2, <2>3
<1>8. ASSUME NEW c \in Chunks, Live(c)', chunk'[c].owner = e, Once(c)
      PROVE  /\ \E x \in SectionsOf(e)' : Says(c, x) /\ uses'[e][x] = NoChunk
             /\ \A g \in Chunks : Live(g)' /\ chunk'[g].owner = e /\ Says(g, c[2]) => g = c
    <2>1. ASSUME NEW x \in AnyPart(e), NEW y \in AnyPart(e), Says(c, x), Says(c, y) PROVE x = y
        BY <1>8, <2>1 DEF SaysTwice, Says, AnyPart
    <2>2. ASSUME NEW g \in Chunks, Mine(g), Says(g, c[2])
          PROVE  /\ \E x \in SectionsOf(e) : Says(g, x) /\ uses[e][x] = NoChunk
                 /\ \A h \in Chunks : Mine(h) /\ Says(h, g[2]) => h = g
        <3>1. Once(g)
            BY <1>8, <2>2 DEF Says
        <3> QED BY <2>2, <3>1 DEF CarriesItsSections
    <2>3. SectionsOf(e) \subseteq AnyPart(e)
        BY Registered
    <2>4. Says(c, c[2])
        BY DEF Says
    <2>5. \E x \in SectionsOf(e)' : Says(c, x) /\ uses'[e][x] = NoChunk
        <3>1. CASE Mine(c)
            <4>1. PICK x \in SectionsOf(e) : Says(c, x) /\ uses[e][x] = NoChunk
                BY <2>2, <2>4, <3>1
            <4> QED BY <1>1, <1>9, <4>1
        <3>2. CASE \E y \in Parts : Inherits(c, y)
            BY <1>1, <1>5, <3>2
        <3> QED BY <1>3, <1>8, <3>1, <3>2
    <2>6. ASSUME NEW g \in Chunks, Live(g)', chunk'[g].owner = e, Says(g, c[2]) PROVE g = c
        <3>1. Says(c, g[2]) /\ \A x : Says(g, x) <=> Says(c, x)
            BY <2>6 DEF Says
        <3>2. CASE Mine(c) /\ Mine(g)
            BY <2>2, <2>4, <2>6, <3>2
        <3>3. ASSUME NEW y \in Parts, NEW z \in Parts, Inherits(c, y), Inherits(g, z) PROVE g = c
            <4>1. y = z
                BY <1>5, <2>1, <3>1, <3>3
            <4> QED BY <3>3, <4>1
        <3>4. ASSUME Mine(c), NEW z \in Parts, Inherits(g, z) PROVE FALSE
            <4>1. PICK x \in SectionsOf(e) : Says(c, x) /\ uses[e][x] = NoChunk
                BY <2>2, <2>4, <3>4
            <4>2. x = z
                BY <1>5, <2>1, <2>3, <3>1, <3>4, <4>1
            <4> QED BY <1>2, <3>4, <4>1, <4>2
        <3>5. ASSUME Mine(g), NEW y \in Parts, Inherits(c, y) PROVE FALSE
            <4>1. PICK x \in SectionsOf(e) : Says(g, x) /\ uses[e][x] = NoChunk
                BY <2>2, <2>6, <3>5
            <4>2. x = y
                BY <1>5, <2>1, <2>3, <3>1, <3>5, <4>1
            <4> QED BY <1>2, <3>5, <4>1, <4>2
        <3> QED BY <1>3, <1>8, <2>6, <3>2, <3>3, <3>4, <3>5
    <2> QED BY <2>5, <2>6
<1> QED BY <1>6, <1>7, <1>8 DEF CarriesItsSections, Says, SaysTwice

LEMMA IngestKeepsGraph ==
    ASSUME CorpusInv, NEW f \in Files, CommitDocument(f)
    PROVE  GraphStands' /\ MadeByOwner' /\ CutAsRegistered' /\ FoundIsThere'
<1> USE DEF CorpusInv, CorpusTyped
<1> DEFINE d == <<f, reading[f].text>>
           old == {e \in Docs : e[1] = f /\ e # d /\ doc[e] # "absent"}
           docs == [e \in Docs |-> IF e \in old THEN "superseded" ELSE doc[e]]
           gone == LiveChunksOf(old)
<1>1. /\ phase = "ingest"
      /\ chunk' = RetiredChunks(gone, docs)
      /\ uses' = RetiredUses(gone, docs)
      /\ UNCHANGED <<registry, segmented, phase, reusing>>
    BY DEF CommitDocument
<1>2. /\ d \in Docs /\ doc[d] # "superseded"
      /\ doc[d] = "accepted" => doc'[d] = "accepted"
      /\ \A e \in Docs : e # d => doc'[e] = IF e[1] = f /\ doc[e] # "absent" THEN "superseded" ELSE doc[e]
    BY CommittedDoc
<1>3. /\ gone \in SUBSET Chunks
      /\ \A c \in Chunks : c \in gone <=> Live(c) /\ chunk[c].owner \in old
    BY DEF LiveChunksOf
<1>4. \A c \in Chunks : chunk[c].owner \in Docs
    BY DEF TypeOK, Rows
<1>5. ASSUME NEW e \in Docs
      PROVE  /\ docs[e] = "accepted" <=> doc[e] = "accepted" /\ e \notin old
             /\ docs[e] = "accepted" => doc'[e] = "accepted"
             /\ e \in old => doc'[e] = "superseded"
             /\ doc[e] = "superseded" => doc'[e] = "superseded"
             /\ doc'[e] = "accepted" /\ doc[e] \in {"accepted", "superseded"} => docs[e] = "accepted"
    <2>1. CASE e = d
        BY <1>2, <2>1
    <2>2. CASE e # d
        <3>1. doc'[e] = IF e[1] = f /\ doc[e] # "absent" THEN "superseded" ELSE doc[e]
            BY <1>2, <2>2
        <3>2. e \in old <=> e[1] = f /\ doc[e] # "absent"
            BY <2>2
        <3> HIDE DEF d, old
        <3> QED BY <3>1, <3>2
    <2> QED BY <2>1, <2>2
<1> HIDE DEF d, old, docs, gone
<1>6. ASSUME NEW c \in Chunks
      PROVE  /\ c \notin gone => chunk'[c] = chunk[c]
             /\ c \in gone /\ Heirs(c, docs) # {} =>
                   chunk'[c].status = chunk[c].status /\ chunk'[c].owner \in Heirs(c, docs)
             /\ c \in gone /\ Heirs(c, docs) = {} => ~Live(c)' /\ chunk'[c].owner = chunk[c].owner
    BY <1>1, <1>3, RetiredChunk DEF Live
<1>7. ASSUME NEW e \in Docs, NEW x \in Parts, uses'[e][x] # NoChunk
      PROVE  uses'[e][x] = uses[e][x]
    <2>1. TypeOK /\ gone \in SUBSET Chunks /\ e \in Docs
        BY <1>3
    <2>2. RetiredUses(gone, docs)[e][x] \in {uses[e][x], NoChunk}
        BY ONLY <2>1, x \in Parts, RetiredUse
    <2> QED BY <1>1, <1>7, <2>2
<1>8. GraphStands'
    <2>1. ASSUME NEW c \in Chunks, Live(c)' PROVE doc'[chunk'[c].owner] = "accepted"
        <3>1. CASE c \notin gone
            BY <1>3, <1>4, <1>5, <1>6, <2>1, <3>1 DEF Live, GraphStands
        <3>2. CASE c \in gone
            <4>1. chunk'[c].owner \in Heirs(c, docs)
                BY <1>6, <2>1, <3>2
            <4> QED BY <1>5, <4>1 DEF Heirs
        <3> QED BY <3>1, <3>2
    <2>2. ASSUME NEW e \in Docs, NEW x \in Parts, uses'[e][x] # NoChunk
          PROVE  /\ Says(uses'[e][x], x) /\ x \in AnyPart(e)
                 /\ doc'[e] \in {"accepted", "superseded"}
                 /\ doc'[e] = "accepted" =>
                        /\ chunk'[uses'[e][x]].status \in {"accepted", "rejected"}
                        /\ chunk'[uses'[e][x]].owner # e \/ SaysTwice(e, Wording[x])
        <3>1. uses[e][x] # NoChunk /\ uses'[e][x] = uses[e][x] /\ Says(uses[e][x], x) /\ x \in AnyPart(e)
              /\ doc[e] \in {"accepted", "superseded"}
            BY <1>7, <2>2 DEF GraphStands
        <3>2. doc'[e] \in {"accepted", "superseded"}
            BY <1>5, <3>1
        <3>3. ASSUME doc'[e] = "accepted"
              PROVE  /\ chunk'[uses'[e][x]].status \in {"accepted", "rejected"}
                     /\ chunk'[uses'[e][x]].owner # e \/ SaysTwice(e, Wording[x])
            <4>1. docs[e] = "accepted" /\ doc[e] = "accepted"
                BY <1>5, <3>1, <3>3
            <4> QED BY <1>1, <1>3, <2>2, <3>1, <4>1, UseStands
        <3> QED BY <3>1, <3>2, <3>3
    <2>3. ASSUME NEW e \in Docs, segmented'[e] # 0 PROVE doc'[e] \in {"accepted", "superseded"}
        BY <1>1, <1>5, <2>3 DEF GraphStands
    <2> QED BY <2>1, <2>2, <2>3 DEF GraphStands, Live
<1>9. MadeByOwner'
    <2>1. ASSUME NEW c \in Chunks, chunk'[c].owner # c[1]
          PROVE  doc'[c[1]] = "superseded" \/ (registry' # 1 /\ UpToDateSegment(c[1])')
        <3>1. CASE chunk[c].owner # c[1]
            BY <1>1, <1>5, <3>1, ChunkParts DEF MadeByOwner, UpToDateSegment
        <3>2. CASE chunk[c].owner = c[1]
            <4>1. c \in gone
                BY <1>6, <2>1, <3>2
            <4> QED BY <1>3, <1>5, <3>2, <4>1, ChunkParts
        <3> QED BY <3>1, <3>2
    <2>2. ASSUME registry' = 1
          PROVE  /\ \A c \in Chunks : Live(c)' => segmented'[chunk'[c].owner] # 0
                 /\ \A e \in Docs : \A x \in Parts : uses'[e][x] # NoChunk => segmented'[e] # 0
        <3>1. ASSUME NEW e \in Docs, NEW x \in Parts, uses'[e][x] # NoChunk PROVE segmented'[e] # 0
            BY <1>1, <1>7, <2>2, <3>1 DEF MadeByOwner
        <3>2. ASSUME NEW c \in Chunks, Live(c)' PROVE segmented'[chunk'[c].owner] # 0
            <4>1. CASE c \notin gone
                BY <1>1, <1>6, <2>2, <3>2, <4>1 DEF MadeByOwner, Live
            <4>2. CASE c \in gone
                <5>1. chunk'[c].owner \in Heirs(c, docs)
                    BY <1>6, <3>2, <4>2
                <5>2. c # NoChunk
                    BY CorpusAssumption DEF CorpusAssumption
                <5> QED BY <1>1, <2>2, <5>1, <5>2, ChunkParts DEF MadeByOwner, Heirs
            <4> QED BY <4>1, <4>2
        <3> QED BY <3>1, <3>2
    <2> QED BY <2>1, <2>2 DEF MadeByOwner
<1>10. CutAsRegistered'
    <2> SUFFICES ASSUME NEW e \in Docs, doc'[e] = "accepted", UpToDateSegment(e)'
                 PROVE  CarriesItsSections(e)'
        BY DEF CutAsRegistered
    <2>1. UpToDateSegment(e) /\ segmented[e] # 0
        BY <1>1, Registered DEF UpToDateSegment, TypeOK
    <2>2. docs[e] = "accepted" /\ doc[e] = "accepted" /\ e \notin old
        BY <1>5, <2>1 DEF GraphStands
    <2>3. CarriesItsSections(e)
        BY <2>1, <2>2 DEF CutAsRegistered
    <2>4. \A c \in gone : Live(c) /\ chunk[c].owner # e
        BY <1>3, <2>2
    <2> QED BY <1>1, <1>3, <2>2, <2>3, <2>4, KeepsItsSections
<1>11. FoundIsThere'
    BY <1>1 DEF ItemsInHand, FoundIsThere
<1> QED BY <1>8, <1>9, <1>10, <1>11

LEMMA SegmentKeepsGraph ==
    ASSUME CorpusInv, NEW d \in Docs, CommitChunks(d)
    PROVE  GraphStands' /\ MadeByOwner' /\ CutAsRegistered' /\ FoundIsThere'
<1> USE DEF CorpusInv, CorpusTyped
<1> DEFINE own == OwnChunks(d)
           stale == LiveChunksOf({d}) \ own
           found == reusing[d]
<1>1. /\ phase = "segment" /\ d \in todo /\ found # Idle
      /\ chunk' = Upserted(own, RetiredChunks(stale, doc))
      /\ uses' = [RetiredUses(stale, doc) EXCEPT ![d] = found]
      /\ segmented' = [segmented EXCEPT ![d] = SegmentDeps[registry]]
      /\ reusing' = [reusing EXCEPT ![d] = Idle]
      /\ UNCHANGED <<registry, doc>>
    BY DEF CommitChunks
<1>2. /\ doc[d] = "accepted" /\ segmented[d] = 0 /\ ~UpToDateSegment(d) /\ found \in Occurrences
      /\ registry # 1 => \A e \in Docs : reusing[e] # Idle => e = d
    BY <1>1 DEF ItemsInHand, TypeOK
<1>3. /\ stale \in SUBSET Chunks
      /\ \A c \in Chunks : c \in stale <=> Live(c) /\ chunk[c].owner = d /\ c \notin own
      /\ \A c \in Chunks : c \in own <=> c[1] = d /\ c[2] \in SectionsOf(d) /\ found[c[2]] = NoChunk
    BY DEF LiveChunksOf, OwnChunks
<1>4. \A c \in Chunks : chunk[c].owner \in Docs /\ (c[1] = d => chunk[c].owner = d)
    BY <1>2 DEF TypeOK, Rows, MadeByOwner
<1>5. \A x \in Parts : found[x] # NoChunk =>
          /\ x \in SectionsOf(d) /\ Says(found[x], x) /\ found[x] \in Chunks
          /\ Live(found[x]) /\ chunk[found[x]].owner # d
    BY <1>1, <1>2 DEF FoundIsThere, Occurrences
<1>6. segmented'[d] = SegmentDeps[registry] /\ SegmentDeps[registry] # 0 /\ UpToDateSegment(d)'
      /\ \A e \in Docs : e # d => segmented'[e] = segmented[e] /\ reusing'[e] = reusing[e]
                                  /\ (UpToDateSegment(e)' <=> UpToDateSegment(e))
    BY <1>1, Registered DEF TypeOK, UpToDateSegment
<1>7. registry = 1 => stale = {}
    BY <1>2, <1>3 DEF MadeByOwner
<1>8. SectionsOf(d) \subseteq Parts /\ \A e \in Docs : SectionsOf(e)' = SectionsOf(e)
    BY <1>1, Registered DEF SectionsOf
<1>9. RetiredChunks(stale, doc) \in [Chunks -> Rows]
    BY <1>3, Retiring
<1> HIDE DEF own, stale, found
<1>10. ASSUME NEW c \in Chunks
       PROVE  /\ c \in own => Live(c)' /\ chunk'[c].owner = d /\ chunk[c].owner = d /\ c \notin stale
              /\ c \notin own => chunk'[c] = RetiredChunks(stale, doc)[c]
              /\ c \notin own /\ c \notin stale => chunk'[c] = chunk[c]
              /\ c \in stale /\ Heirs(c, doc) # {} =>
                    /\ chunk'[c].status = chunk[c].status /\ chunk'[c].owner \in Heirs(c, doc)
                    /\ chunk'[c].owner # d \/ SaysTwice(d, Wording[c[2]])
              /\ c \in stale /\ Heirs(c, doc) = {} => ~Live(c)' /\ chunk'[c].owner = d
    <2> DEFINE rows == RetiredChunks(stale, doc)
    <2>1. /\ c \notin own => chunk'[c] = rows[c]
          /\ c \in own => chunk'[c].status \in {"accepted", "rejected"} /\ chunk'[c].owner = rows[c].owner
        BY <1>1, <1>9, UpsertedChunk
    <2>2. /\ c \notin stale => rows[c] = chunk[c]
          /\ c \in stale /\ Heirs(c, doc) # {} => rows[c].status = chunk[c].status /\ rows[c].owner \in Heirs(c, doc)
          /\ c \in stale /\ Heirs(c, doc) = {} => rows[c].status = "superseded" /\ rows[c].owner = chunk[c].owner
        BY <1>3, RetiredChunk
    <2>3. c \in stale => c \notin own /\ chunk[c].owner = d /\ (d \notin Heirs(c, doc) \/ SaysTwice(d, Wording[c[2]]))
        <3>1. c # NoChunk
            BY CorpusAssumption DEF CorpusAssumption
        <3>2. ASSUME c \in stale, NEW x \in Parts, uses[d][x] = c PROVE SaysTwice(d, Wording[c[2]])
            <4>1. Says(c, x) /\ SaysTwice(d, Wording[x])
                BY <1>2, <1>3, <3>1, <3>2 DEF GraphStands
            <4> QED BY <4>1 DEF Says
        <3> QED BY <1>3, <3>2 DEF Heirs
    <2>4. c \in own => chunk[c].owner = d
        BY <1>3, <1>4
    <2> HIDE DEF rows
    <2>5. c \notin own => chunk'[c] = rows[c]
        BY <2>1
    <2> QED BY <2>1, <2>2, <2>3, <2>4 DEF Live, rows
<1>11. uses'[d] = found
    <2>1. RetiredUses(stale, doc) = [g \in Docs |-> RetiredUses(stale, doc)[g]]
        BY <1>3, Retiring
    <2> QED BY <1>1, <2>1
<1>12. ASSUME NEW e \in Docs, e # d
       PROVE  \A x \in Parts : /\ uses'[e][x] = RetiredUses(stale, doc)[e][x]
                               /\ uses'[e][x] \in {uses[e][x], NoChunk}
    <2>1. uses'[e] = RetiredUses(stale, doc)[e]
        <3>1. RetiredUses(stale, doc) = [g \in Docs |-> RetiredUses(stale, doc)[g]]
            BY <1>3, Retiring
        <3> QED BY <1>1, <1>12, <3>1
    <2>2. TypeOK /\ stale \in SUBSET Chunks /\ e \in Docs
        BY <1>3
    <2>3. \A x \in Parts : RetiredUses(stale, doc)[e][x] \in {uses[e][x], NoChunk}
        BY ONLY <2>2, RetiredUse
    <2> QED BY <2>1, <2>3
<1>13. GraphStands'
    <2>1. ASSUME NEW c \in Chunks, Live(c)' PROVE doc'[chunk'[c].owner] = "accepted"
        <3>1. CASE c \in own
            BY <1>1, <1>2, <1>10, <3>1
        <3>2. CASE c \notin own /\ c \notin stale
            BY <1>1, <1>10, <2>1, <3>2 DEF Live, GraphStands
        <3>3. CASE c \in stale
            BY <1>1, <1>10, <2>1, <3>3 DEF Heirs
        <3> QED BY <3>1, <3>2, <3>3
    <2>2. ASSUME NEW e \in Docs, NEW x \in Parts, uses'[e][x] # NoChunk
          PROVE  /\ Says(uses'[e][x], x) /\ x \in AnyPart(e)
                 /\ doc'[e] \in {"accepted", "superseded"}
                 /\ doc'[e] = "accepted" =>
                        /\ chunk'[uses'[e][x]].status \in {"accepted", "rejected"}
                        /\ chunk'[uses'[e][x]].owner # e \/ SaysTwice(e, Wording[x])
        <3>1. CASE e = d
            <4> DEFINE c == found[x]
            <4>1. uses'[e][x] = c /\ c # NoChunk
                BY <1>11, <2>2, <3>1
            <4>2. c \in Chunks /\ Says(c, x) /\ x \in AnyPart(d) /\ Live(c) /\ chunk[c].owner # d
                BY <1>5, <4>1, Registered
            <4>3. c \notin own /\ c \notin stale
                BY <1>3, <1>10, <4>2
            <4>4. chunk'[c] = chunk[c]
                BY <1>10, <4>2, <4>3
            <4> HIDE DEF c
            <4> QED BY <1>1, <1>2, <3>1, <4>1, <4>2, <4>4 DEF Live
        <3>2. CASE e # d
            <4> DEFINE c == uses[e][x]
            <4>1. uses'[e][x] = c /\ c # NoChunk /\ uses'[e][x] = RetiredUses(stale, doc)[e][x]
                BY <1>12, <2>2, <3>2
            <4>2. Says(c, x) /\ x \in AnyPart(e) /\ doc[e] \in {"accepted", "superseded"}
                BY <4>1 DEF GraphStands
            <4>3. ASSUME doc[e] = "accepted"
                  PROVE  /\ chunk'[c].status \in {"accepted", "rejected"}
                         /\ chunk'[c].owner # e \/ SaysTwice(e, Wording[x])
                <5>1. /\ c \in Chunks
                      /\ RetiredChunks(stale, doc)[c].status \in {"accepted", "rejected"}
                      /\ RetiredChunks(stale, doc)[c].owner # e \/ SaysTwice(e, Wording[x])
                    BY <1>3, <4>1, <4>3, UseStands
                <5> HIDE DEF c
                <5> QED BY <1>10, <3>2, <5>1 DEF Live
            <4> HIDE DEF c
            <4> QED BY <1>1, <4>1, <4>2, <4>3
        <3> QED BY <3>1, <3>2
    <2>3. ASSUME NEW e \in Docs, segmented'[e] # 0 PROVE doc'[e] \in {"accepted", "superseded"}
        BY <1>1, <1>2, <1>6, <2>3 DEF GraphStands
    <2> QED BY <2>1, <2>2, <2>3 DEF GraphStands, Live
<1>14. MadeByOwner'
    <2>1. ASSUME NEW c \in Chunks, chunk'[c].owner # c[1]
          PROVE  doc'[c[1]] = "superseded" \/ (registry' # 1 /\ UpToDateSegment(c[1])')
        <3>1. CASE c[1] = d
            <4>1. c \in stale
                BY <1>4, <1>10, <2>1, <3>1
            <4> QED BY <1>1, <1>6, <1>7, <3>1, <4>1
        <3>2. CASE c[1] # d
            <4>1. chunk[c].owner # c[1]
                BY <1>3, <1>10, <2>1, <3>2
            <4> QED BY <1>1, <1>6, <3>2, <4>1, ChunkParts DEF MadeByOwner
        <3> QED BY <3>1, <3>2
    <2>2. ASSUME registry' = 1
          PROVE  /\ \A c \in Chunks : Live(c)' => segmented'[chunk'[c].owner] # 0
                 /\ \A e \in Docs : \A x \in Parts : uses'[e][x] # NoChunk => segmented'[e] # 0
        <3>1. ASSUME NEW e \in Docs, NEW x \in Parts, uses'[e][x] # NoChunk PROVE segmented'[e] # 0
            <4>1. CASE e = d
                BY <1>6, <4>1
            <4>2. CASE e # d
                BY <1>1, <1>6, <1>12, <2>2, <3>1, <4>2 DEF MadeByOwner
            <4> QED BY <4>1, <4>2
        <3>2. ASSUME NEW c \in Chunks, Live(c)' PROVE segmented'[chunk'[c].owner] # 0
            <4>1. CASE c \in own
                BY <1>6, <1>10, <4>1
            <4>2. CASE c \notin own
                <5>1. chunk'[c] = chunk[c]
                    BY <1>1, <1>7, <1>10, <2>2, <4>2
                <5>2. segmented[chunk[c].owner] # 0
                    BY <1>1, <2>2, <3>2, <5>1 DEF MadeByOwner, Live
                <5> QED BY <1>4, <1>6, <5>1, <5>2
            <4> QED BY <4>1, <4>2
        <3> QED BY <3>1, <3>2
    <2> QED BY <2>1, <2>2 DEF MadeByOwner
<1>15. CarriesItsSections(d)'
    <2>1. ASSUME NEW c \in Chunks, Live(c)', chunk'[c].owner = d, ~SaysTwice(d, Wording[c[2]]) PROVE c \in own
        <3>1. CASE c \in stale
            BY <1>10, <2>1, <3>1
        <3>2. CASE c \notin own /\ c \notin stale
            BY <1>3, <1>10, <2>1, <3>2 DEF Live
        <3> QED BY <3>1, <3>2
    <2>2. ASSUME NEW x \in Parts, uses'[d][x] # NoChunk PROVE x \in SectionsOf(d)'
        BY <1>5, <1>8, <1>11, <2>2
    <2>3. ASSUME NEW x \in SectionsOf(d)', uses'[d][x] = NoChunk
          PROVE  \E c \in Chunks : Says(c, x) /\ Live(c)' /\ chunk'[c].owner = d
        <3>1. x \in SectionsOf(d) /\ x \in Parts
            BY <1>8
        <3>2. <<d, x>> \in Chunks
            BY <3>1 DEF Chunks
        <3>3. <<d, x>> \in own
            BY <1>3, <1>11, <2>3, <3>1, <3>2
        <3> QED BY <1>10, <3>2, <3>3 DEF Says
    <2>4. ASSUME NEW c \in Chunks, Live(c)', chunk'[c].owner = d, ~SaysTwice(d, Wording[c[2]])
          PROVE  /\ \E x \in SectionsOf(d)' : Says(c, x) /\ uses'[d][x] = NoChunk
                 /\ \A g \in Chunks : Live(g)' /\ chunk'[g].owner = d /\ Says(g, c[2]) => g = c
        <3>1. c \in own /\ c[1] = d /\ c[2] \in SectionsOf(d) /\ found[c[2]] = NoChunk
            BY <1>3, <2>1, <2>4
        <3>2. ASSUME NEW g \in Chunks, Live(g)', chunk'[g].owner = d, Says(g, c[2]) PROVE g = c
            <4>1. g[1] = d /\ g[2] \in SectionsOf(d)
                BY <1>3, <2>1, <2>4, <3>2 DEF Says
            <4>2. g[2] = c[2]
                BY <2>4, <3>1, <3>2, <4>1, Registered DEF SaysTwice, Says, AnyPart
            <4> QED BY <3>1, <4>1, <4>2, ChunkParts
        <3> QED BY <1>8, <1>11, <3>1, <3>2 DEF Says
    <2> QED BY <2>2, <2>3, <2>4 DEF CarriesItsSections, Says, SaysTwice
<1>16. CutAsRegistered'
    <2> SUFFICES ASSUME NEW e \in Docs, e # d, doc'[e] = "accepted", UpToDateSegment(e)'
                 PROVE  CarriesItsSections(e)'
        BY <1>15 DEF CutAsRegistered
    <2>1. doc[e] = "accepted" /\ CarriesItsSections(e)
        BY <1>1, <1>6 DEF CutAsRegistered
    <2>2. \A c \in stale : Live(c) /\ chunk[c].owner # e
        BY <1>3
    <2>3. \A x \in Parts : uses'[e][x] = RetiredUses(stale, doc)[e][x]
        BY <1>12
    <2>4. \A c \in Chunks : \/ chunk'[c] = RetiredChunks(stale, doc)[c]
                            \/ c \notin stale /\ chunk[c].owner # e /\ chunk'[c].owner # e
        BY <1>10
    <2>5. TypeOK /\ GraphStands /\ registry' = registry /\ stale \in SUBSET Chunks /\ e \in Docs
        BY <1>1, <1>3
    <2> QED BY ONLY <2>1, <2>2, <2>3, <2>4, <2>5, KeepsItsSections
<1>17. FoundIsThere'
    <2> SUFFICES ASSUME NEW e \in Docs, reusing'[e] # Idle, NEW x \in Parts, reusing'[e][x] # NoChunk
                 PROVE  /\ x \in SectionsOf(e)' /\ Says(reusing'[e][x], x)
                        /\ chunk'[reusing'[e][x]].status \in {"accepted", "rejected"}
                        /\ chunk'[reusing'[e][x]].owner # e
        BY DEF FoundIsThere, Live
    <2>1. e # d
        BY <1>1 DEF TypeOK
    <2>2. reusing'[e] = reusing[e] /\ stale = {}
        BY <1>2, <1>6, <1>7, <2>1
    <2> DEFINE c == reusing[e][x]
    <2>3. c \in Chunks /\ x \in SectionsOf(e) /\ Says(c, x) /\ Live(c) /\ chunk[c].owner # e
        <3>1. reusing[e] \in Occurrences
            BY <2>2 DEF TypeOK
        <3> QED BY <2>2, <3>1 DEF FoundIsThere, Occurrences
    <2> HIDE DEF c
    <2>4. chunk'[c].status \in {"accepted", "rejected"} /\ chunk'[c].owner # e
        BY <1>10, <2>1, <2>2, <2>3 DEF Live
    <2> QED BY <1>8, <2>2, <2>3, <2>4 DEF c
<1> QED BY <1>13, <1>14, <1>16, <1>17

LEMMA ReadKeepsGraph ==
    ASSUME CorpusInv, NEW d \in Docs, ReadDocument(d)
    PROVE  GraphStands' /\ MadeByOwner' /\ CutAsRegistered' /\ FoundIsThere'
<1> USE DEF CorpusInv, CorpusTyped
<1>1. /\ phase = "segment" /\ d \in todo
      /\ reusing' = [reusing EXCEPT ![d] = Found(d)]
      /\ segmented' = [segmented EXCEPT ![d] = 0]
      /\ UNCHANGED <<registry, doc, chunk, uses>>
    BY DEF ReadDocument, graph
<1>2. doc[d] = "accepted" /\ ~UpToDateSegment(d)
    BY <1>1 DEF ItemsInHand
<1>3. segmented'[d] = 0 /\ reusing'[d] = Found(d) /\ ~UpToDateSegment(d)'
      /\ \A e \in Docs : e # d => segmented'[e] = segmented[e] /\ reusing'[e] = reusing[e]
                                  /\ (UpToDateSegment(e)' <=> UpToDateSegment(e))
    BY <1>1, Registered DEF TypeOK, UpToDateSegment
<1>4. GraphStands'
    BY <1>1, <1>3 DEF GraphStands, Live
<1>5. MadeByOwner'
    <2>1. registry = 1 => segmented'[d] = segmented[d]
        BY <1>2, <1>3 DEF UpToDateSegment
    <2>2. \A c \in Chunks : chunk[c].owner \in Docs /\ c[1] \in Docs
        BY ChunkParts DEF TypeOK, Rows
    <2>3. \A c \in Chunks : chunk'[c].owner # c[1] =>
              doc'[c[1]] = "superseded" \/ (registry' # 1 /\ UpToDateSegment(c[1])')
        BY <1>1, <1>2, <1>3, <2>2 DEF MadeByOwner
    <2>4. registry = 1 => \A e \in Docs : segmented'[e] = segmented[e]
        BY <1>3, <2>1
    <2> QED BY <1>1, <2>2, <2>3, <2>4 DEF MadeByOwner, Live
<1>6. CutAsRegistered'
    <2> SUFFICES ASSUME NEW e \in Docs, doc'[e] = "accepted", UpToDateSegment(e)'
                 PROVE  CarriesItsSections(e)'
        BY DEF CutAsRegistered
    <2>1. CarriesItsSections(e)
        BY <1>1, <1>3 DEF CutAsRegistered
    <2> QED BY <1>1, <2>1 DEF CarriesItsSections, SectionsOf, Live
<1>7. FoundIsThere'
    <2> SUFFICES ASSUME NEW e \in Docs, reusing'[e] # Idle, NEW x \in Parts, reusing'[e][x] # NoChunk
                 PROVE  /\ x \in SectionsOf(e) /\ Says(reusing'[e][x], x)
                        /\ Live(reusing'[e][x]) /\ chunk[reusing'[e][x]].owner # e
        BY <1>1 DEF FoundIsThere, Live, SectionsOf
    <2>1. CASE e = d
        <3>1. reusing'[e][x] \in Reusable(d, x) /\ x \in SectionsOf(d)
            BY <1>3, <2>1, FoundTyped
        <3> QED BY <2>1, <3>1 DEF Reusable, Live
    <2>2. CASE e # d
        BY <1>3, <2>2 DEF FoundIsThere
    <2> QED BY <2>1, <2>2
<1> QED BY <1>4, <1>5, <1>6, <1>7

(* A second version whose segmentation is the first's cuts as the first did.  *)
LEMMA RegistryKeepsGraph ==
    ASSUME CorpusInv, CutAgainOnce, ChangeRegistry
    PROVE  GraphStands' /\ MadeByOwner' /\ CutAsRegistered' /\ FoundIsThere'
<1> USE DEF CorpusInv, CorpusTyped
<1>1. /\ phase = "idle" /\ registry + 1 \in DOMAIN Sections /\ registry' = registry + 1
      /\ UNCHANGED <<doc, chunk, uses, segmented, reusing>>
    BY DEF ChangeRegistry, graph, ledger, build
<1>2. registry = 1 /\ registry' = 2 /\ {1, 2} \subseteq DOMAIN Sections
    BY <1>1, Registered DEF CutAgainOnce
<1>3. ASSUME NEW d \in Docs, segmented[d] = SegmentDeps[2]
      PROVE  UpToDateSegment(d) /\ SectionsOf(d)' = SectionsOf(d)
    <2>1. segmented[d] \in {0, SegmentDeps[1]} /\ SegmentDeps[2] # 0
        BY <1>2, Registered
    <2>2. SegmentDeps[1] = SegmentDeps[2] => Sections[1] = Sections[2]
        BY <1>2, CorpusAssumption DEF CorpusAssumption
    <2> QED BY <1>2, <1>3, <2>1, <2>2 DEF UpToDateSegment, SectionsOf
<1>4. GraphStands'
    BY <1>1 DEF GraphStands, Live
<1>5. MadeByOwner'
    BY <1>1, <1>2 DEF MadeByOwner, Live
<1>6. CutAsRegistered'
    <2> SUFFICES ASSUME NEW d \in Docs, doc'[d] = "accepted", UpToDateSegment(d)'
                 PROVE  CarriesItsSections(d)'
        BY DEF CutAsRegistered
    <2>1. SectionsOf(d)' = SectionsOf(d) /\ CarriesItsSections(d)
        BY <1>1, <1>2, <1>3 DEF CutAsRegistered, UpToDateSegment
    <2> QED BY <1>1, <2>1 DEF CarriesItsSections, Live
<1>7. FoundIsThere'
    BY <1>1 DEF ItemsInHand, FoundIsThere
<1> QED BY <1>4, <1>5, <1>6, <1>7

LEMMA GraphKept ==
    ASSUME CorpusInv, CutAgainOnce, [Next]_vars
    PROVE  GraphStands' /\ MadeByOwner' /\ CutAsRegistered' /\ FoundIsThere'
<1> DEFINE Kept == GraphStands /\ MadeByOwner /\ CutAsRegistered /\ FoundIsThere
<1>1. ASSUME UNCHANGED <<doc, uses, segmented, registry>>,
             \A c \in Chunks : chunk'[c].status = chunk[c].status /\ chunk'[c].owner = chunk[c].owner,
             \A d \in Docs : reusing'[d] \in {reusing[d], Idle}
      PROVE  Kept'
    <2>1. \A c \in Chunks : Live(c)' <=> Live(c)
        BY <1>1 DEF Live
    <2>2. ASSUME NEW d \in Docs, NEW x \in Parts, uses[d][x] # NoChunk PROVE uses[d][x] \in Chunks
        BY <2>2 DEF CorpusInv, CorpusTyped, TypeOK, Occurrences
    <2>3. GraphStands'
        BY <1>1, <2>1, <2>2 DEF CorpusInv, GraphStands, Live
    <2>4. MadeByOwner'
        BY <1>1, <2>1 DEF CorpusInv, MadeByOwner, UpToDateSegment
    <2>5. CutAsRegistered'
        <3> SUFFICES ASSUME NEW d \in Docs, doc'[d] = "accepted", UpToDateSegment(d)'
                     PROVE  CarriesItsSections(d)'
            BY DEF CutAsRegistered
        <3>1. CarriesItsSections(d) /\ SectionsOf(d)' = SectionsOf(d)
            BY <1>1 DEF CorpusInv, CutAsRegistered, UpToDateSegment, SectionsOf
        <3> QED BY <1>1, <2>1, <3>1 DEF CarriesItsSections
    <2>6. FoundIsThere'
        <3> SUFFICES ASSUME NEW d \in Docs, reusing'[d] # Idle, NEW x \in Parts, reusing'[d][x] # NoChunk
                     PROVE  /\ x \in SectionsOf(d)' /\ Says(reusing'[d][x], x)
                            /\ chunk'[reusing'[d][x]].status \in {"accepted", "rejected"}
                            /\ chunk'[reusing'[d][x]].owner # d
            BY DEF FoundIsThere, Live
        <3>1. reusing'[d] = reusing[d] /\ reusing[d] \in Occurrences
            BY <1>1 DEF CorpusInv, CorpusTyped, TypeOK
        <3>2. reusing[d][x] \in Chunks
            BY <3>1 DEF Occurrences
        <3> QED BY <1>1, <3>1, <3>2 DEF CorpusInv, FoundIsThere, SectionsOf, Live
    <2> QED BY <2>3, <2>4, <2>5, <2>6
<1>2. ASSUME FinishSegment PROVE Kept'
    <2>1. \A c \in Chunks : chunk'[c].status = chunk[c].status /\ chunk'[c].owner = chunk[c].owner
        BY <1>2 DEF FinishSegment, CorpusInv, CorpusTyped, TypeOK, Rows
    <2> QED BY <1>1, <1>2, <2>1 DEF FinishSegment
<1>3. ASSUME UNCHANGED <<doc, chunk, uses, segmented, registry, reusing>> PROVE Kept'
    BY <1>1, <1>3
<1>4. ASSUME \/ \E f \in Files : Edit(f) \/ ReadFile(f) \/ LookForDuplicate(f) \/ FailIngest(f)
             \/ StartSegment \/ StopUpdate \/ UNCHANGED vars
             \/ \E given \in SUBSET Files : StartIngest(given)
      PROVE  Kept'
    BY <1>3, <1>4 DEF Edit, ReadFile, LookForDuplicate, FailIngest, StartSegment, StopUpdate, StartIngest, vars, graph, ledger, build
<1>5. ASSUME Crash \/ \E d \in Docs : FailSegment(d) PROVE Kept'
    <2>1. UNCHANGED <<doc, chunk, uses, segmented, registry>>
        BY <1>5 DEF Crash, FailSegment, graph, ledger
    <2>2. \A d \in Docs : reusing'[d] \in {reusing[d], Idle}
        BY <1>5 DEF Crash, FailSegment, CorpusInv, CorpusTyped
    <2> QED BY <1>1, <2>1, <2>2
<1> HIDE DEF Kept
<1>6. ASSUME \/ ChangeRegistry \/ \E f \in Files : CommitDocument(f)
             \/ \E d \in Docs : ReadDocument(d) \/ CommitChunks(d)
      PROVE  Kept'
    BY <1>6, IngestKeepsGraph, SegmentKeepsGraph, ReadKeepsGraph, RegistryKeepsGraph DEF Kept
<1>7. Kept'
    BY <1>2, <1>4, <1>5, <1>6 DEF Next, StageStep
<1> QED BY <1>7 DEF Kept

-----------------------------------------------------------------------------
(* The theorems. *)

LEMMA CorpusStarts == Init => CorpusInv
<1> SUFFICES ASSUME Init PROVE CorpusInv
    OBVIOUS
<1>1. CorpusTyped
    BY CorpusStartsTyped
<1>2. /\ \A d \in Docs : doc[d] = "absent" /\ segmented[d] = 0 /\ reusing[d] = Idle
      /\ \A f \in Files : reading[f] = Idle
      /\ \A d \in Docs : \A x \in Parts : uses[d][x] = NoChunk
      /\ \A c \in Chunks : ~Live(c) /\ chunk[c].owner = c[1]
      /\ phase = "idle" /\ todo = {} /\ registry = 1
    BY ChunkParts DEF Init, AllIdle, Live
<1>3. InOrder
    BY <1>2 DEF InOrder, DocsInOrder, ReadInOrder, ItemsInOrder
<1>4. ItemsInHand
    <2>1. {d \in Docs : reusing[d] # Idle} = {}
        BY <1>2
    <2> QED BY <1>2, <2>1, FS_EmptySet DEF ItemsInHand
<1>5. IngestedOnce
    <2>1. \A f \in Files : Shared(<<f, Text(f)>>) => <<f, Text(f)>> \in Docs
        <3>1. \A f \in Files : Shared(<<f, Text(f)>>) => Text(f) # NoText
            BY DocParts DEF Shared
        <3> QED BY <1>1, <3>1, TextTyped DEF CorpusTyped
    <2> QED BY <1>2, <2>1 DEF IngestedOnce
<1>6. GraphStands /\ MadeByOwner /\ FoundIsThere
    BY <1>2 DEF GraphStands, MadeByOwner, FoundIsThere
<1>7. CutAsRegistered
    BY <1>2 DEF CutAsRegistered
<1> QED BY <1>1, <1>3, <1>4, <1>5, <1>6, <1>7 DEF CorpusInv

LEMMA CorpusKept ==
    ASSUME CorpusInv, PlainHistory, [NextChunks \/ NextMetadata]_sideVars
    PROVE  CorpusInv'
<1>1. [Next]_vars
    BY DEF NextChunks, NextMetadata, sideVars
<1> QED BY <1>1, TypedKept, InOrderKept, ItemsInHandKept, IngestedOnceKept, GraphKept DEF CorpusInv, PlainHistory

LEMMA CorpusInvariant ==
    ASSUME PlainHistory
    PROVE  SidesSpec => []CorpusInv
<1>1. InitSides => CorpusInv
    BY CorpusStarts DEF InitSides
<1>2. CorpusInv /\ [NextChunks \/ NextMetadata]_sideVars => CorpusInv'
    BY CorpusKept
<1> QED BY <1>1, <1>2, PTL DEF SidesSpec

(* Whatever is edited, failed or killed, an accepted document whose           *)
(* segmentation is up to date has every part of its text in the graph.        *)
THEOREM DocumentsKeepTheirSections ==
    ASSUME PlainHistory
    PROVE  SidesSpec => []SectionsCarried
<1>1. CorpusInv => SectionsCarried
    <2> SUFFICES ASSUME CorpusInv, NEW d \in Docs, doc[d] = "accepted", UpToDateSegment(d), NEW x \in SectionsOf(d)
                 PROVE  \E c \in Chunks : Says(c, x) /\ Live(c) /\ (chunk[c].owner = d \/ uses[d][x] = c)
        BY DEF SectionsCarried, UpToDateSegment
    <2>1. x \in Parts
        BY Registered DEF CorpusInv, CorpusTyped
    <2>2. CarriesItsSections(d)
        BY DEF CorpusInv, CutAsRegistered
    <2>3. CASE uses[d][x] = NoChunk
        BY <2>2, <2>3 DEF CarriesItsSections
    <2>4. CASE uses[d][x] # NoChunk
        <3> DEFINE c == uses[d][x]
        <3>1. c \in Chunks
            BY <2>1, <2>4 DEF CorpusInv, CorpusTyped, TypeOK, Occurrences
        <3>2. Says(c, x) /\ Live(c)
            BY <2>1, <2>4 DEF CorpusInv, GraphStands
        <3> QED BY <3>1, <3>2
    <2> QED BY <2>3, <2>4
<1> QED BY <1>1, CorpusInvariant, PTL

(* Nothing of replaced texts is left: a chunk in the graph belongs to an      *)
(* accepted document and, unless that repeats its text, is one of its present *)
(* parts, which it has once (repo.retire_chunks).                             *)
THEOREM ReplacedTextsGo ==
    ASSUME PlainHistory
    PROVE  SidesSpec => []NothingLeftOver
<1>1. CorpusInv => NothingLeftOver
    <2> SUFFICES ASSUME CorpusInv PROVE NothingLeftOver
        OBVIOUS
    <2>1. TypeOK
        BY DEF CorpusInv, CorpusTyped
    <2>2. ASSUME NEW c \in Chunks, Live(c)
          PROVE  LET d == chunk[c].owner IN
                 /\ doc[d] = "accepted"
                 /\ segmented[d] = SegmentDeps[registry] /\ ~SaysTwice(d, Wording[c[2]]) =>
                      /\ \E x \in SectionsOf(d) : Says(c, x) /\ uses[d][x] = NoChunk
                      /\ \A e \in LiveChunksOf({d}) : Says(e, c[2]) => e = c
        <3> DEFINE d == chunk[c].owner
        <3>1. d \in Docs /\ doc[d] = "accepted"
            BY <2>1, <2>2 DEF CorpusInv, GraphStands, TypeOK, Rows
        <3>2. UpToDateSegment(d) => CarriesItsSections(d)
            BY <3>1 DEF CorpusInv, CutAsRegistered
        <3> QED BY <2>2, <3>1, <3>2 DEF CarriesItsSections, UpToDateSegment, LiveChunksOf
    <2> QED BY <2>1, <2>2 DEF NothingLeftOver
<1> QED BY <1>1, CorpusInvariant, PTL
=============================================================================
