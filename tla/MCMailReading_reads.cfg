SPECIFICATION Spec
CONSTANTS
    MaxUid = 5
    MaxNews = 1
    MaxLimit = 2
    Trait <- MCTrait
    Flags = {"SEEN"}
    Nesting <- MCNesting
    MaxSize = 2
    Fields <- MCFields
    Mail <- MCMail
    MaxParts = 3
    MaxHeaders = 3
    MaxChars = {1, 2}
    Folder <- MCFolder
INVARIANTS
    PagingTypeOK
    SkipsBounded
    PageNewestFirst
    SearchExact
    OffersHold
    CutIsTold
    HiddenStaysHidden
    NamesOpen
