\* The relays' results against the controller client contract
CONSTANTS
    page = page
    HttpCodes <- MCHttpCodes
    ErrorPage <- page
INIT Init
NEXT Next
INVARIANT ClientMatchesSpec
