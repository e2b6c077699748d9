SPECIFICATION Spec
CONSTANTS
    Writers = {w1, w2}
    Tropisms = {"tropism"}
    Cultivars = {"cultivar"}
    Projections = {"projection"}
    Definitions <- MCDefinitions
    Malformed = "malformed"
    SeedOrder <- MCSeedOrder
    Tokens = {"human", "agent"}
    Activations = {"activation"}
    Proposer <- MCProposer
    SetReviews = {"approved"}
    Direct = "direct"
    Seeding = "seed"
    Nobody = "nobody"
    MaxRequests = 3
    MaxSeeds = 2
    MaxReviews = 2
INVARIANTS
    
    ReseedIsQuiet
    GrantedIsDefined
SYMMETRY Symmetry
CHECK_DEADLOCK FALSE
