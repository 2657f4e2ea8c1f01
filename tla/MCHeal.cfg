SPECIFICATION FairSpec
CONSTANTS
    s1 = s1  s2 = s2  s3 = s3
    p1 = p1  p2 = p2  p3 = p3
    none = none
    Ids = {1, 2, 3, 4}
    Facts <- MCFacts
    Phrases = {p1, p2, p3}
    Questions = {"q1", "q2"}
    Versions = {"v1", "v2"}
    None = none
    Weight <- MCWeight
    Percent = 60
    RoundsUp = {}
    MinSample = 2
    Novel <- AHalf
    wa = wa  wb = wb
    Windows = {wa}
    Sources = {s1, s2, s3}
    Log <- MCLogTwice
    Datasets <- MCTwoDatasets
    Merge <- AThird
    Neighbour <- AThird
    Fresh <- AHalf
    MaxKills = 2
INVARIANTS
    SelectOverOneWindow
    OutliersAreTheTail
    ScoreExitHonest
    HealthTellsOneStory
PROPERTIES
    AdviceHeals
