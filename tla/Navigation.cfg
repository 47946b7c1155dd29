\* Any walk through an employer's pages, with Back.
SPECIFICATION Spec
CONSTANTS
    Home = Home
    Jobs = Jobs
    Job = Job
    Duties = Duties
    Duty = Duty
    NewDuty = NewDuty
    Applications = Applications
    Application = Application
    MenuPages <- MCMenuPages
    Items <- MCItems
    Buttons <- MCButtons
    Returning <- MCReturning
    Writable <- MCWritable
    Sep = Sep
    Null = Null
    MaxPast = 3
    MaxDepth = 3
INVARIANTS TypeOK StackIsTrail
PROPERTIES KeepsStack
