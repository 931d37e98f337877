------------------------------- MODULE Names --------------------------------
(***************************************************************************)
(* How pkg/common reads the attributes of a recommendation or commitment   *)
(* (engine.go, deployment.go, ec2_size.go, rds_size.go).  A resource type  *)
(* is <<family, size>>, <<name, "">> when it has no size part.  Every      *)
(* table holds the spellings the instances use, several for one meaning,   *)
(* and "" for an attribute that is not set.                                *)
(***************************************************************************)
EXTENDS Integers, TLC, Absent

(* EC2 and RDS normalization factors, in quarters of a unit.               *)
SizeFactor ==
    [size \in {"nano", "micro", "small", "medium", "large", "xlarge", "2xlarge"} |->
        CASE size = "nano" -> 1 [] size = "micro" -> 2 [] size = "small" -> 4 [] size = "medium" -> 8
          [] size = "large" -> 16 [] size = "xlarge" -> 32 [] size = "2xlarge" -> 64]

EC2NormalizationFactor(size) == IF size \in DOMAIN SizeFactor THEN SizeFactor[size] ELSE 0
RDSInstanceNU(size) == EC2NormalizationFactor(size)

EC2SizeFlexibleFamily(family) == family \notin {"g5", "inf2"}
RDSSizeFlexibleEngine(engine) == engine \in {"mysql", "mariadb", "postgresql", "aurora-mysql"}

Alias(table, name) == IF name \in DOMAIN table THEN table[name] ELSE name

NormalizeEngineName(engine) ==
    Alias("Aurora MySQL" :> "aurora-mysql" @@ "postgres" :> "postgresql" @@ "MySQL" :> "mysql"
          @@ "oracle-se2" :> "oracle" @@ "oracle-ee" :> "oracle" @@ "Redis" :> "redis", engine)

NormalizePlatformName(platform) ==
    Alias("Linux" :> "linux/unix" @@ "Linux/UNIX" :> "linux/unix"
          @@ "Linux/UNIX (Amazon VPC)" :> "linux/unix" @@ "Windows" :> "windows", platform)

(* A tenancy or scope that is not recognised reads as not set.             *)
NormalizeTenancyName(tenancy) ==
    IF tenancy \in {"default", "shared"} THEN "default"
    ELSE IF tenancy \in {"dedicated", "host"} THEN tenancy ELSE ""

NormalizeScopeName(scope) ==
    IF scope \in {"region", "Region", "regional"} THEN "regional"
    ELSE IF scope \in {"Availability Zone", "availability-zone", "zonal"} THEN "zonal" ELSE ""

NormalizeDeploymentName(deployment) ==
    Alias("Single-AZ" :> "singleaz" @@ "single-az" :> "singleaz" @@ "Multi-AZ" :> "multiaz"
          @@ "multi-az" :> "multiaz", deployment)
=============================================================================
